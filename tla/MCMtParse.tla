------------------------------ MODULE MCMtParse ------------------------------
(* An instance of MtParse for TLC: commands that usr/test/mt_test.c,          *)
(* usr/test/mt_video_test.c (processes) and kern/mt/mt_kern_test.c (a module) *)
(* register, the one that is commented out in mt_test.c because it conflicts, *)
(* one that has a string where another has a name, the commands for debug     *)
(* levels of a module with two levels and of a process with one, and the      *)
(* terminal's own.  Names are shortened to the letters that tell them apart.  *)
EXTENDS MtParse

Text(name, id) == [type |-> "text", name |-> name, id |-> id, min |-> 0, max |-> 0]
Val(type, id, min, max) == [type |-> type, name |-> <<>>, id |-> id, min |-> min, max |-> max]

CommItems == [
  disp |-> Text(<<"d", "i">>, "disp"),
  set  |-> Text(<<"s", "e">>, "set"),
  cb   |-> Text(<<"c", "b">>, "cb"),
  stat |-> Text(<<"s", "t">>, "stat"),
  dbg  |-> Text(<<"d", "e">>, "dbg"),
  undo |-> Text(<<"u", "n">>, "undo"),
  all  |-> Text(<<"a", "l">>, "all"),
  msg  |-> Text(<<"m", "s">>, "msg"),
  pkt  |-> Text(<<"p", "k">>, "pkt"),
  err  |-> Text(<<"e", "r">>, "err"),
  info |-> Text(<<"i", "n">>, "info"),
  chan |-> Val("chan", "chan", 0, 0),
  ip   |-> Val("ip", "ip", 0, 0),
  mod  |-> Val("mod", "mod", 0, 0) ]

Std(id) == One(Spec1(id))
OtherCb == Text(<<"c", "b">>, "abc")
Cbc == Text(<<"c", "b", "c">>, "cbc")
Conn == Text(<<"c", "o">>, "")
Es == Text(<<"e", "s">>, "vt")
Rtp == Text(<<"r", "t">>, "vt")
Ps == Text(<<"p", "s">>, "vt")
Cnt == Val("int", "Cnt", 1, 100)
Str == Val("str", "str", 0, 2)
MaxStr == Val("str", "str", 1, 8)
Str3 == Val("str", "s3", 1, 3)
Least2 == Val("str", "s2", 2, 3)
Dib == Text(<<"d", "i", "b">>, "dib")
Di == Text(<<"d", "i">>, "di")
Se == Text(<<"s", "e">>, "se")
Mt == Text(<<"m", "t">>, "mt")

Cmd(id, usr, items) == [id |-> id, name |-> <<"k">>, usr |-> usr, items |-> items]
OfProcess(id, items) == Cmd(id, TRUE, items)
OfModule(id, items) == Cmd(id, FALSE, items)

AllCmds == {
  OfProcess(1, <<Std("disp"), MergeItemsToArr(<<Spec1("cb"), Spec1("stat")>>)>>),
  OfProcess(2, <<Std("disp"), One(Cbc), Std("cb")>>),
  OfModule(3, <<Std("disp"), Std("cb"), One(MaxStr)>>),
  OfModule(4, <<Std("disp"), Std("ip")>>),
  OfProcess(5, <<Std("disp"), Std("chan")>>),
  OfProcess(6, <<Std("set"), MergeItemsToArr(<<Es, Rtp, Ps>>), Std("chan"), One(Cnt)>>),
  OfProcess(7, <<Std("set"), One(Conn), Std("chan"), Std("chan")>>),
  OfProcess(8, <<Std("disp"), One(OtherCb)>>),
  OfProcess(9, <<Std("disp"), One(Cbc), MergeItemsToArr(<<Str, Mt>>)>>),
  OfModule(10, DbgCmdLines(Spec1("mod"), {"msg", "pkt"})[1]),
  OfProcess(11, DbgCmdLines(Text(<<"o">>, "cbnm"), {"err"})[1]),
  OfProcess(12, <<MergeItemsToArr(<<Dib, Di, Se>>), One(Str3), One(Str), One(Least2)>>) }

Self(id, items) == [id |-> id, items |-> items]
Debug == CommItems["dbg"]
Exit == Text(<<"e", "x">>, "exit")
Quit == Text(<<"q", "u">>, "quit")
MgrCmds == <<Self(20, <<Debug, Mt>>), Self(21, <<CommItems["undo"], Debug, Mt>>), Self(22, <<Exit>>)>>
QuitCmds == <<Self(22, <<Exit>>), Self(23, <<Quit>>)>>

AllWords == {
  <<"d", "i">>, <<"d", "e">>, <<"s">>, <<"s", "t">>,
  <<"c">>, <<"c", "b">>, <<"c", "b", "c">>, <<"e">>, <<"e", "s">>, <<"m">>, <<"k">>, <<"p">>,
  <<"a", "\t", "b">>, <<"\t", "a">>, <<"\t">>,
  [i \in 1 .. 8 |-> "a"], <<"1">>, <<"0", "7">>, <<"0", "9">>, <<"1", "0", "1">>,
  <<"1", "/", "0">>, <<"1", "/", "0", "/", "2">>, <<"1", ".", "0">>, <<"1", ".", "0", ".", "0", ".", "1">> }
==============================================================================
