------------------------------ MODULE MtToken ------------------------------
(***************************************************************************)
(* The words of a command line and what they may stand for.  A line is     *)
(* taken apart and its words are compared with the items of a command      *)
(* twice, by two programs: the terminal (usr/mt/mt_parse.cpp), which finds *)
(* the command a line means, and the kernel (kern/mt/mt_cmd_proc.c), which *)
(* takes the line apart once more to execute that command.                 *)
(*                                                                         *)
(* A line and a word are sequences of characters.  Left out: upper and     *)
(* lower case, which both sides ignore, and hexadecimal notation, which    *)
(* both read with the same simple_strtoul.                                 *)
(***************************************************************************)
EXTENDS Naturals, Sequences, SequencesExt

CONSTANTS
  StrMax,    \* MT_STR_MAX_LEN and MT_NAME_MAX_LEN
  IpMax,     \* VA_IP_LEN
  ItemMax,   \* MT_ITEM_MAX_NUM
  ULongMod   \* one more than the largest ULONG

ASSUME MtTokenAssumption == {StrMax, IpMax, ItemMax, ULongMod} \subseteq Nat \ {0}

DigitSeq == <<"0", "1", "2", "3", "4", "5", "6", "7", "8", "9">>
Digits == {DigitSeq[i] : i \in 1 .. 10}
DigitVal(c) == (CHOOSE i \in 1 .. 10 : DigitSeq[i] = c) - 1

-----------------------------------------------------------------------------
(* Taking a line apart                                                     *)

\* the pieces of s between separators, empty ones too
Pieces(s, seps) ==
  FoldLeft(LAMBDA ps, c : IF c \in seps THEN Append(ps, <<>>)
                          ELSE [ps EXCEPT ![Len(ps)] = Append(@, c)],
           << <<>> >>, s)

WordsOf(line, blanks) == SelectSeq(Pieces(line, blanks), LAMBDA w : w # <<>>)

\* CMt::GetToken cuts at spaces
GetToken(line) == WordsOf(line, {" "})

\* MT_GetToken cuts at every white space and keeps as many as fit its array
KGetToken(line) ==
  LET ws == WordsOf(line, {" ", "\t"})
  IN  IF Len(ws) > ItemMax + 1 THEN SubSeq(ws, 1, ItemMax + 1) ELSE ws

-----------------------------------------------------------------------------
(* Numbers, channel ids and addresses                                      *)

NumVal(ds, base) == FoldLeft(LAMBDA v, c : (v * base + DigitVal(c)) % ULongMod, 0, ds)
Dec(ds) == NumVal(ds, 10)

\* simple_strtoul with base 0: a leading 0 means octal, and the digits end
\* at the first that is too large
Base(t) == IF t[1] = "0" THEN 8 ELSE 10
IsNumber(t) == \A i \in DOMAIN t : t[i] \in Digits /\ DigitVal(t[i]) < Base(t)

\* CMt::CheckInt
CheckInt(x, t) ==
  /\ t # <<>>
  /\ Len(t) <= StrMax
  /\ IsNumber(t)
  /\ NumVal(t, Base(t)) \in x.min .. x.max

Only(t, chars) == \A i \in DOMAIN t : t[i] \in chars

\* The digits are counted from the first one on, not from the last slash.
CheckPartChan(t) ==
  LET digits == SelectSeq(t, LAMBDA c : c \in Digits)
  IN  /\ t # <<>>
      /\ Len(t) <= StrMax
      /\ Only(t, Digits \union {"/"})
      /\ t[1] \in Digits
      /\ Len(digits) <= 3
      /\ Len(t) - Len(digits) <= 2

CheckFullChan(t) ==
  /\ CheckPartChan(t)
  /\ Len(Pieces(t, {"/"})) = 3
  /\ \A i \in 1 .. 3 : Pieces(t, {"/"})[i] # <<>>

MT_ChkChanId(t) ==
  LET ps == Pieces(t, {"/"})
  IN  /\ Len(t) <= StrMax
      /\ Only(t, Digits \union {"/"})
      /\ Len(ps) = 3
      /\ \A i \in 1 .. 3 : ps[i] # <<>>

CheckPartIp(t) ==
  LET ps == Pieces(t, {"."})
  IN  /\ Len(t) <= IpMax
      /\ Only(t, Digits \union {"."})
      /\ Len(ps) <= 4
      /\ \A i \in DOMAIN ps :
           /\ Len(ps[i]) <= 3
           /\ Dec(ps[i]) <= 255
           /\ i < Len(ps) => ps[i] # <<>>

CheckFullIp(t) ==
  /\ CheckPartIp(t)
  /\ Len(Pieces(t, {"."})) = 4
  /\ Pieces(t, {"."})[4] # <<>>

MT_ChkIp(t) ==
  LET ps == Pieces(t, {"."})
  IN  /\ Len(t) <= IpMax
      /\ Only(t, Digits \union {"."})
      /\ Len(ps) = 4
      /\ \A i \in 1 .. 4 : ps[i] # <<>> /\ Dec(ps[i]) <= 255

-----------------------------------------------------------------------------
(* What an item of a command accepts.  Hexadecimal numbers and pointers    *)
(* are numbers.                                                            *)

ItemTypes == {"text", "str", "int", "chan", "ip"}

\* the terminal, a word that may go on
FitsPart(x, t) ==
  \/ x.type = "str" /\ Len(t) <= x.max
  \/ x.type = "text" /\ IsPrefix(t, x.name)
  \/ x.type = "int" /\ CheckInt(x, t)
  \/ x.type = "chan" /\ CheckPartChan(t)
  \/ x.type = "ip" /\ CheckPartIp(t)

\* the terminal, a word followed by another
Fits(x, t) ==
  \/ x.type \in {"str", "text", "int"} /\ FitsPart(x, t)
  \/ x.type = "chan" /\ CheckFullChan(t)
  \/ x.type = "ip" /\ CheckFullIp(t)

\* the kernel
MT_ChkText(x, t) == Len(t) <= StrMax /\ IsPrefix(t, x.name)
MT_ChkStr(x, t) == Len(t) \in x.min .. x.max /\ Len(t) < StrMax
MT_ChkInt(x, t) == CheckInt(x, t)

MT_MatchEntry(x, t) ==
  \/ x.type = "text" /\ MT_ChkText(x, t)
  \/ x.type = "str" /\ MT_ChkStr(x, t)
  \/ x.type = "int" /\ MT_ChkInt(x, t)
  \/ x.type = "chan" /\ MT_ChkChanId(t)
  \/ x.type = "ip" /\ MT_ChkIp(t)
=============================================================================
