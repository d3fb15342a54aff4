------------------------------ MODULE MtItems ------------------------------
(***************************************************************************)
(* What becomes of the items of a command on their way from the one who    *)
(* registers it to the manager (kern/mt/mt_mgr.c).  A module of the kernel *)
(* hands over its items; a process (usr/lib/mt_usr.c) has them written     *)
(* into one flat array, in which alternatives follow each other and are    *)
(* marked, and the kernel puts them together again.                        *)
(*                                                                         *)
(* A command is a record of its id, the name of its registrant, whether    *)
(* that is a process, and its items.  Each is one item or was merged to an *)
(* array of alternatives (arr).  An item of type "spec" stands for one of  *)
(* the common items of the kernel, which it names by its id.               *)
(***************************************************************************)
EXTENDS MtToken

CONSTANTS
  CommCmdItem,  \* gastCommCmdItem, by the ids of the items
  ArrMax        \* MT_ITEM_MAX_ARR

ASSUME ArrAssumption == ArrMax \in Nat

\* MT_AddItemToArr: what does not fit any more is left out
AddItemToArr(arr, x) == IF Len(arr) > ArrMax THEN arr ELSE Append(arr, x)

\* the callers merge at least one item and no more than fit
MergeItemsToArr(xs) == [arr |-> TRUE, alts |-> xs]
ItemsFit(c) == \A i \in DOMAIN c.items : Len(c.items[i].alts) \in 1 .. ArrMax + 1

-----------------------------------------------------------------------------
(* The kernel's entries                                                    *)

GetSpecItem(x) == IF x.type = "spec" THEN CommCmdItem[x.id] ELSE x

\* Mutant: the range of a string stays as it was given.
NotFixed(x) == x

\* MT_FixItem: what a string may be at most is what fits a value
FixItem(x) ==
  IF x.type = "str"
  THEN [x EXCEPT !.min = IF @ = 0 THEN 1 ELSE @, !.max = IF @ >= StrMax THEN StrMax - 1 ELSE @]
  ELSE x

\* MT_SetEntry: "mod" stands for the name of the registrant
SetEntry(x, szName) == IF x.type = "mod" THEN [x EXCEPT !.type = "text", !.name = szName] ELSE x

\* MT_AddItem, MT_AddArrItem
EntryOf(e, szName) ==
  [e EXCEPT !.alts = [j \in DOMAIN @ |-> SetEntry(FixItem(GetSpecItem(@[j])), szName)]]

-----------------------------------------------------------------------------
(* By way of a process                                                     *)

\* MT_USR_FillItem, MT_USR_FillArrItem: flags ARRAY and ARR_END
UsrItem(e) ==
  [j \in DOMAIN e.alts |-> [item |-> e.alts[j], arr |-> e.arr, fin |-> e.arr /\ j = Len(e.alts)]]

UsrItems(items) == FlattenSeq([i \in DOMAIN items |-> UsrItem(items[i])])

\* MT_AddUsrItems, one item further: the alternatives of an array are
\* gathered up to the one that is marked as the last
Gather(s, x) ==
  IF x.arr
  THEN LET alts == AddItemToArr(s.alts, x.item)
       IN  IF x.fin THEN [s EXCEPT !.es = Append(@, [arr |-> TRUE, alts |-> alts]), !.alts = <<>>]
           ELSE [s EXCEPT !.alts = alts]
  ELSE IF s.alts # <<>> THEN [s EXCEPT !.ok = FALSE]
       ELSE [s EXCEPT !.es = Append(@, [arr |-> FALSE, alts |-> <<x.item>>])]

\* an array that is not ended when the items end is added all the same
AddUsrItems(usr) ==
  LET s == FoldLeft(Gather, [ok |-> TRUE, es |-> <<>>, alts |-> <<>>], usr)
  IN  [ok |-> s.ok,
       es |-> IF s.alts = <<>> THEN s.es ELSE Append(s.es, [arr |-> TRUE, alts |-> s.alts])]

-----------------------------------------------------------------------------
(* Registering                                                             *)

\* the entries of a command; MT_FillItems counts those of a module
Entries(c) ==
  LET r == IF c.usr THEN AddUsrItems(UsrItems(c.items))
           ELSE [ok |-> Len(c.items) <= ItemMax, es |-> c.items]
  IN  [ok |-> r.ok, items |-> [i \in DOMAIN r.es |-> EntryOf(r.es[i], c.name)]]

Registered(c) == Entries(c).ok

\* MT_GetClInfo hands the entries over in one flat array once more.  The
\* first of the alternatives is never marked as the last.
UserArrItem(e) ==
  [j \in DOMAIN e.alts |-> [item |-> e.alts[j], arr |-> e.arr, fin |-> e.arr /\ j > 1 /\ j = Len(e.alts)]]
AstItem(c) ==
  LET es == Entries(c).items IN FlattenSeq([i \in DOMAIN es |-> UserArrItem(es[i])])

-----------------------------------------------------------------------------
(* The commands everyone has for the levels of debug messages it is        *)
(* capable of; who is capable of none has none of them                     *)

Spec1(id) == [type |-> "spec", id |-> id, name |-> <<>>, min |-> 0, max |-> 0]
One(x) == [arr |-> FALSE, alts |-> <<x>>]

\* MT_RegDbgCmdLine, MT_USR_RegDbgCmdLine: the items behind the name
LevelSeq == <<"msg", "pkt", "err", "info">>
DbgItemArr(cap) ==
  LET ls == SelectSeq(LevelSeq, LAMBDA l : l \in cap)
  IN  [arr |-> TRUE, alts |-> FoldLeft(AddItemToArr, <<>>, [i \in DOMAIN ls |-> Spec1(ls[i])])]

\* << the items of the commands that open a level, that close one, and the
\* like for all levels, and the command that displays them >>
DbgCmdLines(cb, cap) ==
  << << One(Spec1("dbg")), One(cb), DbgItemArr(cap) >>,
     << One(Spec1("undo")), One(Spec1("dbg")), One(cb), DbgItemArr(cap) >>,
     << One(Spec1("dbg")), One(cb), One(Spec1("all")) >>,
     << One(Spec1("undo")), One(Spec1("dbg")), One(cb), One(Spec1("all")) >>,
     << One(Spec1("disp")), One(Spec1("dbg")), One(cb) >> >>
=============================================================================
