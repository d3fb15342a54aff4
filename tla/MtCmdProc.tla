----------------------------- MODULE MtCmdProc -----------------------------
(***************************************************************************)
(* The kernel's part in executing a command line (kern/mt/mt_cmd_proc.c).  *)
(* The terminal says which command it means and hands over the line; the   *)
(* kernel takes the line apart once more, binds its words to the items of  *)
(* that command and calls the command, which asks for its values by the    *)
(* ids of its items.                                                       *)
(***************************************************************************)
EXTENDS MtToken, Integers

NoVals == [ok |-> FALSE, vals |-> <<>>]

\* the alternatives of an item are tried in their order
MatchingEntry(alts, t) == SelectInSeq(alts, LAMBDA x : MT_MatchEntry(x, t))

\* MT_GetValList: the values of a line for a command with entries es
GetValList(es, toks) ==
  LET bound(i) == es[i].alts[MatchingEntry(es[i].alts, toks[i])]
  IN  IF /\ Len(toks) = Len(es)
         /\ \A i \in DOMAIN toks : MatchingEntry(es[i].alts, toks[i]) # 0
      THEN [ok |-> TRUE, vals |-> [i \in DOMAIN toks |-> [item |-> bound(i), str |-> toks[i]]]]
      ELSE NoVals

\* MT_GetAllValById, by MT_FindNextValItem: at most n values of an id, and the
\* number there are of them
AllValById(vals, id, n) ==
  LET found == SelectSeq(vals, LAMBDA v : v.item.id = id)
  IN  IF Len(found) > n THEN SubSeq(found, 1, n) ELSE found

\* MT_FindValItem, on which MT_GetStrVal and the others rest
FindVal(vals, id) == AllValById(vals, id, 1)

\* __MT_GetChanIdVal: the numbers are cut to the 16 bits of a CHAN_ID_S
ChanIdVal(v) ==
  LET ps == Pieces(v.str, {"/"})
  IN  [i \in 1 .. 3 |-> Dec(ps[i]) % 65536]
=============================================================================
