-------------------------- MODULE MtTerminalProofs --------------------------
(***************************************************************************)
(* What is proved about the registry and its terminals for any number of   *)
(* registrants and terminals, any names and any bound on the ids: the      *)
(* counts of the views are right, so that the arrays of ids always fit,    *)
(* and a terminal nobody is about to wake shows what is registered.        *)
(*                                                                         *)
(* The counts need RegInv: ids are unique, a command is in the view of its *)
(* registrant, and a view in the table is the view of a registrant that    *)
(* has registered it.  That a terminal is in sync needs to be said of      *)
(* every step of its load (LoadInv), as long as the terminal is not dirty: *)
(* every change makes every terminal dirty, and only Renew, which starts   *)
(* from nothing, ends that.                                                *)
(*                                                                         *)
(* And about the line editor of a terminal and the loop around it          *)
(* (MtShell), for any characters, prompts, lines and commands: the screen  *)
(* always shows the line being edited, and what was typed is kept.  What   *)
(* is erased is counted, from the prompt and the line, so that nothing may *)
(* be on the row behind what is counted (Within).  That is so between two  *)
(* keys (Fit); a character that is put into the line erases when the line  *)
(* is one longer than what is shown, which is within it too.               *)
(***************************************************************************)
EXTENDS MtTerminal, MtShell, FiniteSetTheorems, SequenceTheorems, TLAPS

HasView == {"opening", "open", "added", "unregview"}

RegInv ==
  /\ IsFiniteSet(cls) /\ IsFiniteSet(Views)
  /\ \A cl \in cls : /\ pc[cl.cb] \in {"open", "added"}
                     /\ cl.view = viewId[cl.cb]
                     /\ cl.id < u64CmdIdSeq
  /\ \A x, y \in cls : x.id = y.id => x = y
  /\ \A a \in Cbs : viewId[a] < u64CmdIdSeq
  /\ \A a, b \in Cbs : a # b /\ viewId[a] = viewId[b] => viewId[a] = Root
  /\ \A v \in Views \ {Root} : \E a \in Cbs : viewId[a] = v /\ pc[a] \in HasView

RegAll == RegType /\ RegInv /\ CountsRight

(***************************************************************************)
(* The registry                                                            *)
(***************************************************************************)

\* What is left of a finite set without a part of it.
LEMMA CardinalityOfRest ==
  ASSUME NEW S, IsFiniteSet(S), NEW T \in SUBSET S
  PROVE  Cardinality(S \ T) = Cardinality(S) - Cardinality(T)
<1>1. (S \ T) \in SUBSET S OBVIOUS
<1>2. /\ IsFiniteSet(S \ T) /\ IsFiniteSet(T)
      /\ Cardinality(S \ T) \in Nat /\ Cardinality(T) \in Nat
  BY <1>1, FS_Subset, FS_CardinalityType
<1>3. (S \ T) \union T = S /\ (S \ T) \intersect T = {} OBVIOUS
<1>4. Cardinality((S \ T) \union T)
        = Cardinality(S \ T) + Cardinality(T) - Cardinality((S \ T) \intersect T)
  BY <1>2, FS_Union
<1>5. Cardinality(S) = Cardinality(S \ T) + Cardinality(T) - Cardinality({})
  BY <1>3, <1>4, Zenon
<1>6. Cardinality({}) = 0 BY FS_EmptySet
<1> QED BY <1>2, <1>5, <1>6

\* The parts of a set of commands that are in a view are finite.
LEMMA InViewFinite ==
  ASSUME IsFiniteSet(cls), NEW v
  PROVE  IsFiniteSet(InView(v)) /\ Cardinality(InView(v)) \in Nat
<1>1. InView(v) \in SUBSET cls BY DEF InView
<1> QED BY <1>1, FS_Subset, FS_CardinalityType

\* MT_OpenUa takes a fresh id and registers nothing yet.
LEMMA OpenUaStep ==
  ASSUME RegAll, NEW a \in Cbs, OpenUa(a)
  PROVE  RegAll'
<1> USE DEF RegAll, OpenUa
<1>1. RegType' BY DEF RegType, Views
<1>2. /\ cls' = cls /\ clCnt' = clCnt /\ viewCnt' = viewCnt
      /\ u64CmdIdSeq' \in {u64CmdIdSeq, u64CmdIdSeq + 1}
      /\ viewId'[a] \in {Root, u64CmdIdSeq}
      /\ viewId'[a] = Root \/ u64CmdIdSeq' = u64CmdIdSeq + 1
      /\ \A b \in Cbs : b # a => viewId'[b] = viewId[b] /\ pc'[b] = pc[b]
      /\ pc[a] = "closed" /\ u64CmdIdSeq \in Nat \ {0}
  BY DEF RegType
<1>3. RegInv'
  <2>1. IsFiniteSet(cls)' /\ IsFiniteSet(Views)' BY <1>2 DEF RegInv, Views
  <2>2. \A cl \in cls : cl.cb \in Cbs /\ cl.cb # a BY <1>2 DEF RegInv, RegType, Cl
  <2>3. \A cl \in cls : /\ pc'[cl.cb] \in {"open", "added"}
                        /\ cl.view = viewId'[cl.cb]
                        /\ cl.id < u64CmdIdSeq'
    BY <1>2, <2>2 DEF RegInv, RegType, Cl
  <2>4. \A b \in Cbs : viewId'[b] < u64CmdIdSeq' BY <1>2 DEF RegInv, RegType, Root
  <2>5. \A b, d \in Cbs : b # d /\ viewId'[b] = viewId'[d] => viewId'[b] = Root
    BY <1>2 DEF RegInv, RegType, Root
  <2>6. \A v \in Views \ {Root} : \E b \in Cbs : viewId'[b] = v /\ pc'[b] \in HasView
    BY <1>2 DEF RegInv, HasView
  <2> QED BY <1>2, <2>1, <2>3, <2>4, <2>5, <2>6 DEF RegInv, Views
<1>4. CountsRight' BY <1>2 DEF CountsRight, InView, Views
<1> QED BY <1>1, <1>3, <1>4

\* The view a registrant enters in the table is not there and has no command.
LEMMA RegViewStep ==
  ASSUME RegAll, NEW a \in Cbs, RegView(a)
  PROVE  RegAll'
<1> USE DEF RegAll
<1>0. /\ cls' = cls /\ viewId' = viewId /\ u64CmdIdSeq' = u64CmdIdSeq /\ changed' = changed
      /\ pc[a] = "regview" /\ pc' = [pc EXCEPT ![a] = "opening"]
      /\ pc'[a] = "opening" /\ \A b \in Cbs : b # a => pc'[b] = pc[b]
  BY DEF RegView, RegType
<1>1. CASE UNCHANGED <<clCnt, viewCnt>>
  <2>1. RegType' BY <1>0, <1>1 DEF RegType, Views
  <2>2. \A b \in Cbs : pc[b] \in HasView => pc'[b] \in HasView BY <1>0 DEF HasView
  <2>3. \A b \in Cbs : pc[b] \in {"open", "added"} => pc'[b] = pc[b] BY <1>0
  <2>4. RegInv' BY <1>0, <1>1, <2>2, <2>3 DEF RegInv, Views, RegType, Cl
  <2>5. CountsRight' BY <1>0, <1>1 DEF CountsRight, InView, Views
  <2> QED BY <2>1, <2>4, <2>5
<1>2. CASE viewId[a] # Root /\ clCnt' = Inserted(clCnt, viewId[a], 0) /\ viewCnt' = viewCnt + 1
  <2> DEFINE v == viewId[a]
  <2>1. v \notin Views
    <3>1. SUFFICES ASSUME v \in Views PROVE FALSE OBVIOUS
    <3>2. PICK b \in Cbs : viewId[b] = v /\ pc[b] \in HasView BY <1>2, <3>1 DEF RegInv
    <3>3. b = a BY <1>2, <3>2 DEF RegInv
    <3> QED BY <1>0, <3>2, <3>3 DEF HasView
  <2>2. /\ v \in Nat \ {Root}
        /\ Views' = Views \union {v}
        /\ clCnt' = [u \in Views \union {v} |-> IF u = v THEN 0 ELSE clCnt[u]]
    BY <1>2, <2>1 DEF RegType, Views, Inserted, Root
  <2>3. \A b \in Cbs : pc[b] \in HasView \union {"regview"} /\ (b = a \/ pc[b] \in HasView) => pc'[b] \in HasView
    BY <1>0 DEF HasView
  <2>4. \A b \in Cbs : pc[b] \in {"open", "added"} => pc'[b] = pc[b] BY <1>0
  <2>5. RegType'
    <3>1. \A u \in Views \union {v} : (IF u = v THEN 0 ELSE clCnt[u]) \in Int
      BY DEF RegType
    <3>2. clCnt' \in [Views' -> Int] BY <2>2, <3>1
    <3>3. Root \in Views' /\ Views' \subseteq Nat BY <2>2 DEF RegType
    <3>4. pc' \in [Cbs -> {"closed", "regview", "opening", "open", "added", "unregview", "removed"}]
      BY <1>0 DEF RegType
    <3> QED BY <1>0, <1>2, <3>2, <3>3, <3>4 DEF RegType
  <2>6. IsFiniteSet(Views)' BY <2>2, FS_AddElement DEF RegInv
  <2>7. RegInv'
    <3>1. \A u \in Views' \ {Root} : \E b \in Cbs : viewId'[b] = u /\ pc'[b] \in HasView
      BY <1>0, <2>2, <2>3 DEF RegInv, HasView
    <3>2. \A cl \in cls : cl.cb \in Cbs BY DEF RegType, Cl
    <3> QED BY <1>0, <2>4, <2>6, <3>1, <3>2 DEF RegInv
  <2>8. CountsRight'
    <3>1. \A u : InView(u)' = InView(u) BY <1>0 DEF InView
    <3>2. InView(v) = {}
      <4>1. SUFFICES ASSUME NEW cl \in cls, cl.view = v PROVE FALSE BY DEF InView
      <4>2. cl.cb \in Cbs /\ pc[cl.cb] \in {"open", "added"} /\ viewId[cl.cb] = v
        BY <4>1 DEF RegInv, RegType, Cl
      <4>3. cl.cb = a BY <1>2, <4>2 DEF RegInv
      <4> QED BY <1>0, <4>2, <4>3
    <3>3. \A u \in Views' : clCnt'[u] = Cardinality(InView(u))
      BY <2>1, <2>2, <3>2, FS_EmptySet DEF CountsRight
    <3>4. Views' \ {Root} = (Views \ {Root}) \union {v} BY <2>2
    <3>5. IsFiniteSet(Views \ {Root}) BY FS_RemoveElement DEF RegInv
    <3>6. Cardinality(Views' \ {Root}) = viewCnt + 1
      BY <2>1, <3>4, <3>5, FS_AddElement DEF CountsRight
    <3> QED BY <1>2, <3>1, <3>3, <3>6 DEF CountsRight
  <2> QED BY <2>5, <2>7, <2>8
<1> QED BY <1>1, <1>2 DEF RegView

\* A command line that is added is counted in its view, if there is one.
LEMMA RegCmdLineStep ==
  ASSUME RegAll, NEW a \in Cbs, RegCmdLine(a)
  PROVE  RegAll'
<1> USE DEF RegAll
<1>0. /\ viewId' = viewId /\ viewCnt' = viewCnt /\ changed' = changed
      /\ pc[a] = "open" /\ pc' = [pc EXCEPT ![a] = "added"]
      /\ pc'[a] = "added" /\ \A b \in Cbs : b # a => pc'[b] = pc[b]
  BY DEF RegCmdLine, RegType
<1>1. /\ \A b \in Cbs : pc[b] \in HasView => pc'[b] \in HasView
      /\ \A b \in Cbs : pc[b] \in {"open", "added"} => pc'[b] \in {"open", "added"}
      /\ pc' \in [Cbs -> {"closed", "regview", "opening", "open", "added", "unregview", "removed"}]
  BY <1>0 DEF HasView, RegType
<1>2. CASE UNCHANGED <<cls, u64CmdIdSeq, clCnt>>
  <2>1. RegType' BY <1>0, <1>1, <1>2 DEF RegType, Views
  <2>2. RegInv' BY <1>0, <1>1, <1>2 DEF RegInv, Views, RegType, Cl
  <2>3. CountsRight' BY <1>0, <1>2 DEF CountsRight, InView, Views
  <2> QED BY <2>1, <2>2, <2>3
<1>3. CASE AddCmdLine(a)
  <2> DEFINE v == viewId[a]
             new == [id |-> u64CmdIdSeq, view |-> v, cb |-> a]
  <2>1. /\ cls' = cls \union {new} /\ new \notin cls /\ new \in Cl
        /\ u64CmdIdSeq' = u64CmdIdSeq + 1 /\ u64CmdIdSeq \in Nat \ {0}
        /\ Views' = Views
        /\ v \in Views => clCnt' = [clCnt EXCEPT ![v] = @ + 1]
        /\ v \notin Views => clCnt' = clCnt
    <3>1. new \in Cl BY DEF RegType, Cl
    <3>2. new \notin cls BY DEF RegType, RegInv
    <3>3. Views' = Views BY <1>3 DEF AddCmdLine, Counted, Views
    <3> QED BY <1>3, <3>1, <3>2, <3>3 DEF AddCmdLine, Counted, RegType
  <2>2. RegType'
    <3>1. clCnt' \in [Views' -> Int] BY <2>1 DEF RegType
    <3> QED BY <1>0, <1>1, <2>1, <3>1 DEF RegType
  <2>3. RegInv'
    <3>1. IsFiniteSet(cls') BY <2>1, FS_AddElement DEF RegInv
    <3>2. \A cl \in cls' : /\ pc'[cl.cb] \in {"open", "added"}
                           /\ cl.view = viewId'[cl.cb]
                           /\ cl.id < u64CmdIdSeq'
      BY <1>0, <1>1, <2>1 DEF RegInv, RegType, Cl
    <3>3. \A x, y \in cls' : x.id = y.id => x = y
      BY <2>1 DEF RegInv, RegType, Cl
    <3>4. \A b \in Cbs : viewId'[b] < u64CmdIdSeq' BY <1>0, <2>1 DEF RegInv, RegType
    <3> QED BY <1>0, <1>1, <2>1, <3>1, <3>2, <3>3, <3>4 DEF RegInv
  <2>4. CountsRight'
    <3>1. \A u : InView(u)' = IF u = v THEN InView(u) \union {new} ELSE InView(u)
      BY <2>1 DEF InView
    <3>2. new \notin InView(v) BY <2>1 DEF InView
    <3>3. Cardinality(InView(v) \union {new}) = Cardinality(InView(v)) + 1
      BY <3>2, FS_AddElement, InViewFinite DEF RegInv
    <3>4. \A u \in Views : clCnt'[u] = Cardinality(InView(u)')
      <4>1. TAKE u \in Views
      <4>2. CASE u = v BY <2>1, <3>1, <3>3, <4>2 DEF CountsRight, RegType
      <4>3. CASE u # v BY <2>1, <3>1, <4>3 DEF CountsRight, RegType
      <4> QED BY <4>2, <4>3
    <3> QED BY <1>0, <2>1, <3>4 DEF CountsRight
  <2> QED BY <2>2, <2>3, <2>4
<1> QED BY <1>2, <1>3 DEF RegCmdLine

\* The command lines of a registrant are all in its view, which loses as many
\* as they are.
LEMMA UnRegMtStep ==
  ASSUME RegAll, NEW a \in Cbs, UnRegMt(a)
  PROVE  RegAll'
<1> USE DEF RegAll
<1> DEFINE v == viewId[a]
           k == Cardinality(Own(a))
<1>0. /\ viewId' = viewId /\ viewCnt' = viewCnt /\ changed' = changed
      /\ u64CmdIdSeq' = u64CmdIdSeq /\ cls' = cls \ Own(a)
      /\ pc[a] = "open" /\ pc' = [pc EXCEPT ![a] = "unregview"]
      /\ pc'[a] = "unregview" /\ \A b \in Cbs : b # a => pc'[b] = pc[b]
  BY DEF UnRegMt, FreeClList, RegType
<1>1. IsFiniteSet(Own(a)) /\ k \in Nat /\ Own(a) \subseteq InView(v)
  <2>1. Own(a) \in SUBSET cls BY DEF Own
  <2>2. Own(a) \subseteq InView(v) BY DEF Own, InView, RegInv
  <2> QED BY <2>1, <2>2, FS_Subset, FS_CardinalityType DEF RegInv
<1>2. /\ Views' = Views
      /\ v \in Views => clCnt' = [clCnt EXCEPT ![v] = @ + (-k)]
      /\ v \notin Views => clCnt' = clCnt
  BY <1>1 DEF UnRegMt, FreeClList, Counted, Views
<1>3. RegType'
  <2>1. clCnt' \in [Views' -> Int] BY <1>1, <1>2 DEF RegType
  <2>2. pc' \in [Cbs -> {"closed", "regview", "opening", "open", "added", "unregview", "removed"}]
    BY <1>0 DEF RegType
  <2> QED BY <1>0, <1>2, <2>1, <2>2 DEF RegType
<1>4. RegInv'
  <2>1. IsFiniteSet(cls') BY <1>0, FS_Subset DEF RegInv
  <2>2. \A cl \in cls' : cl \in cls /\ cl.cb \in Cbs /\ cl.cb # a
    BY <1>0 DEF Own, RegType, Cl
  <2>3. \A b \in Cbs : pc[b] \in HasView => pc'[b] \in HasView BY <1>0 DEF HasView
  <2> QED BY <1>0, <1>2, <2>1, <2>2, <2>3 DEF RegInv
<1>5. CountsRight'
  <2>1. \A u : InView(u)' = IF u = v THEN InView(u) \ Own(a) ELSE InView(u)
    BY <1>0, <1>1 DEF InView
  <2>2. /\ Cardinality(InView(v) \ Own(a)) = Cardinality(InView(v)) - k
        /\ Cardinality(InView(v)) \in Nat
    BY <1>1, InViewFinite, CardinalityOfRest DEF RegInv
  <2>7. \A u \in Views : clCnt'[u] = Cardinality(InView(u)')
    <3>1. TAKE u \in Views
    <3>2. CASE u = v BY <1>1, <1>2, <2>1, <2>2, <3>2 DEF CountsRight, RegType
    <3>3. CASE u # v BY <1>2, <2>1, <3>3 DEF CountsRight, RegType
    <3> QED BY <3>2, <3>3
  <2> QED BY <1>0, <1>2, <2>7 DEF CountsRight
<1> QED BY <1>3, <1>4, <1>5

\* The view leaves the table and the root view counts one less.
LEMMA UnRegViewStep ==
  ASSUME RegAll, NEW a \in Cbs, UnRegView(a)
  PROVE  RegAll'
<1> USE DEF RegAll
<1> DEFINE v == viewId[a]
<1>0. /\ viewId' = viewId /\ cls' = cls /\ changed' = changed
      /\ u64CmdIdSeq' = u64CmdIdSeq
      /\ pc[a] = "unregview" /\ pc' = [pc EXCEPT ![a] = "removed"]
      /\ pc'[a] = "removed" /\ \A b \in Cbs : b # a => pc'[b] = pc[b]
  BY DEF UnRegView, RegType
<1>1. /\ pc' \in [Cbs -> {"closed", "regview", "opening", "open", "added", "unregview", "removed"}]
      /\ \A b \in Cbs : pc[b] \in {"open", "added"} => pc'[b] = pc[b]
  BY <1>0 DEF RegType
<1>2. \A u : InView(u)' = InView(u) BY <1>0 DEF InView
<1>3. CASE v # Root /\ v \in Views
  <2>1. Views' = Views \ {v} /\ clCnt' = [u \in Views \ {v} |-> clCnt[u]] /\ viewCnt' = viewCnt - 1
    BY <1>3 DEF UnRegView, Views
  <2>2. RegType'
    <3>1. clCnt' \in [Views' -> Int] /\ Root \in Views' /\ Views' \subseteq Nat
      BY <1>3, <2>1 DEF RegType
    <3> QED BY <1>0, <1>1, <2>1, <3>1 DEF RegType
  <2>3. RegInv'
    <3>1. IsFiniteSet(Views') BY <2>1, FS_RemoveElement DEF RegInv
    <3>2. \A u \in Views' \ {Root} : \E b \in Cbs : viewId'[b] = u /\ pc'[b] \in HasView
      <4>1. TAKE u \in Views' \ {Root}
      <4>2. PICK b \in Cbs : viewId[b] = u /\ pc[b] \in HasView BY <2>1, <4>1 DEF RegInv
      <4>3. b # a BY <2>1, <4>1, <4>2
      <4> QED BY <1>0, <4>2, <4>3
    <3>3. \A cl \in cls : cl.cb \in Cbs BY DEF RegType, Cl
    <3> QED BY <1>0, <1>1, <3>1, <3>2, <3>3 DEF RegInv
  <2>4. CountsRight'
    <3>1. Views' \ {Root} = (Views \ {Root}) \ {v} /\ v \in Views \ {Root} BY <1>3, <2>1
    <3>2. IsFiniteSet(Views \ {Root}) BY FS_RemoveElement DEF RegInv
    <3>3. Cardinality(Views' \ {Root}) = viewCnt - 1
      BY <3>1, <3>2, FS_RemoveElement DEF CountsRight
    <3> QED BY <1>2, <2>1, <3>3 DEF CountsRight
  <2> QED BY <2>2, <2>3, <2>4
<1>4. CASE ~(v # Root /\ v \in Views)
  <2>1. clCnt' = clCnt /\ viewCnt' = viewCnt BY <1>4 DEF UnRegView
  <2>2. RegType' BY <1>0, <1>1, <2>1 DEF RegType, Views
  <2>3. RegInv'
    <3>1. \A u \in Views \ {Root} : \E b \in Cbs : viewId'[b] = u /\ pc'[b] \in HasView
      <4>1. TAKE u \in Views \ {Root}
      <4>2. PICK b \in Cbs : viewId[b] = u /\ pc[b] \in HasView BY <4>1 DEF RegInv
      <4>3. b # a BY <1>4, <4>1, <4>2
      <4> QED BY <1>0, <4>2, <4>3
    <3>2. \A cl \in cls : cl.cb \in Cbs BY DEF RegType, Cl
    <3> QED BY <1>0, <1>1, <2>1, <3>1, <3>2 DEF RegInv, Views
  <2>4. CountsRight' BY <1>2, <2>1 DEF CountsRight, Views
  <2> QED BY <2>2, <2>3, <2>4
<1> QED BY <1>3, <1>4

\* Telling the terminals changes nothing in the registry; a registrant that
\* is removed by then has neither a view nor a command left.
LEMMA NotifyCaStep ==
  ASSUME RegAll, NEW a \in Cbs, NotifyCa(a)
  PROVE  RegAll'
<1> USE DEF RegAll
<1>0. /\ UNCHANGED <<u64CmdIdSeq, cls, clCnt, viewCnt, viewId>>
      /\ pc[a] \in {"opening", "added", "removed"}
      /\ pc' = [pc EXCEPT ![a] = IF pc[a] = "removed" THEN "closed" ELSE "open"]
      /\ changed' \in [Cas -> BOOLEAN]
  BY DEF NotifyCa, Telling, AfterNotify, Told
<1>1. /\ pc' \in [Cbs -> {"closed", "regview", "opening", "open", "added", "unregview", "removed"}]
      /\ \A b \in Cbs : pc[b] \in {"open", "added"} => pc'[b] \in {"open", "added"}
      /\ \A b \in Cbs : pc[b] \in HasView => pc'[b] \in HasView
  BY <1>0 DEF RegType, HasView
<1>2. RegType' BY <1>0, <1>1 DEF RegType, Views
<1>3. RegInv' BY <1>0, <1>1 DEF RegInv, Views, RegType, Cl
<1>4. CountsRight' BY <1>0 DEF CountsRight, InView, Views
<1> QED BY <1>2, <1>3, <1>4

LEMMA RegistrantSteps ==
  ASSUME RegAll, NEW a \in Cbs, Registrant(a)
  PROVE  RegAll'
BY OpenUaStep, RegViewStep, RegCmdLineStep, UnRegMtStep, UnRegViewStep, NotifyCaStep
   DEF Registrant

(***************************************************************************)
(* The terminals                                                           *)
(***************************************************************************)

\* What a terminal that is not dirty has got right so far.
Accurate(c) ==
  /\ DOMAIN known[c] \subseteq Views
  /\ loaded[c] \subseteq DOMAIN known[c]
  /\ \A v \in loaded[c] : known[c][v] = CmdIds(v)
  /\ \A v \in DOMAIN known[c] \ loaded[c] :
       known[c][v] = {} \/ (v = target[c] /\ cpc[c] \in {"cmds", "cmdview"})
  /\ cpc[c] \in {"idle", "parse"} => DOMAIN known[c] = Views /\ Root \in loaded[c]
  /\ cpc[c] \notin {"idle", "parse"} => target[c] \notin loaded[c]
  /\ cpc[c] \notin {"idle", "parse"} /\ target[c] # Root => Root \in loaded[c]
  /\ cpc[c] \in {"viewids", "views"} => target[c] = Root
  /\ cpc[c] = "count" /\ target[c] # Root => DOMAIN known[c] = Views
  /\ cpc[c] \in {"viewids", "views", "cmdids"} => asked[c].cl = clCnt[target[c]]
  /\ cpc[c] = "viewids" => asked[c].views = viewCnt
  /\ cpc[c] = "views" => DOMAIN known[c] \union todo[c] = Views
  /\ cpc[c] \in {"cmdids", "cmds", "cmdview"} => DOMAIN known[c] = Views
  /\ \A v \in Views :
       v = target[c] /\ cpc[c] = "cmds" => known[c][v] \union todo[c] = CmdIds(v)
  /\ \A v \in Views :
       v = target[c] /\ cpc[c] = "cmdview" =>
         known[c][v] \union todo[c] \union {cur[c]} = CmdIds(v)

LoadInv(c) == cpc[c] # "closed" /\ ~Dirty(c) => Accurate(c)

Inv == TypeOK /\ RegInv /\ CountsRight /\ \A c \in Cas : LoadInv(c)

\* Every change of the registry leaves every terminal dirty.
LEMMA ChangesMakeDirty ==
  ASSUME RegType, NEW a \in Cbs, Registrant(a), NEW c \in Cas, ~Dirty(c)'
  PROVE  /\ ~Dirty(c)
         /\ cls' = cls /\ clCnt' = clCnt /\ viewCnt' = viewCnt
<1>1. CASE OpenUa(a) BY <1>1 DEF OpenUa, Dirty, RegType, Telling
<1>2. CASE RegView(a) BY <1>2 DEF RegView, Dirty, RegType, Telling
<1>3. CASE RegCmdLine(a) BY <1>3 DEF RegCmdLine, Dirty, RegType, Telling
<1>4. CASE UnRegMt(a) BY <1>4 DEF UnRegMt, Dirty, RegType, Telling
<1>5. CASE UnRegView(a) BY <1>5 DEF UnRegView, Dirty, RegType, Telling
<1>6. CASE NotifyCa(a) BY <1>6 DEF NotifyCa, Told, Dirty
<1> QED BY <1>1, <1>2, <1>3, <1>4, <1>5, <1>6 DEF Registrant

LEMMA RegistrantInv ==
  ASSUME Inv, NEW a \in Cbs, RegistrantStep(a)
  PROVE  Inv'
<1> USE DEF RegistrantStep
<1>1. RegAll' BY RegistrantSteps DEF Inv, RegAll, TypeOK
<1>2. TypeOK' BY <1>1 DEF Inv, TypeOK, RegAll, clientVars
<1>3. ASSUME NEW c \in Cas PROVE LoadInv(c)'
  <2>1. SUFFICES ASSUME cpc'[c] # "closed", ~Dirty(c)' PROVE Accurate(c)'
    BY DEF LoadInv
  <2>2. ~Dirty(c) /\ cls' = cls /\ clCnt' = clCnt /\ viewCnt' = viewCnt
    BY <2>1, ChangesMakeDirty DEF Inv, TypeOK
  <2>3. Accurate(c) BY <2>1, <2>2 DEF Inv, LoadInv, clientVars
  <2>4. Views' = Views /\ \A v : CmdIds(v)' = CmdIds(v)
    BY <2>2 DEF Views, CmdIds, InView, Ids
  <2> QED BY <2>2, <2>3, <2>4 DEF Accurate, clientVars
<1> QED BY <1>1, <1>2, <1>3 DEF Inv, RegAll

\* A step of one terminal is no concern of another.
Same(d) ==
  /\ cpc'[d] = cpc[d] /\ target'[d] = target[d] /\ asked'[d] = asked[d]
  /\ todo'[d] = todo[d] /\ cur'[d] = cur[d] /\ known'[d] = known[d]
  /\ loaded'[d] = loaded[d] /\ changed'[d] = changed[d]

LEMMA RegUnchanged ==
  ASSUME UNCHANGED regVars
  PROVE  /\ Views' = Views
         /\ \A v : CmdIds(v)' = CmdIds(v)
         /\ RegInv <=> RegInv'
         /\ CountsRight <=> CountsRight'
<1>1. Views' = Views BY DEF regVars, Views
<1>2. \A v : InView(v)' = InView(v) BY DEF regVars, InView
<1>3. \A v : CmdIds(v)' = CmdIds(v) BY DEF regVars, InView, CmdIds, Ids
<1>4. RegInv <=> RegInv' BY <1>1 DEF RegInv, regVars
<1>5. CountsRight <=> CountsRight' BY <1>1, <1>2 DEF CountsRight, regVars
<1> QED BY <1>1, <1>3, <1>4, <1>5

LEMMA SameInv ==
  ASSUME UNCHANGED regVars, NEW d \in Cas, Same(d), LoadInv(d)
  PROVE  LoadInv(d)'
<1>1. Dirty(d)' = Dirty(d) BY DEF Dirty, Same, regVars
<1>2. Views' = Views /\ \A v : CmdIds(v)' = CmdIds(v) BY RegUnchanged
<1>3. Accurate(d) => Accurate(d)' BY <1>2 DEF Accurate, Same, regVars
<1> QED BY <1>1, <1>3 DEF LoadInv, Same

LEMMA ClientReg ==
  ASSUME Inv, NEW c \in Cas, Client(c)
  PROVE  UNCHANGED regVars /\ RegType' /\ changed' \in [Cas -> BOOLEAN]
<1>1. UNCHANGED regVars
  BY DEF Client, Loading, OpenCa, Renew, ReadLine, ViewProc, LineDone, CloseCa,
         GetClCount, GetAllViewIds, GetViewInfo, ViewsDone, GetAllCmdIds, GetClInfo, RegClInView, LoadDone
<1>2. changed' = changed \/ changed' = [changed EXCEPT ![c] = FALSE]
  BY DEF Client, Loading, OpenCa, Renew, ReadLine, ViewProc, LineDone, CloseCa,
         GetClCount, GetAllViewIds, GetViewInfo, ViewsDone, GetAllCmdIds, GetClInfo, RegClInView, LoadDone
<1>3. changed' \in [Cas -> BOOLEAN] BY <1>2 DEF Inv, TypeOK, RegType
<1> QED BY <1>1, <1>3 DEF Inv, TypeOK, RegType, regVars, Views

LEMMA ClientOthers ==
  ASSUME Inv, NEW c \in Cas, Client(c), NEW d \in Cas, d # c
  PROVE  Same(d)
<1> USE DEF Same, Inv, TypeOK, RegType, Goto, StartLoad, Forget, Return, Fail, Cleared, Took
<1>1. CASE OpenCa(c) BY <1>1 DEF OpenCa
<1>2. CASE Renew(c) BY <1>2 DEF Renew
<1>3. CASE ViewProc(c) BY <1>3 DEF ViewProc
<1>4. CASE CloseCa(c) BY <1>4 DEF CloseCa
<1>13. CASE ReadLine(c) BY <1>13 DEF ReadLine
<1>14. CASE LineDone(c) BY <1>14 DEF LineDone
<1>5. CASE GetClCount(c) BY <1>5 DEF GetClCount
<1>6. CASE GetAllViewIds(c) BY <1>6 DEF GetAllViewIds
<1>7. CASE GetViewInfo(c) BY <1>7 DEF GetViewInfo
<1>8. CASE ViewsDone(c) BY <1>8 DEF ViewsDone
<1>9. CASE GetAllCmdIds(c) BY <1>9 DEF GetAllCmdIds
<1>10. CASE GetClInfo(c) BY <1>10 DEF GetClInfo
<1>11. CASE RegClInView(c) BY <1>11 DEF RegClInView
<1>12. CASE LoadDone(c) BY <1>12 DEF LoadDone
<1> QED BY <1>1, <1>2, <1>3, <1>4, <1>5, <1>6, <1>7, <1>8, <1>9, <1>10, <1>11, <1>12,
      <1>13, <1>14
   DEF Client, Loading

\* A terminal that starts from nothing has nothing wrong.
LEMMA StartsRight ==
  ASSUME Inv, NEW c \in Cas, OpenCa(c) \/ Renew(c)
  PROVE  TypeOK' /\ LoadInv(c)'
<1>1. /\ cpc' = [cpc EXCEPT ![c] = "count"]
      /\ target' = [target EXCEPT ![c] = Root]
      /\ known' = [known EXCEPT ![c] = [v \in {Root} |-> {}]]
      /\ loaded' = [loaded EXCEPT ![c] = {}]
      /\ UNCHANGED <<asked, todo, cur>>
      /\ first' = first \/ first' = [first EXCEPT ![c] = TRUE]
  BY DEF OpenCa, Renew, Forget, StartLoad, Goto
<1>2. RegType' /\ Views' = Views BY ClientReg, RegUnchanged DEF Client
<1>3. TypeOK'
  <2>1. DOMAIN known' = Cas BY <1>1 DEF Inv, TypeOK
  <2>2. ASSUME NEW d \in Cas
        PROVE  /\ DOMAIN known'[d] \subseteq Nat
               /\ known'[d] \in [DOMAIN known'[d] -> SUBSET Nat]
               /\ cpc'[d] # "closed" => {Root, target'[d]} \subseteq DOMAIN known'[d]
    <3>1. CASE d = c BY <1>1, <3>1 DEF Inv, TypeOK, Root
    <3>2. CASE d # c BY <1>1, <3>2 DEF Inv, TypeOK
    <3> QED BY <3>1, <3>2
  <2> QED BY <1>1, <1>2, <2>1, <2>2 DEF Inv, TypeOK, Root
<1>4. Accurate(c)'
  <2>1. /\ cpc'[c] = "count" /\ target'[c] = Root /\ loaded'[c] = {}
        /\ known'[c] = [v \in {Root} |-> {}] /\ Root \in Views'
    BY <1>1, <1>2 DEF Inv, TypeOK, RegType
  <2> QED BY <2>1 DEF Accurate
<1> QED BY <1>3, <1>4 DEF LoadInv

\* A load that fails while the terminal is dirty leaves it so.
LEMMA FailsDirty ==
  ASSUME Inv, NEW c \in Cas, Fail(c), Dirty(c), UNCHANGED <<regVars, changed>>,
         known' = known \/ (known' = Cleared(c) /\ cpc[c] # "closed"), cpc[c] # "closed"
  PROVE  TypeOK' /\ LoadInv(c)'
<1>1. /\ cpc' = [cpc EXCEPT ![c] = IF first[c] THEN "closed" ELSE "idle"]
      /\ first' = [first EXCEPT ![c] = FALSE]
      /\ target' = [target EXCEPT ![c] = Root]
      /\ asked' = [asked EXCEPT ![c] = NoNum]
      /\ todo' = [todo EXCEPT ![c] = {}]
      /\ cur' = [cur EXCEPT ![c] = 0]
      /\ loaded' = loaded
  BY DEF Fail, Return, Goto
<1>2. /\ DOMAIN known' = Cas
      /\ \A d \in Cas : /\ DOMAIN known'[d] = DOMAIN known[d]
                        /\ known'[d] \in [DOMAIN known[d] -> SUBSET Nat]
  <2>1. CASE known' = known BY <2>1 DEF Inv, TypeOK
  <2>2. CASE known' = Cleared(c)
    <3>1. known' = [known EXCEPT ![c] = [known[c] EXCEPT ![target[c]] = {}]]
      BY <2>2 DEF Cleared
    <3>2. DOMAIN known' = Cas BY <3>1 DEF Inv, TypeOK
    <3>3. \A d \in Cas : d # c => known'[d] = known[d] BY <3>1 DEF Inv, TypeOK
    <3>4. known'[c] = [known[c] EXCEPT ![target[c]] = {}] BY <3>1 DEF Inv, TypeOK
    <3>5. known[c] \in [DOMAIN known[c] -> SUBSET Nat] BY DEF Inv, TypeOK
    <3>6. known'[c] \in [DOMAIN known[c] -> SUBSET Nat] BY <3>4, <3>5
    <3>7. DOMAIN known'[c] = DOMAIN known[c] BY <3>4, <3>5
    <3>8. \A d \in Cas : known[d] \in [DOMAIN known[d] -> SUBSET Nat] BY DEF Inv, TypeOK
    <3> QED BY <3>2, <3>3, <3>6, <3>7, <3>8
  <2> QED BY <2>1, <2>2
<1>3. RegType' BY DEF Inv, TypeOK, RegType, regVars, Views
<1>4. TypeOK' BY <1>1, <1>2, <1>3 DEF Inv, TypeOK, NoNum, Root
<1>5. Dirty(c)' BY DEF Dirty, regVars
<1> QED BY <1>4, <1>5 DEF LoadInv

LEMMA ViewProcInv ==
  ASSUME Inv, NEW c \in Cas, ViewProc(c)
  PROVE  TypeOK' /\ LoadInv(c)'
<1>1. PICK v \in DOMAIN known[c] \ (loaded[c] \union {Root}) : StartLoad(c, v)
  BY DEF ViewProc
<1>2. /\ cpc[c] = "parse" /\ cpc' = [cpc EXCEPT ![c] = "count"]
      /\ target' = [target EXCEPT ![c] = v]
      /\ UNCHANGED <<asked, todo, cur, known, loaded, first, changed>>
      /\ UNCHANGED regVars
  BY <1>1 DEF ViewProc, StartLoad, Goto
<1>3. TypeOK' BY <1>1, <1>2, ClientReg DEF Inv, TypeOK, Client
<1>4. Views' = Views /\ \A u : CmdIds(u)' = CmdIds(u) BY <1>2, RegUnchanged
<1>5. Dirty(c)' = Dirty(c) BY <1>2 DEF Dirty, regVars
<1>6. Accurate(c) => Accurate(c)'
  <2>1. cpc'[c] = "count" /\ target'[c] = v /\ v # Root /\ v \notin loaded[c]
    BY <1>1, <1>2 DEF Inv, TypeOK
  <2> QED BY <1>2, <1>4, <2>1 DEF Accurate
<1> QED BY <1>2, <1>3, <1>5, <1>6 DEF LoadInv, Inv

\* Between two lines nothing is copied.
LEMMA LineInv ==
  ASSUME Inv, NEW c \in Cas, ReadLine(c) \/ LineDone(c)
  PROVE  TypeOK' /\ LoadInv(c)'
<1>1. /\ UNCHANGED <<regVars, changed, first, target, asked, todo, cur, known, loaded>>
      /\ cpc[c] \in {"idle", "parse"}
      /\ \E p \in {"idle", "parse"} : cpc' = [cpc EXCEPT ![c] = p]
  BY DEF ReadLine, LineDone, Goto
<1>2. Views' = Views /\ \A u : CmdIds(u)' = CmdIds(u) BY <1>1, RegUnchanged
<1>3. TypeOK' BY <1>1, <1>2 DEF Inv, TypeOK, RegType, regVars
<1>4. Dirty(c)' = Dirty(c) BY <1>1 DEF Dirty, regVars
<1>5. cpc'[c] \in {"idle", "parse"} BY <1>1 DEF Inv, TypeOK
<1>6. Accurate(c) => Accurate(c)' BY <1>1, <1>2, <1>5 DEF Accurate
<1> QED BY <1>1, <1>3, <1>4, <1>5, <1>6 DEF LoadInv, Inv

LEMMA CloseCaInv ==
  ASSUME Inv, NEW c \in Cas, CloseCa(c)
  PROVE  TypeOK' /\ LoadInv(c)'
<1>1. TypeOK' BY ClientReg DEF Inv, TypeOK, CloseCa, Goto, Client
<1>2. cpc'[c] = "closed" BY DEF Inv, TypeOK, CloseCa, Goto
<1> QED BY <1>1, <1>2 DEF LoadInv

\* The counts are those of the view as it is.
LEMMA GetClCountInv ==
  ASSUME Inv, NEW c \in Cas, GetClCount(c)
  PROVE  TypeOK' /\ LoadInv(c)'
<1>0. /\ UNCHANGED <<regVars, changed, known>> /\ cpc[c] = "count"
      /\ Views' = Views /\ (\A u : CmdIds(u)' = CmdIds(u)) /\ Dirty(c)' = Dirty(c)
      /\ RegType'
  BY RegUnchanged, ClientReg DEF GetClCount, Dirty, regVars, Client, Loading
<1>1. CASE target[c] \in Views
  <2>1. /\ asked' = [asked EXCEPT ![c] = ClNum(target[c])]
        /\ cpc' = [cpc EXCEPT ![c] = IF asked'[c].views = 0 THEN "cmdids" ELSE "viewids"]
        /\ UNCHANGED <<first, target, todo, cur, loaded>>
    BY <1>1 DEF GetClCount, Goto
  <2>2. ClNum(target[c]) \in [cl : Int, views : Int]
    BY <1>1 DEF ClNum, Inv, TypeOK, RegType
  <2>3. TypeOK' BY <1>0, <2>1, <2>2 DEF Inv, TypeOK
  <2>4. /\ asked'[c] = ClNum(target[c])
        /\ cpc'[c] = IF asked'[c].views = 0 THEN "cmdids" ELSE "viewids"
    BY <2>1 DEF Inv, TypeOK
  <2>5. ASSUME Accurate(c) PROVE Accurate(c)'
    <3>1. asked'[c].cl = clCnt[target[c]]
          /\ asked'[c].views = IF target[c] = Root THEN viewCnt ELSE 0
      BY <2>4 DEF ClNum
    <3>2. Root \in DOMAIN known[c] /\ DOMAIN known[c] \subseteq Views
      BY <1>0, <2>5 DEF Accurate, Inv, TypeOK
    <3>3. CASE target[c] # Root
      <4>1. cpc'[c] = "cmdids" BY <2>4, <3>1, <3>3
      <4> QED BY <1>0, <2>1, <2>5, <3>1, <3>3, <4>1 DEF Accurate, regVars
    <3>4. CASE target[c] = Root /\ viewCnt = 0
      <4>1. cpc'[c] = "cmdids" BY <2>4, <3>1, <3>4
      <4>2. Views \ {Root} = {}
        BY <3>4, FS_EmptySet, FS_RemoveElement DEF Inv, CountsRight, RegInv
      <4>3. DOMAIN known[c] = Views BY <3>2, <4>2
      <4> QED BY <1>0, <2>1, <2>5, <3>1, <3>4, <4>1, <4>3 DEF Accurate, regVars
    <3>5. CASE target[c] = Root /\ viewCnt # 0
      <4>1. cpc'[c] = "viewids" BY <2>4, <3>1, <3>5
      <4> QED BY <1>0, <2>1, <2>5, <3>1, <3>5, <4>1 DEF Accurate, regVars
    <3> QED BY <3>3, <3>4, <3>5
  <2> QED BY <1>0, <2>3, <2>5 DEF LoadInv, Inv
<1>2. CASE target[c] \notin Views
  <2>1. Dirty(c)
    BY <1>0, <1>2 DEF Inv, LoadInv, Accurate, TypeOK
  <2>2. Fail(c) BY <1>2 DEF GetClCount
  <2> QED BY <1>0, <2>1, <2>2, FailsDirty
<1> QED BY <1>1, <1>2

LEMMA GetAllViewIdsInv ==
  ASSUME Inv, NEW c \in Cas, GetAllViewIds(c)
  PROVE  TypeOK' /\ LoadInv(c)'
<1>0. /\ UNCHANGED <<regVars, changed, known>> /\ cpc[c] = "viewids"
      /\ Views' = Views /\ (\A u : CmdIds(u)' = CmdIds(u)) /\ Dirty(c)' = Dirty(c)
      /\ RegType'
  BY RegUnchanged, ClientReg DEF GetAllViewIds, Dirty, regVars, Client, Loading
<1>1. CASE ViewIdsGiven(asked[c].views)
  <2>1. /\ todo' = [todo EXCEPT ![c] = ViewIds]
        /\ cpc' = [cpc EXCEPT ![c] = "views"]
        /\ UNCHANGED <<first, target, asked, cur, loaded>>
    BY <1>1 DEF GetAllViewIds, Goto
  <2>2. ViewIds \in SUBSET Nat BY DEF ViewIds, Inv, TypeOK, RegType
  <2>3. TypeOK' BY <1>0, <2>1, <2>2 DEF Inv, TypeOK
  <2>4. todo'[c] = Views \ {Root} /\ cpc'[c] = "views" BY <2>1 DEF Inv, TypeOK, ViewIds
  <2>5. ASSUME Accurate(c) PROVE Accurate(c)'
    <3>1. Root \in DOMAIN known[c] /\ DOMAIN known[c] \subseteq Views
      BY <1>0, <2>5 DEF Accurate, Inv, TypeOK
    <3> QED BY <1>0, <2>1, <2>4, <2>5, <3>1 DEF Accurate, regVars
  <2> QED BY <1>0, <2>3, <2>5 DEF LoadInv, Inv
<1>2. CASE ~ViewIdsGiven(asked[c].views)
  <2>1. Dirty(c)
    BY <1>0, <1>2 DEF Inv, LoadInv, Accurate, ViewIdsGiven
  <2>2. Fail(c) BY <1>2 DEF GetAllViewIds
  <2> QED BY <1>0, <2>1, <2>2, FailsDirty
<1> QED BY <1>1, <1>2

LEMMA GetViewInfoInv ==
  ASSUME Inv, NEW c \in Cas, GetViewInfo(c)
  PROVE  TypeOK' /\ LoadInv(c)'
<1>0. /\ UNCHANGED <<regVars, changed>> /\ cpc[c] = "views"
      /\ Views' = Views /\ (\A u : CmdIds(u)' = CmdIds(u)) /\ Dirty(c)' = Dirty(c)
      /\ RegType'
  BY RegUnchanged, ClientReg DEF GetViewInfo, Dirty, regVars, Client, Loading
<1>1. PICK v \in todo[c] :
       IF v \in Views
       THEN /\ known' = [known EXCEPT ![c] = Inserted(known[c], v, {})]
            /\ Took(c, v)
            /\ UNCHANGED <<cpc, first, target, asked, cur, loaded>>
       ELSE Fail(c) /\ UNCHANGED known
  BY DEF GetViewInfo
<1>2. CASE v \in Views
  <2>1. /\ known' = [known EXCEPT ![c] = Inserted(known[c], v, {})]
        /\ todo' = [todo EXCEPT ![c] = @ \ {v}]
        /\ UNCHANGED <<cpc, first, target, asked, cur, loaded>>
    BY <1>1, <1>2 DEF Took
  <2>2. /\ DOMAIN known' = Cas /\ known'[c] = Inserted(known[c], v, {})
        /\ todo'[c] = todo[c] \ {v}
        /\ \A d \in Cas : d # c => known'[d] = known[d]
    BY <2>1 DEF Inv, TypeOK
  <2>3. /\ DOMAIN known'[c] = DOMAIN known[c] \union {v}
        /\ \A u \in DOMAIN known[c] \union {v} :
             known'[c][u] = IF u \in DOMAIN known[c] THEN known[c][u] ELSE {}
    BY <2>2 DEF Inserted
  <2>4. v \in Nat BY <1>2 DEF Inv, TypeOK, RegType
  <2>5. known'[c] \in [DOMAIN known[c] \union {v} -> SUBSET Nat]
    <3>1. \A u \in DOMAIN known[c] \union {v} :
            (IF u \in DOMAIN known[c] THEN known[c][u] ELSE {}) \in SUBSET Nat
      BY DEF Inv, TypeOK
    <3> QED BY <2>2, <3>1 DEF Inserted
  <2>6. TypeOK'
    <3>1. ASSUME NEW d \in Cas
          PROVE  /\ DOMAIN known'[d] \subseteq Nat
                 /\ known'[d] \in [DOMAIN known'[d] -> SUBSET Nat]
                 /\ cpc'[d] # "closed" => {Root, target'[d]} \subseteq DOMAIN known'[d]
      <4>1. CASE d = c BY <2>1, <2>3, <2>4, <2>5, <4>1 DEF Inv, TypeOK
      <4>2. CASE d # c BY <2>1, <2>2, <4>2 DEF Inv, TypeOK
      <4> QED BY <4>1, <4>2
    <3> QED BY <1>0, <2>1, <2>2, <3>1 DEF Inv, TypeOK
  <2>7. ASSUME Accurate(c) PROVE Accurate(c)'
    <3>1. DOMAIN known'[c] \union todo'[c] = DOMAIN known[c] \union todo[c]
      BY <1>1, <2>2, <2>3
    <3>2. \A u \in DOMAIN known[c] : known'[c][u] = known[c][u] BY <2>3
    <3>3. \A u \in DOMAIN known'[c] \ loaded[c] : known'[c][u] = {}
      BY <1>0, <2>3, <2>7 DEF Accurate
    <3>4. /\ DOMAIN known'[c] \subseteq Views /\ loaded[c] \subseteq DOMAIN known'[c]
          /\ \A u \in loaded[c] : known'[c][u] = CmdIds(u)
      BY <1>2, <2>3, <2>7, <3>2 DEF Accurate
    <3> QED BY <1>0, <2>1, <2>7, <3>1, <3>3, <3>4 DEF Accurate, regVars
  <2> QED BY <1>0, <2>1, <2>6, <2>7 DEF LoadInv, Inv
<1>3. CASE v \notin Views
  <2>1. Dirty(c)
    BY <1>0, <1>1, <1>3 DEF Inv, LoadInv, Accurate
  <2> QED BY <1>0, <1>1, <1>3, <2>1, FailsDirty
<1> QED BY <1>2, <1>3

LEMMA ViewsDoneInv ==
  ASSUME Inv, NEW c \in Cas, ViewsDone(c)
  PROVE  TypeOK' /\ LoadInv(c)'
<1>0. /\ UNCHANGED <<regVars, changed>> /\ cpc[c] = "views"
      /\ Views' = Views /\ (\A u : CmdIds(u)' = CmdIds(u)) /\ Dirty(c)' = Dirty(c)
      /\ RegType'
  BY RegUnchanged, ClientReg DEF ViewsDone, Dirty, regVars, Client, Loading
<1>1. /\ cpc' = [cpc EXCEPT ![c] = "cmdids"] /\ todo[c] = {}
      /\ UNCHANGED <<first, target, asked, todo, cur, known, loaded>>
  BY DEF ViewsDone, Goto
<1>2. TypeOK' BY <1>0, <1>1 DEF Inv, TypeOK
<1>3. cpc'[c] = "cmdids" BY <1>1 DEF Inv, TypeOK
<1>4. ASSUME Accurate(c) PROVE Accurate(c)'
  <2>1. DOMAIN known[c] = Views BY <1>0, <1>1, <1>4 DEF Accurate
  <2> QED BY <1>0, <1>1, <1>3, <1>4, <2>1 DEF Accurate, regVars
<1> QED BY <1>0, <1>2, <1>4 DEF LoadInv, Inv

LEMMA GetAllCmdIdsInv ==
  ASSUME Inv, NEW c \in Cas, GetAllCmdIds(c)
  PROVE  TypeOK' /\ LoadInv(c)'
<1>0. /\ UNCHANGED <<regVars, changed, known>> /\ cpc[c] = "cmdids"
      /\ Views' = Views /\ (\A u : CmdIds(u)' = CmdIds(u)) /\ Dirty(c)' = Dirty(c)
      /\ RegType'
  BY RegUnchanged, ClientReg DEF GetAllCmdIds, Dirty, regVars, Client, Loading
<1>1. CASE CmdIdsGiven(target[c], asked[c].cl)
  <2>1. /\ todo' = [todo EXCEPT ![c] = CmdIds(target[c])]
        /\ cpc' = [cpc EXCEPT ![c] = "cmds"]
        /\ UNCHANGED <<first, target, asked, cur, loaded>>
    BY <1>1 DEF GetAllCmdIds, Goto
  <2>2. CmdIds(target[c]) \in SUBSET Nat
    BY DEF CmdIds, InView, Ids, Inv, TypeOK, RegType, Cl
  <2>3. TypeOK' BY <1>0, <2>1, <2>2 DEF Inv, TypeOK
  <2>4. todo'[c] = CmdIds(target[c]) /\ cpc'[c] = "cmds" BY <2>1 DEF Inv, TypeOK
  <2>5. ASSUME Accurate(c) PROVE Accurate(c)'
    <3>1. target[c] \in DOMAIN known[c] \ loaded[c]
      BY <1>0, <2>5 DEF Accurate, Inv, TypeOK
    <3>2. known[c][target[c]] = {} BY <1>0, <2>5, <3>1 DEF Accurate
    <3> QED BY <1>0, <2>1, <2>4, <2>5, <3>2 DEF Accurate, regVars
  <2> QED BY <1>0, <2>3, <2>5 DEF LoadInv, Inv
<1>2. CASE ~CmdIdsGiven(target[c], asked[c].cl)
  <2>1. Dirty(c)
    BY <1>0, <1>2 DEF Inv, LoadInv, Accurate, CmdIdsGiven, TypeOK
  <2>2. Fail(c) BY <1>2 DEF GetAllCmdIds
  <2> QED BY <1>0, <2>1, <2>2, FailsDirty
<1> QED BY <1>1, <1>2

LEMMA GetClInfoInv ==
  ASSUME Inv, NEW c \in Cas, GetClInfo(c)
  PROVE  TypeOK' /\ LoadInv(c)'
<1>0. /\ UNCHANGED <<regVars, changed>> /\ cpc[c] = "cmds"
      /\ Views' = Views /\ (\A u : CmdIds(u)' = CmdIds(u)) /\ Dirty(c)' = Dirty(c)
      /\ RegType'
  BY RegUnchanged, ClientReg DEF GetClInfo, Dirty, regVars, Client, Loading
<1>1. PICK id \in todo[c] :
       IF ClFound(id)
       THEN /\ cur' = [cur EXCEPT ![c] = id]
            /\ Took(c, id)
            /\ Goto(c, "cmdview")
            /\ UNCHANGED <<first, target, asked, known, loaded>>
       ELSE Fail(c) /\ known' = Cleared(c)
  BY DEF GetClInfo
<1>2. CASE ClFound(id)
  <2>1. /\ cur' = [cur EXCEPT ![c] = id]
        /\ todo' = [todo EXCEPT ![c] = @ \ {id}]
        /\ cpc' = [cpc EXCEPT ![c] = "cmdview"]
        /\ UNCHANGED <<first, target, asked, known, loaded>>
    BY <1>1, <1>2 DEF Took, Goto
  <2>2. id \in Nat BY DEF Inv, TypeOK
  <2>3. TypeOK' BY <1>0, <2>1, <2>2 DEF Inv, TypeOK
  <2>4. cpc'[c] = "cmdview" /\ cur'[c] = id /\ todo'[c] = todo[c] \ {id}
    BY <2>1 DEF Inv, TypeOK
  <2>5. ASSUME Accurate(c) PROVE Accurate(c)'
    <3>1. \A v \in Views : v = target[c] => known[c][v] \union todo[c] = CmdIds(v)
      BY <1>0, <2>5 DEF Accurate
    <3>2. \A v \in Views : v = target[c] =>
            known[c][v] \union todo'[c] \union {cur'[c]} = CmdIds(v)
      BY <2>4, <3>1
    <3> QED BY <1>0, <2>1, <2>4, <2>5, <3>2 DEF Accurate, regVars
  <2> QED BY <1>0, <2>3, <2>5 DEF LoadInv, Inv
<1>3. CASE ~ClFound(id)
  <2>1. SUFFICES ASSUME ~Dirty(c) PROVE FALSE BY <1>0, <1>1, <1>3, FailsDirty
  <2>2. Accurate(c) /\ target[c] \in Views
    BY <1>0, <2>1 DEF Inv, LoadInv, TypeOK, Accurate
  <2>3. id \in CmdIds(target[c]) BY <1>0, <2>2 DEF Accurate
  <2> QED BY <1>3, <2>3 DEF ClFound, CmdIds, InView, Ids
<1> QED BY <1>2, <1>3

\* The view a terminal that is not dirty reads is the one it asked for.
LEMMA RegClInViewInv ==
  ASSUME Inv, NEW c \in Cas, RegClInView(c)
  PROVE  TypeOK' /\ LoadInv(c)'
<1>0. /\ UNCHANGED <<regVars, changed>> /\ cpc[c] = "cmdview"
      /\ Views' = Views /\ (\A u : CmdIds(u)' = CmdIds(u)) /\ Dirty(c)' = Dirty(c)
      /\ RegType'
  BY RegUnchanged, ClientReg DEF RegClInView, Dirty, regVars, Client, Loading
<1>1. PICK v \in ViewIdRead(cur[c]) :
       IF v \in DOMAIN known[c]
       THEN /\ known' = [known EXCEPT ![c][v] = @ \union {cur[c]}]
            /\ Goto(c, "cmds")
            /\ UNCHANGED <<first, target, asked, todo, cur, loaded>>
       ELSE Fail(c) /\ known' = Cleared(c)
  BY DEF RegClInView
<1>2. ASSUME Accurate(c)
      PROVE  /\ v = target[c] /\ v \in DOMAIN known[c] /\ v \in Views
             /\ known[c][v] \union todo[c] \union {cur[c]} = CmdIds(v)
  <2>1. target[c] \in DOMAIN known[c] /\ target[c] \in Views
    BY <1>0, <1>2 DEF Inv, TypeOK, Accurate
  <2>2. known[c][target[c]] \union todo[c] \union {cur[c]} = CmdIds(target[c])
    BY <1>0, <1>2, <2>1 DEF Accurate
  <2>3. PICK cl \in cls : cl.view = target[c] /\ cl.id = cur[c]
    BY <2>2 DEF CmdIds, InView, Ids
  <2>4. PICK x \in cls : x.id = cur[c] /\ x.view = v
    BY <2>3 DEF ViewIdRead, ClFound, Ids
  <2>5. x = cl BY <2>3, <2>4 DEF Inv, RegInv
  <2> QED BY <2>1, <2>2, <2>3, <2>4, <2>5
<1>3. CASE v \in DOMAIN known[c]
  <2>1. /\ known' = [known EXCEPT ![c] = [known[c] EXCEPT ![v] = @ \union {cur[c]}]]
        /\ cpc' = [cpc EXCEPT ![c] = "cmds"]
        /\ UNCHANGED <<first, target, asked, todo, cur, loaded>>
    BY <1>1, <1>3 DEF Goto
  <2>2. /\ DOMAIN known' = Cas
        /\ known'[c] = [known[c] EXCEPT ![v] = known[c][v] \union {cur[c]}]
        /\ \A d \in Cas : d # c => known'[d] = known[d]
        /\ cpc'[c] = "cmds"
    BY <2>1 DEF Inv, TypeOK
  <2>3. /\ known[c] \in [DOMAIN known[c] -> SUBSET Nat]
        /\ cur[c] \in Nat
    BY DEF Inv, TypeOK
  <2>4. known'[c] \in [DOMAIN known[c] -> SUBSET Nat] /\ DOMAIN known'[c] = DOMAIN known[c]
    <3>1. known[c][v] \union {cur[c]} \in SUBSET Nat BY <1>3, <2>3
    <3> QED BY <2>2, <2>3, <3>1
  <2>5. /\ \A u \in DOMAIN known[c] : u # v => known'[c][u] = known[c][u]
        /\ known'[c][v] = known[c][v] \union {cur[c]}
    BY <1>3, <2>2
  <2>6. TypeOK'
    <3>1. ASSUME NEW d \in Cas
          PROVE  /\ DOMAIN known'[d] \subseteq Nat
                 /\ known'[d] \in [DOMAIN known'[d] -> SUBSET Nat]
                 /\ cpc'[d] # "closed" => {Root, target'[d]} \subseteq DOMAIN known'[d]
      <4>1. CASE d = c BY <1>0, <2>1, <2>4, <4>1 DEF Inv, TypeOK
      <4>2. CASE d # c BY <2>1, <2>2, <4>2 DEF Inv, TypeOK
      <4> QED BY <4>1, <4>2
    <3> QED BY <1>0, <2>1, <2>2, <3>1 DEF Inv, TypeOK
  <2>7. ASSUME Accurate(c) PROVE Accurate(c)'
    <3>1. /\ v = target[c] /\ v \in Views
          /\ known[c][v] \union todo[c] \union {cur[c]} = CmdIds(v)
      BY <1>2, <2>7
    <3>2. v \notin loaded[c] /\ loaded[c] \subseteq DOMAIN known[c]
      BY <1>0, <2>7, <3>1 DEF Accurate
    <3>3. \A u \in loaded[c] : known'[c][u] = CmdIds(u)
      BY <2>5, <2>7, <3>2 DEF Accurate
    <3>4. \A u \in DOMAIN known[c] \ loaded[c] : known'[c][u] = {} \/ u = target[c]
      BY <2>5, <2>7, <3>1 DEF Accurate
    <3>5. known'[c][v] \union todo[c] = CmdIds(v) BY <2>5, <3>1
    <3> QED BY <1>0, <2>1, <2>2, <2>4, <2>7, <3>1, <3>3, <3>4, <3>5 DEF Accurate, regVars
  <2> QED BY <1>0, <2>6, <2>7 DEF LoadInv, Inv
<1>4. CASE v \notin DOMAIN known[c]
  <2>1. Dirty(c) BY <1>0, <1>2, <1>4 DEF Inv, LoadInv
  <2> QED BY <1>0, <1>1, <1>4, <2>1, FailsDirty
<1> QED BY <1>3, <1>4

LEMMA LoadDoneInv ==
  ASSUME Inv, NEW c \in Cas, LoadDone(c)
  PROVE  TypeOK' /\ LoadInv(c)'
<1>0. /\ UNCHANGED <<regVars, changed, known>> /\ cpc[c] = "cmds"
      /\ Views' = Views /\ (\A u : CmdIds(u)' = CmdIds(u)) /\ Dirty(c)' = Dirty(c)
      /\ RegType'
  BY RegUnchanged, ClientReg DEF LoadDone, Dirty, regVars, Client, Loading
<1>1. /\ loaded' = [loaded EXCEPT ![c] = @ \union {target[c]}]
      /\ cpc' = [cpc EXCEPT ![c] = "idle"]
      /\ first' = [first EXCEPT ![c] = FALSE]
      /\ target' = [target EXCEPT ![c] = Root]
      /\ asked' = [asked EXCEPT ![c] = NoNum]
      /\ todo' = [todo EXCEPT ![c] = {}]
      /\ cur' = [cur EXCEPT ![c] = 0]
      /\ todo[c] = {}
  BY DEF LoadDone, Return, Goto
<1>2. TypeOK' BY <1>0, <1>1 DEF Inv, TypeOK, NoNum, Root
<1>3. cpc'[c] = "idle" /\ loaded'[c] = loaded[c] \union {target[c]} /\ target'[c] = Root
  BY <1>1 DEF Inv, TypeOK
<1>4. ASSUME Accurate(c) PROVE Accurate(c)'
  <2>1. /\ target[c] \in Views /\ DOMAIN known[c] = Views
        /\ known[c][target[c]] = CmdIds(target[c])
    BY <1>0, <1>1, <1>4 DEF Accurate, Inv, TypeOK
  <2>2. \A v \in loaded'[c] : known[c][v] = CmdIds(v) BY <1>3, <1>4, <2>1 DEF Accurate
  <2>3. Root \in loaded'[c] BY <1>0, <1>3, <1>4 DEF Accurate
  <2>4. \A v \in Views \ loaded'[c] : known[c][v] = {} BY <1>3, <1>4, <2>1 DEF Accurate
  <2>5. loaded'[c] \subseteq Views BY <1>3, <1>4, <2>1 DEF Accurate
  <2> QED BY <1>0, <1>3, <2>1, <2>2, <2>3, <2>4, <2>5 DEF Accurate
<1> QED BY <1>0, <1>2, <1>4 DEF LoadInv, Inv

(***************************************************************************)
(* The theorems                                                            *)
(***************************************************************************)

LEMMA ClientInv ==
  ASSUME Inv, NEW c \in Cas, Client(c)
  PROVE  Inv'
<1>1. RegInv' /\ CountsRight' BY ClientReg, RegUnchanged DEF Inv
<1>2. TypeOK' /\ LoadInv(c)'
  BY StartsRight, LineInv, ViewProcInv, CloseCaInv, GetClCountInv, GetAllViewIdsInv, GetViewInfoInv,
     ViewsDoneInv, GetAllCmdIdsInv, GetClInfoInv, RegClInViewInv, LoadDoneInv
  DEF Client, Loading
<1>3. \A d \in Cas : d # c => LoadInv(d)'
  BY ClientOthers, SameInv, ClientReg DEF Inv
<1> QED BY <1>1, <1>2, <1>3 DEF Inv

LEMMA InitInv == Init => Inv
<1> SUFFICES ASSUME Init PROVE Inv OBVIOUS
<1> USE DEF Init, RegInit
<1>1. Views = {Root} /\ clCnt = [v \in {Root} |-> 0] BY DEF Views
<1>2. TypeOK BY <1>1 DEF TypeOK, RegType, NoNum, NoViews, Root
<1>3. RegInv
  <2>1. IsFiniteSet(cls) /\ IsFiniteSet(Views) BY <1>1, FS_EmptySet, FS_Singleton
  <2>2. cls = {} /\ Views \ {Root} = {} BY <1>1
  <2> QED BY <2>1, <2>2 DEF RegInv, Root
<1>4. CountsRight
  <2>1. InView(Root) = {} BY DEF InView
  <2>2. Views \ {Root} = {} BY <1>1
  <2> QED BY <1>1, <2>1, <2>2, FS_EmptySet DEF CountsRight
<1>5. \A c \in Cas : LoadInv(c) BY DEF LoadInv
<1> QED BY <1>2, <1>3, <1>4, <1>5 DEF Inv

LEMMA StutterInv == Inv /\ UNCHANGED vars => Inv'
<1> SUFFICES ASSUME Inv, UNCHANGED vars PROVE Inv' OBVIOUS
<1> USE DEF vars, clientVars
<1>1. RegInv' /\ CountsRight' /\ Views' = Views BY RegUnchanged DEF Inv
<1>2. TypeOK' BY <1>1 DEF Inv, TypeOK, RegType, regVars
<1>3. \A c \in Cas : Same(c) BY DEF Same
<1>4. \A c \in Cas : LoadInv(c)' BY <1>3, SameInv DEF Inv
<1> QED BY <1>1, <1>2, <1>4 DEF Inv

LEMMA NextInv == Inv /\ [Next]_vars => Inv'
BY RegistrantInv, ClientInv, StutterInv DEF Next

LEMMA Invariant == Spec => []Inv
BY InitInv, NextInv, PTL DEF Spec

\* Registry and copies keep their types.
THEOREM TypesKept == Spec => []TypeOK
<1>1. Inv => TypeOK BY DEF Inv
<1> QED BY <1>1, Invariant, PTL

\* The counts of the views are right after every section under the lock.
THEOREM CountsAlwaysRight == Spec => []CountsRight
<1>1. Inv => CountsRight BY DEF Inv
<1> QED BY <1>1, Invariant, PTL

\* A terminal nobody is about to wake shows what is registered.
THEOREM AlwaysInSync == Spec => []InSync
<1>1. Inv => InSync
  <2>1. SUFFICES ASSUME Inv, NEW c \in Cas, cpc[c] \in {"idle", "parse"}, ~Dirty(c)
               PROVE  UpToDate(c)
    BY DEF InSync
  <2> QED BY <2>1 DEF Inv, LoadInv, Accurate, UpToDate
<1> QED BY <1>1, Invariant, PTL

\* As many ids as commands.
LEMMA AsManyIds ==
  ASSUME RegInv, NEW v
  PROVE  Cardinality(CmdIds(v)) = Cardinality(InView(v))
<1> DEFINE f == [cl \in InView(v) |-> cl.id]
<1>1. f \in Surjection(InView(v), CmdIds(v))
  BY DEF Surjection, CmdIds, Ids
<1>2. f \in Injection(InView(v), CmdIds(v))
  <2>1. \A x, y \in InView(v) : x.id = y.id => x = y BY DEF InView, RegInv
  <2> QED BY <1>1, <2>1 DEF Injection, IsInjective, Surjection
<1>3. ExistsBijection(InView(v), CmdIds(v))
  BY <1>1, <1>2 DEF ExistsBijection, Bijection
<1>4. IsFiniteSet(InView(v)) BY InViewFinite DEF RegInv
<1> QED BY <1>3, <1>4, FS_Bijection

\* What the manager writes to a terminal has the length of the terminal's array.
THEOREM IdsAlwaysFit == Spec => IdsFit
<1>1. ASSUME Inv, [Next]_vars, NEW c \in Cas PROVE FillsArray(c)
  <2>1. CASE \E d \in Cas : Client(d) /\ d # c
    BY <1>1, <2>1, ClientOthers DEF Same, FillsArray
  <2>2. CASE UNCHANGED cpc BY <2>2 DEF FillsArray
  <2>3. CASE GetAllViewIds(c)
    <3>1. cpc[c] = "viewids" BY <2>3 DEF GetAllViewIds
    <3>2. CASE ViewIdsGiven(asked[c].views)
      <4>1. todo'[c] = Views \ {Root}
        BY <1>1, <2>3, <3>2 DEF GetAllViewIds, ViewIds, Inv, TypeOK
      <4> QED BY <1>1, <3>1, <3>2, <4>1 DEF Inv, CountsRight, ViewIdsGiven, FillsArray
    <3>3. CASE ~ViewIdsGiven(asked[c].views)
      BY <1>1, <2>3, <3>1, <3>3 DEF GetAllViewIds, Fail, Return, Goto, FillsArray, Inv, TypeOK
    <3> QED BY <3>2, <3>3
  <2>4. CASE GetAllCmdIds(c)
    <3>1. cpc[c] = "cmdids" BY <2>4 DEF GetAllCmdIds
    <3>2. CASE CmdIdsGiven(target[c], asked[c].cl)
      <4>1. todo'[c] = CmdIds(target[c])
        BY <1>1, <2>4, <3>2 DEF GetAllCmdIds, Inv, TypeOK
      <4>2. Cardinality(CmdIds(target[c])) = asked[c].cl
        BY <1>1, <3>2, AsManyIds DEF Inv, CountsRight, CmdIdsGiven
      <4> QED BY <3>1, <4>1, <4>2 DEF FillsArray
    <3>3. CASE ~CmdIdsGiven(target[c], asked[c].cl)
      BY <1>1, <2>4, <3>1, <3>3 DEF GetAllCmdIds, Fail, Return, Goto, FillsArray, Inv, TypeOK
    <3> QED BY <3>2, <3>3
  <2>5. CASE Client(c) /\ ~GetAllViewIds(c) /\ ~GetAllCmdIds(c)
    <3>1. cpc[c] \notin {"viewids", "cmdids"}
      BY <2>5 DEF Client, Loading, OpenCa, Renew, ReadLine, ViewProc, LineDone, CloseCa,
                  GetClCount, GetViewInfo,
                  ViewsDone, GetClInfo, RegClInView, LoadDone
    <3> QED BY <3>1 DEF FillsArray
  <2>6. CASE \E a \in Cbs : RegistrantStep(a)
    BY <2>6 DEF RegistrantStep, clientVars, FillsArray
  <2> QED BY <1>1, <2>1, <2>2, <2>3, <2>4, <2>5, <2>6 DEF Next, vars, clientVars
<1>2. Inv /\ [Next]_vars => [\A c \in Cas : FillsArray(c)]_vars BY <1>1
<1> QED BY <1>2, Invariant, PTL DEF Spec, IdsFit

(***************************************************************************)
(* The line editor and its loop                                            *)
(***************************************************************************)

\* what a column of the screen may show, the columns there are, the editor
Glyph == STRING \union Typed \union {Blank, Complete}

Rows == UNION {[D -> Glyph] : D \in SUBSET Nat}
Editor == [hist : Seq(Seq(Glyph)), ptr : Nat, pos : Nat, cur : Nat,
           prompt : Seq(Glyph), row : Rows, col : Nat, tabbed : BOOLEAN]

\* the columns that a text written at col covers
Cols(text, col) == col + 1 .. col + Len(text)

\* Rows are equal when they are column by column.
LEMMA RowsEqual ==
  ASSUME NEW r \in Rows, NEW q \in Rows, DOMAIN r = DOMAIN q,
         \A i \in DOMAIN r : r[i] = q[i]
  PROVE  r = q
<1>1. r = [i \in DOMAIN r |-> r[i]] BY DEF Rows
<1>2. q = [i \in DOMAIN q |-> q[i]] BY DEF Rows
<1> QED BY <1>1, <1>2

\* What a text shows: its characters, from the column behind col on, and
\* nothing where it has a blank.
LEMMA CellsOf ==
  ASSUME NEW text \in Seq(Glyph), NEW col \in Nat
  PROVE  /\ Cells(text, col) \in Rows
         /\ DOMAIN Cells(text, col) = {i \in Cols(text, col) : text[i - col] # Blank}
         /\ \A i \in DOMAIN Cells(text, col) : Cells(text, col)[i] = text[i - col]
<1> DEFINE D == {col + j : j \in {k \in DOMAIN text : text[k] # Blank}}
           E == {i \in Cols(text, col) : text[i - col] # Blank}
<1>0. DOMAIN text = 1 .. Len(text) /\ Len(text) \in Nat OBVIOUS
<1>1. D = E
  <2>1. ASSUME NEW i \in D PROVE i \in E
    <3>1. PICK j \in {k \in DOMAIN text : text[k] # Blank} : i = col + j OBVIOUS
    <3>2. j \in 1 .. Len(text) /\ text[j] # Blank BY <1>0
    <3>3. i - col = j /\ i \in Cols(text, col) BY <3>1, <3>2, <1>0 DEF Cols
    <3> QED BY <3>2, <3>3
  <2>2. ASSUME NEW i \in E PROVE i \in D
    <3>1. i - col \in {k \in DOMAIN text : text[k] # Blank} BY <1>0 DEF Cols
    <3>2. i = col + (i - col) BY <1>0 DEF Cols
    <3> QED BY <3>1, <3>2
  <2> QED BY <2>1, <2>2
<1>2. Cells(text, col) = [i \in D |-> text[i - col]] BY DEF Cells
<1> HIDE DEF D
<1>3. E \in SUBSET Nat BY <1>0 DEF Cols
<1>4. \A i \in E : text[i - col] \in Glyph BY <1>0 DEF Cols
<1>5. [i \in E |-> text[i - col]] \in [E -> Glyph] BY <1>4
<1> HIDE DEF E
<1>6. Cells(text, col) \in Rows BY <1>1, <1>2, <1>3, <1>5 DEF Rows
<1>7. DOMAIN Cells(text, col) = E BY <1>1, <1>2
<1> QED BY <1>1, <1>2, <1>6, <1>7 DEF E

\* o is s after text was written
Drawn(s, text, o) ==
  /\ o = [s EXCEPT !.row = o.row, !.col = s.col + Len(text), !.tabbed = o.tabbed]
  /\ o.row \in Rows /\ o.tabbed \in BOOLEAN
  /\ ~HasTab(text) => o.tabbed = s.tabbed
  /\ \A i : i \in DOMAIN o.row <=>
       IF i \in Cols(text, s.col) THEN text[i - s.col] # Blank ELSE i \in DOMAIN s.row
  /\ \A i \in DOMAIN o.row : o.row[i] =
       IF i \in Cols(text, s.col) THEN text[i - s.col] ELSE s.row[i]

\* Writing a text changes the columns it covers, and only these.
LEMMA OutDraws ==
  ASSUME NEW s \in Editor, NEW text \in Seq(Glyph)
  PROVE  Drawn(s, text, Out(s, text))
<1> DEFINE kept == DOMAIN s.row \ (s.col + 1 .. s.col + Len(text))
           new == Cells(text, s.col)
           r == [i \in kept \union DOMAIN new |-> IF i \in kept THEN s.row[i] ELSE new[i]]
           b == s.tabbed \/ HasTab(text)
<1>1. Out(s, text) = [s EXCEPT !.row = r, !.col = s.col + Len(text), !.tabbed = b]
  BY DEF Out, Editor
<1>b. s.tabbed \in BOOLEAN /\ b \in BOOLEAN /\ (~HasTab(text) => b = s.tabbed) BY DEF Editor
<1> HIDE DEF b
<1>2. s.col \in Nat /\ s.row \in Rows /\ s \in [hist : Seq(Seq(Glyph)), ptr : Nat, pos : Nat, cur : Nat,
           prompt : Seq(Glyph), row : Rows, col : Nat, tabbed : BOOLEAN] BY DEF Editor
<1>3. /\ new \in Rows
      /\ DOMAIN new = {i \in Cols(text, s.col) : text[i - s.col] # Blank}
      /\ \A i \in DOMAIN new : new[i] = text[i - s.col]
  BY <1>2, CellsOf
<1>4. Out(s, text).row = r /\ Out(s, text).tabbed = b BY <1>1, <1>2
<1>5. r \in Rows
  <2>1. DOMAIN s.row \in SUBSET Nat /\ \A i \in DOMAIN s.row : s.row[i] \in Glyph
    BY <1>2 DEF Rows
  <2>2. DOMAIN new \in SUBSET Nat /\ \A i \in DOMAIN new : new[i] \in Glyph BY <1>3 DEF Rows
  <2> HIDE DEF new
  <2>3. kept \union DOMAIN new \in SUBSET Nat BY <2>1, <2>2
  <2>4. r \in [kept \union DOMAIN new -> Glyph] BY <2>1, <2>2
  <2> QED BY <2>3, <2>4 DEF Rows
<1>6. DOMAIN r = kept \union DOMAIN new OBVIOUS
<1> HIDE DEF new
<1>7. \A i : i \in DOMAIN r <=>
         IF i \in Cols(text, s.col) THEN text[i - s.col] # Blank ELSE i \in DOMAIN s.row
  BY <1>3, <1>6 DEF Cols
<1>8. \A i \in DOMAIN r : r[i] = IF i \in Cols(text, s.col) THEN text[i - s.col] ELSE s.row[i]
  BY <1>3, <1>6 DEF Cols
<1> HIDE DEF r
<1>9. Out(s, text) = [s EXCEPT !.row = Out(s, text).row, !.col = s.col + Len(text),
                              !.tabbed = Out(s, text).tabbed]
  BY <1>1, <1>4
<1> QED BY <1>b, <1>4, <1>5, <1>7, <1>8, <1>9 DEF Drawn

\* The editor's own state: the lines there are, which one is edited, where.
Editing(s) ==
  /\ s \in Editor
  /\ s.ptr \in 1 .. Len(s.hist) /\ s.pos \in 1 .. Len(s.hist)
  /\ s.cur \in 0 .. Len(Line(s))
\* all of what the row is to show, and that it does
Full(s) == s.prompt \o Line(s)
Shows(s) == s.row = Cells(Full(s), 0) /\ s.col = Len(s.prompt) + s.cur
\* nothing is on the row behind the place the editor counts up to
Within(s) == DOMAIN s.row \subseteq 1 .. Len(s.prompt) + Len(Line(s))
\* an empty row, and the editor with one
Dark == Cells(<<>>, 0)
Emptied(s) == [s EXCEPT !.row = Dark, !.col = 0]

\* The line being edited is one of the lines there are.
LEMMA LineIs ==
  ASSUME NEW s, Editing(s)
  PROVE  Line(s) \in Seq(Glyph) /\ Full(s) \in Seq(Glyph) /\ Len(Line(s)) \in Nat
         /\ Len(s.prompt) \in Nat /\ Len(Full(s)) = Len(s.prompt) + Len(Line(s))
<1>1. s.hist \in Seq(Seq(Glyph)) /\ s.prompt \in Seq(Glyph) BY DEF Editing, Editor
<1>2. Line(s) \in Seq(Glyph) BY <1>1 DEF Editing, Line
<1> QED BY <1>1, <1>2 DEF Full

\* Nothing is on an empty row.
LEMMA DarkIs == Dark \in Rows /\ DOMAIN Dark = {}
<1>1. <<>> \in Seq(Glyph) /\ 0 \in Nat /\ Len(<<>>) = 0 OBVIOUS
<1>2. Cols(<<>>, 0) = {} BY <1>1 DEF Cols
<1> QED BY ONLY <1>1, <1>2, CellsOf DEF Dark

\* A number of blanks.
LEMMA BlanksOf ==
  ASSUME NEW n \in Nat
  PROVE  /\ [i \in 1 .. n |-> Blank] \in Seq(Glyph)
         /\ Len([i \in 1 .. n |-> Blank]) = n
         /\ \A i \in 1 .. n : [j \in 1 .. n |-> Blank][i] = Blank
<1>1. Blank \in Glyph BY DEF Glyph
<1> QED BY <1>1

\* EraseInput leaves nothing, if what there is is within what it counts.
LEMMA EraseClears ==
  ASSUME NEW s, Editing(s), Within(s)
  PROVE  EraseInput(s) = Emptied(s)
<1> DEFINE n == Len(s.prompt) + Len(Line(s))
           blanks == [i \in 1 .. n |-> Blank]
           c == Cr(s)
<1>1. s \in Editor /\ n \in Nat BY LineIs DEF Editing
<1>2. blanks \in Seq(Glyph) /\ Len(blanks) = n /\ \A i \in 1 .. n : blanks[i] = Blank
  BY <1>1, BlanksOf
<1>3. c \in Editor /\ c.col = 0 /\ c.row = s.row /\ c = [s EXCEPT !.col = 0]
  BY <1>1 DEF Cr, Editor
<1>4. EraseInput(s) = Cr(Out(c, blanks)) BY DEF EraseInput
<1> DEFINE o == Out(c, blanks)
<1> HIDE DEF blanks, c
<1>5. /\ o = [c EXCEPT !.row = o.row, !.col = c.col + n, !.tabbed = o.tabbed]
      /\ o.row \in Rows /\ o.tabbed = c.tabbed
      /\ \A i : i \in DOMAIN o.row <=>
                 IF i \in Cols(blanks, 0) THEN blanks[i - 0] # Blank ELSE i \in DOMAIN s.row
  <2>1. Drawn(c, blanks, Out(c, blanks))
    <3>1. c \in Editor /\ blanks \in Seq(Glyph) BY <1>2, <1>3
    <3> QED BY ONLY <3>1, OutDraws
  <2> HIDE DEF n
  <2>2. Len(blanks) = n /\ c.col = 0 /\ c.row = s.row BY <1>2, <1>3
  <2>3. ~HasTab(blanks)
    <3>1. Blank # Complete BY DEF Blank, Complete
    <3> QED BY <1>2, <3>1 DEF HasTab
  <2> QED BY ONLY <2>1, <2>2, <2>3 DEF Drawn, o
<1> HIDE DEF o
<1>6. DOMAIN o.row = {}
  <2>1. Cols(blanks, 0) = 1 .. n BY <1>1, <1>2 DEF Cols
  <2>2. \A i \in 1 .. n : i - 0 = i BY <1>1
  <2>3. DOMAIN s.row \subseteq 1 .. n BY DEF Within
  <2> HIDE DEF n
  <2> QED BY <1>2, <1>5, <2>1, <2>2, <2>3
<1>7. o.row = Dark BY <1>5, <1>6, DarkIs, RowsEqual
<1>8. Cr(o) = [s EXCEPT !.row = Dark, !.col = 0]
  <2>1. o = [c EXCEPT !.row = Dark, !.col = c.col + n] BY <1>3, <1>5, <1>7 DEF Editor
  <2>2. o = [s EXCEPT !.row = Dark, !.col = c.col + n] BY <2>1, <1>1, <1>3 DEF Editor
  <2> HIDE DEF n
  <2> QED BY <2>2, <1>1 DEF Cr, Editor
<1> QED BY <1>4, <1>8 DEF o, Emptied

\* ShowCmd on an empty row.
LEMMA ShowDraws ==
  ASSUME NEW s, Editing(s), s.row = Dark, s.col = 0
  PROVE  /\ ShowCmd(s) = [s EXCEPT !.row = Cells(Full(s), 0), !.col = Len(s.prompt) + s.cur,
                                  !.tabbed = ShowCmd(s).tabbed]
         /\ Cells(Full(s), 0) \in Rows /\ ShowCmd(s).tabbed \in BOOLEAN
<1> DEFINE o == Out(s, Full(s))
<1>1. s \in Editor /\ Full(s) \in Seq(Glyph) /\ Len(Full(s)) = Len(s.prompt) + Len(Line(s))
      /\ Len(s.prompt) \in Nat /\ Len(Line(s)) \in Nat /\ s.cur \in 0 .. Len(Line(s))
  BY LineIs DEF Editing
<1>2. /\ o = [s EXCEPT !.row = o.row, !.col = s.col + Len(Full(s)), !.tabbed = o.tabbed]
      /\ o.row \in Rows /\ o.tabbed \in BOOLEAN
      /\ \A i : i \in DOMAIN o.row <=>
           IF i \in Cols(Full(s), 0) THEN Full(s)[i - 0] # Blank ELSE i \in DOMAIN s.row
      /\ \A i \in DOMAIN o.row : o.row[i] =
           IF i \in Cols(Full(s), 0) THEN Full(s)[i - 0] ELSE s.row[i]
  <2> DEFINE text == Full(s)
  <2>1. s \in Editor BY <1>1
  <2>2. text \in Seq(Glyph) BY <1>1
  <2> HIDE DEF text, o
  <2>3. Drawn(s, text, Out(s, text))
    BY ONLY <2>1, <2>2, OutDraws
  <2> QED BY <1>1, <2>3 DEF text, o, Drawn
<1>3. /\ Cells(Full(s), 0) \in Rows
      /\ DOMAIN Cells(Full(s), 0) = {i \in Cols(Full(s), 0) : Full(s)[i - 0] # Blank}
      /\ \A i \in DOMAIN Cells(Full(s), 0) : Cells(Full(s), 0)[i] = Full(s)[i - 0]
  <2> DEFINE text == Full(s)
  <2>1. text \in Seq(Glyph) /\ 0 \in Nat BY <1>1
  <2> HIDE DEF text
  <2> QED BY ONLY <2>1, CellsOf DEF text
<1> HIDE DEF o
<1>4. DOMAIN o.row = DOMAIN Cells(Full(s), 0) BY <1>2, <1>3, DarkIs
<1>5. o.row = Cells(Full(s), 0)
  <2>1. \A i \in DOMAIN o.row : o.row[i] = Cells(Full(s), 0)[i] BY <1>2, <1>3, <1>4
  <2> QED BY <1>2, <1>3, <1>4, <2>1, RowsEqual
<1>6. o = [s EXCEPT !.row = Cells(Full(s), 0), !.col = Len(s.prompt) + Len(Line(s)),
                    !.tabbed = o.tabbed]
  <2>1. s.col + Len(Full(s)) = Len(s.prompt) + Len(Line(s)) BY <1>1
  <2>2. o = [s EXCEPT !.row = Cells(Full(s), 0), !.col = s.col + Len(Full(s)), !.tabbed = o.tabbed]
    BY <1>2, <1>5
  <2> QED BY <2>1, <2>2
<1>7. ShowCmd(s) = Back(o, Len(Line(s)) - s.cur) BY DEF ShowCmd, o, Full
<1>8. o.col = Len(s.prompt) + Len(Line(s)) BY <1>1, <1>6 DEF Editor
<1>9. Back(o, Len(Line(s)) - s.cur) = [o EXCEPT !.col = Len(s.prompt) + s.cur]
  BY <1>1, <1>8 DEF Back
<1>10. Back(o, Len(Line(s)) - s.cur)
          = [s EXCEPT !.row = Cells(Full(s), 0), !.col = Len(s.prompt) + s.cur, !.tabbed = o.tabbed]
  <2> DEFINE a == Cells(Full(s), 0)
             b == Len(s.prompt) + Len(Line(s))
             e == Len(s.prompt) + s.cur
             d == o.tabbed
  <2>1. o = [s EXCEPT !.row = a, !.col = b, !.tabbed = d] BY <1>6
  <2>2. Back(o, Len(Line(s)) - s.cur) = [o EXCEPT !.col = e] BY <1>9
  <2> HIDE DEF a, b, e, d
  <2>3. [o EXCEPT !.col = e] = [s EXCEPT !.row = a, !.col = e, !.tabbed = d]
    BY <2>1, <1>1 DEF Editor
  <2> QED BY <2>2, <2>3 DEF a, e, d
<1>11. ShowCmd(s).tabbed = o.tabbed
  <2> DEFINE a == Cells(Full(s), 0)
             e == Len(s.prompt) + s.cur
             d == o.tabbed
  <2>1. ShowCmd(s) = [s EXCEPT !.row = a, !.col = e, !.tabbed = d] BY <1>7, <1>10
  <2> HIDE DEF a, e, d
  <2>2. ShowCmd(s).tabbed = d BY <2>1, <1>1 DEF Editor
  <2> QED BY <2>2 DEF d
<1> QED BY <1>2, <1>3, <1>7, <1>10, <1>11

\* what holds between two keys; two states with the same text
Fit(s) == Editing(s) /\ Shows(s)
SameText(s, t) ==
  t.hist = s.hist /\ t.ptr = s.ptr /\ t.pos = s.pos /\ t.cur = s.cur /\ t.prompt = s.prompt

\* What is drawn on an empty row is what the editor has.
LEMMA Redrawn ==
  ASSUME NEW s, Editing(s), NEW t, t = Emptied(s) \/ t = CrLf(s)
  PROVE  Fit(ShowCmd(t)) /\ SameText(s, ShowCmd(t))
<1> DEFINE r == Cells(Full(s), 0)
           c == Len(s.prompt) + s.cur
           b == ShowCmd(t).tabbed
           u == [t EXCEPT !.row = r, !.col = c, !.tabbed = b]
<1>1. s \in Editor BY DEF Editing
<1>2. t \in Editor /\ t.row = Dark /\ t.col = 0 /\ SameText(s, t)
  <2>1. CASE t = Emptied(s) BY <1>1, <2>1, DarkIs DEF Emptied, Editor, SameText
  <2>2. CASE t = CrLf(s) BY <1>1, <2>2, DarkIs DEF CrLf, Dark, Editor, SameText
  <2> QED BY <2>1, <2>2
<1>3. Line(t) = Line(s) /\ Full(t) = Full(s) BY <1>2 DEF SameText, Line, Full
<1>4. Editing(t) BY <1>2, <1>3 DEF Editing, SameText
<1>5. ShowCmd(t) = u /\ r \in Rows /\ b \in BOOLEAN
  BY <1>2, <1>3, <1>4, ShowDraws DEF SameText
<1>6. c \in Nat BY <1>1, LineIs DEF Editing, Editor
<1> HIDE DEF r, c, b
<1>7. ShowCmd(t) = u BY <1>5
<1>8. u \in Editor /\ SameText(s, u) /\ u.row = r /\ u.col = c
  BY <1>2, <1>5, <1>6 DEF Editor, SameText
<1>9. Line(u) = Line(s) /\ Full(u) = Full(s) BY <1>8 DEF SameText, Line, Full
<1>10. Editing(u) BY <1>8, <1>9 DEF Editing, SameText
<1>11. Shows(u) BY <1>8, <1>9 DEF Shows, SameText, r, c
<1> QED BY <1>7, <1>8, <1>10, <1>11 DEF Fit

\* What shows its line, and only that, is within what EraseInput counts.
LEMMA ShownWithin ==
  ASSUME NEW s, Fit(s)
  PROVE  Within(s)
<1>1. /\ Full(s) \in Seq(Glyph) /\ Len(Full(s)) = Len(s.prompt) + Len(Line(s))
      /\ Len(Full(s)) \in Nat
  BY LineIs DEF Fit
<1> DEFINE f == Full(s)
<1>2. f \in Seq(Glyph) /\ 0 \in Nat BY <1>1
<1> HIDE DEF f
<1>3. DOMAIN Cells(f, 0) = {i \in Cols(f, 0) : f[i - 0] # Blank} BY ONLY <1>2, CellsOf
<1>4. DOMAIN s.row \subseteq Cols(f, 0) BY <1>3 DEF Fit, Shows, f
<1>5. Cols(f, 0) = 1 .. Len(f) BY <1>2 DEF Cols
<1> QED BY <1>1, <1>4, <1>5 DEF Within, f

\* Another line in the place of the one being edited.
LEMMA LineSet ==
  ASSUME NEW s \in Editor, s.ptr \in 1 .. Len(s.hist), NEW l \in Seq(Glyph)
  PROVE  /\ WithLine(s, l) \in Editor
         /\ WithLine(s, l) = [s EXCEPT !.hist = [s.hist EXCEPT ![s.ptr] = l]]
         /\ Line(WithLine(s, l)) = l
         /\ Len(WithLine(s, l).hist) = Len(s.hist)
         /\ \A i \in 1 .. Len(s.hist) : i # s.ptr => WithLine(s, l).hist[i] = s.hist[i]
<1> DEFINE h == [s.hist EXCEPT ![s.ptr] = l]
<1>0. s.hist \in Seq(Seq(Glyph)) BY DEF Editor
<1>1. h \in Seq(Seq(Glyph)) /\ Len(h) = Len(s.hist) /\ h[s.ptr] = l
      /\ \A i \in 1 .. Len(s.hist) : i # s.ptr => h[i] = s.hist[i]
  BY <1>0
<1>2. WithLine(s, l) = [s EXCEPT !.hist = h] BY DEF WithLine, Editor
<1> HIDE DEF h
<1>3. [s EXCEPT !.hist = h] \in Editor /\ [s EXCEPT !.hist = h].hist = h
      /\ [s EXCEPT !.hist = h].ptr = s.ptr
  BY <1>1 DEF Editor
<1>4. Line(WithLine(s, l)) = l BY <1>1, <1>2, <1>3 DEF Line
<1> QED BY <1>1, <1>2, <1>3, <1>4 DEF h

\* Control-C: the line is emptied and drawn anew.
LEMMA ResetFits ==
  ASSUME NEW s \in Editor, s.ptr \in 1 .. Len(s.hist)
  PROVE  /\ Fit(ResetCmd(s))
         /\ ResetCmd(s).hist = [s.hist EXCEPT ![s.ptr] = <<>>]
         /\ ResetCmd(s).ptr = s.ptr
<1> DEFINE w == WithLine(s, <<>>)
           t == [w EXCEPT !.pos = 1, !.cur = 0]
<1>1. w \in Editor /\ w = [s EXCEPT !.hist = [s.hist EXCEPT ![s.ptr] = <<>>]]
      /\ Line(w) = <<>> /\ Len(w.hist) = Len(s.hist)
  <2>1. <<>> \in Seq(Glyph) OBVIOUS
  <2> QED BY <2>1, LineSet
<1>2. w.ptr = s.ptr /\ w.hist = [s.hist EXCEPT ![s.ptr] = <<>>] BY <1>1 DEF Editor
<1> HIDE DEF w
<1>3. t \in Editor /\ t.hist = w.hist /\ t.ptr = w.ptr /\ t.pos = 1 /\ t.cur = 0
  BY <1>1 DEF Editor
<1>4. Line(t) = <<>> BY <1>1, <1>3 DEF Line
<1>5. Len(s.hist) \in Nat BY DEF Editor
<1>6. Editing(t) BY <1>1, <1>2, <1>3, <1>4, <1>5 DEF Editing
<1>7. ResetCmd(s) = ShowCmd(CrLf(t)) BY DEF ResetCmd, w
<1> HIDE DEF t
<1> QED BY <1>2, <1>3, <1>6, <1>7, Redrawn DEF SameText

\* Another of the lines takes the place of the one being edited.
LEMMA RecalledFits ==
  ASSUME NEW s, Fit(s), NEW i \in 1 .. Len(s.hist)
  PROVE  Fit(Recalled(s, i)) /\ Recalled(s, i).hist = s.hist
<1> DEFINE t == [s EXCEPT !.pos = i, !.ptr = i, !.cur = Len(s.hist[i])]
<1>1. s \in Editor /\ s.hist \in Seq(Seq(Glyph)) /\ Editing(s) BY DEF Fit, Editing, Editor
<1>2. s.hist[i] \in Seq(Glyph) /\ Len(s.hist[i]) \in Nat /\ i \in Nat BY <1>1
<1>3. t \in Editor /\ t.hist = s.hist /\ t.ptr = i /\ t.pos = i /\ t.cur = Len(s.hist[i])
  BY <1>1, <1>2 DEF Editor
<1>4. Line(t) = s.hist[i] BY <1>3 DEF Line
<1>5. Editing(t) BY <1>2, <1>3, <1>4 DEF Editing
<1>6. EraseInput(s) = Emptied(s) BY <1>1, ShownWithin, EraseClears
<1> DEFINE e == [Emptied(s) EXCEPT !.pos = i, !.ptr = i]
<1>7. e.hist = s.hist /\ e.ptr = i BY <1>1 DEF Emptied, Editor
<1>8. Line(e) = s.hist[i] BY <1>7 DEF Line
<1>9. [e EXCEPT !.cur = Len(s.hist[i])] = Emptied(t) BY <1>1 DEF Emptied, Editor
<1>10. Recalled(s, i) = ShowCmd(Emptied(t))
  BY <1>6, <1>8, <1>9 DEF Recalled, RedoCurrLine
<1> HIDE DEF t
<1> QED BY <1>3, <1>5, <1>10, Redrawn DEF SameText

\* The cursor goes left, with the column.
LEMMA LeftFits ==
  ASSUME NEW s, Fit(s)
  PROVE  Fit(Left(s)) /\ Left(s).hist = s.hist
<1>1. s \in Editor /\ s.cur \in 0 .. Len(Line(s)) /\ Len(s.prompt) \in Nat /\ Len(Line(s)) \in Nat
      /\ s.col = Len(s.prompt) + s.cur
  BY LineIs DEF Fit, Editing, Shows
<1>2. CASE s.cur = 0 BY <1>2 DEF Left
<1>3. CASE s.cur # 0
  <2> DEFINE a == s.cur - 1
             b == s.col - 1
             t == [s EXCEPT !.col = b, !.cur = a]
  <2>1. s.cur \in Nat \ {0} BY <1>1, <1>3
  <2>2. Back(s, 1) = [s EXCEPT !.col = s.col - 1] BY <1>1, <2>1 DEF Back
  <2>3. Left(s) = t BY <1>1, <1>3, <2>2 DEF Left, Editor
  <2>a. a \in Nat /\ b \in Nat BY <1>1, <2>1
  <2> HIDE DEF a, b
  <2>4. /\ t \in Editor /\ t.hist = s.hist /\ t.ptr = s.ptr /\ t.pos = s.pos /\ t.row = s.row
        /\ t.prompt = s.prompt /\ t.cur = a /\ t.col = b
    BY <1>1, <2>a DEF Editor
  <2> HIDE DEF t
  <2>5. Line(t) = Line(s) /\ Full(t) = Full(s) BY <2>4 DEF Line, Full
  <2>6. Editing(t) BY <1>1, <2>1, <2>4, <2>5 DEF Editing, Fit, a
  <2>7. Shows(t) BY <1>1, <2>1, <2>4, <2>5 DEF Shows, Fit, a, b
  <2> QED BY <2>3, <2>4, <2>6, <2>7 DEF Fit
<1> QED BY <1>2, <1>3

\* o is s after a character was written
Echoed(s, c, o) ==
  /\ o = [s EXCEPT !.row = o.row, !.col = s.col + 1, !.tabbed = o.tabbed]
  /\ o.row \in Rows /\ o \in Editor /\ o.tabbed \in BOOLEAN
  /\ \A i : i \in DOMAIN o.row <=> IF i = s.col + 1 THEN c # Blank ELSE i \in DOMAIN s.row
  /\ \A i \in DOMAIN o.row : o.row[i] = IF i = s.col + 1 THEN c ELSE s.row[i]

\* One character is written at the cursor.
LEMMA EchoDraws ==
  ASSUME NEW s \in Editor, NEW c \in Glyph
  PROVE  Echoed(s, c, Out(s, <<c>>))
<1> DEFINE x == <<c>>
           o == Out(s, x)
<1>1. x \in Seq(Glyph) /\ Len(x) = 1 /\ x[1] = c OBVIOUS
<1>2. s.col \in Nat BY DEF Editor
<1> HIDE DEF x
<1>3. Drawn(s, x, Out(s, x)) BY <1>1, OutDraws
<1> HIDE DEF o
<1>4. \A i : i \in Cols(x, s.col) <=> i = s.col + 1 BY <1>1, <1>2 DEF Cols
<1>5. (s.col + 1) - s.col = 1 BY <1>2
<1>6. /\ o = [s EXCEPT !.row = o.row, !.col = s.col + 1, !.tabbed = o.tabbed]
      /\ o.row \in Rows /\ o.tabbed \in BOOLEAN
  BY <1>1, <1>3 DEF Drawn, o
<1>7. \A i : i \in DOMAIN o.row <=> IF i = s.col + 1 THEN c # Blank ELSE i \in DOMAIN s.row
  BY <1>1, <1>3, <1>4, <1>5 DEF Drawn, o
<1>8. \A i \in DOMAIN o.row : o.row[i] = IF i = s.col + 1 THEN c ELSE s.row[i]
  BY <1>1, <1>3, <1>4, <1>5 DEF Drawn, o
<1>9. o \in Editor
  <2> DEFINE r == o.row
             b == s.col + 1
             d == o.tabbed
  <2>1. r \in Rows /\ b \in Nat /\ d \in BOOLEAN /\ o = [s EXCEPT !.row = r, !.col = b, !.tabbed = d]
    BY <1>2, <1>6
  <2> HIDE DEF r, b, d
  <2> QED BY <2>1 DEF Editor
<1> QED BY <1>6, <1>7, <1>8, <1>9 DEF o, x, Echoed

\* The row that shows a text, column by column.
LEMMA RowOf ==
  ASSUME NEW text \in Seq(Glyph)
  PROVE  /\ Cells(text, 0) \in Rows
         /\ \A i : i \in DOMAIN Cells(text, 0) <=> i \in 1 .. Len(text) /\ text[i] # Blank
         /\ \A i \in DOMAIN Cells(text, 0) : Cells(text, 0)[i] = text[i]
<1>1. 0 \in Nat /\ Len(text) \in Nat OBVIOUS
<1>2. /\ Cells(text, 0) \in Rows
      /\ DOMAIN Cells(text, 0) = {i \in Cols(text, 0) : text[i - 0] # Blank}
      /\ \A i \in DOMAIN Cells(text, 0) : Cells(text, 0)[i] = text[i - 0]
  BY ONLY <1>1, CellsOf
<1>3. Cols(text, 0) = 1 .. Len(text) BY <1>1 DEF Cols
<1>4. \A i \in 1 .. Len(text) : i - 0 = i BY <1>1
<1> QED BY <1>2, <1>3, <1>4

\* The cursor goes right by writing the character it passes.
LEMMA RightFits ==
  ASSUME NEW s, Fit(s)
  PROVE  Fit(Right(s)) /\ Right(s).hist = s.hist
<1>1. /\ s \in Editor /\ s.cur \in 0 .. Len(Line(s)) /\ Len(s.prompt) \in Nat /\ Len(Line(s)) \in Nat
      /\ s.col = Len(s.prompt) + s.cur /\ s.row = Cells(Full(s), 0)
      /\ Line(s) \in Seq(Glyph) /\ s.prompt \in Seq(Glyph) /\ Full(s) \in Seq(Glyph)
      /\ Len(Full(s)) = Len(s.prompt) + Len(Line(s))
  BY LineIs DEF Fit, Editing, Shows, Editor
<1>2. CASE s.cur = Len(Line(s)) BY <1>2 DEF Right
<1>3. CASE s.cur # Len(Line(s))
  <2> DEFINE c == Line(s)[s.cur + 1]
             o == Out(s, <<c>>)
             t == [o EXCEPT !.cur = s.cur + 1]
  <2>1. s.cur \in Nat /\ s.cur + 1 \in 1 .. Len(Line(s)) BY <1>1, <1>3
  <2>2. c \in Glyph BY <1>1, <2>1
  <2>3. Full(s)[s.col + 1] = c /\ s.col + 1 \in 1 .. Len(Full(s)) BY SMTT(30), <1>1, <2>1 DEF Full
  <2> HIDE DEF c
  <2>4. /\ o = [s EXCEPT !.row = o.row, !.col = s.col + 1, !.tabbed = o.tabbed]
        /\ o.row \in Rows /\ o.tabbed \in BOOLEAN
        /\ \A i : i \in DOMAIN o.row <=> IF i = s.col + 1 THEN c # Blank ELSE i \in DOMAIN s.row
        /\ \A i \in DOMAIN o.row : o.row[i] = IF i = s.col + 1 THEN c ELSE s.row[i]
    <3>1. s \in Editor BY <1>1
    <3>2. Echoed(s, c, Out(s, <<c>>)) BY ONLY <3>1, <2>2, EchoDraws
    <3> QED BY <3>2 DEF Echoed
  <2> HIDE DEF o
  <2>5. /\ s.row \in Rows
        /\ \A i : i \in DOMAIN s.row <=> i \in 1 .. Len(Full(s)) /\ Full(s)[i] # Blank
        /\ \A i \in DOMAIN s.row : s.row[i] = Full(s)[i]
    <3> DEFINE f == Full(s)
    <3>1. f \in Seq(Glyph) BY <1>1
    <3> HIDE DEF f
    <3>2. /\ Cells(f, 0) \in Rows
          /\ \A i : i \in DOMAIN Cells(f, 0) <=> i \in 1 .. Len(f) /\ f[i] # Blank
          /\ \A i \in DOMAIN Cells(f, 0) : Cells(f, 0)[i] = f[i]
      BY ONLY <3>1, RowOf
    <3> QED BY <1>1, <3>2 DEF f
  <2>6. DOMAIN o.row = DOMAIN s.row BY <2>3, <2>4, <2>5
  <2>7. \A i \in DOMAIN o.row : o.row[i] = s.row[i] BY <2>3, <2>4, <2>5, <2>6
  <2>8. o.row = s.row BY <2>4, <2>5, <2>6, <2>7, RowsEqual
  <2> DEFINE a == s.cur + 1
             b == s.col + 1
             d == o.tabbed
  <2>9. t = [s EXCEPT !.col = b, !.cur = a, !.tabbed = d] BY <1>1, <2>4, <2>8 DEF Editor
  <2>10. Right(s) = t BY <1>3, <2>4, <1>1 DEF Right, Editor, o, c
  <2> HIDE DEF t
  <2>11. /\ t \in Editor /\ t.hist = s.hist /\ t.ptr = s.ptr /\ t.pos = s.pos /\ t.row = s.row
         /\ t.prompt = s.prompt /\ t.cur = a /\ t.col = b
    <3>1. a \in Nat /\ b \in Nat /\ d \in BOOLEAN BY <1>1, <2>1, <2>4
    <3> HIDE DEF a, b, d
    <3> QED BY <1>1, <3>1, <2>9 DEF Editor
  <2>12. Line(t) = Line(s) /\ Full(t) = Full(s) BY <2>11 DEF Line, Full
  <2>13. Editing(t) BY <1>1, <2>1, <2>11, <2>12 DEF Editing, Fit
  <2>14. Shows(t) BY <1>1, <2>1, <2>11, <2>12 DEF Shows, Fit
  <2> QED BY <2>10, <2>11, <2>13, <2>14 DEF Fit
<1> QED BY <1>2, <1>3

\* l with c behind its first n characters
WithChar(l, n, c) == SubSeq(l, 1, n) \o <<c>> \o SubSeq(l, n + 1, Len(l))

\* A line with one character more.
LEMMA InsertedIs ==
  ASSUME NEW S, NEW l \in Seq(S), NEW n \in 0 .. Len(l), NEW c \in S
  PROVE  /\ WithChar(l, n, c) \in Seq(S) /\ Len(WithChar(l, n, c)) = Len(l) + 1
         /\ \A i \in 1 .. Len(l) + 1 : WithChar(l, n, c)[i] =
              IF i <= n THEN l[i] ELSE IF i = n + 1 THEN c ELSE l[i - 1]
<1> DEFINE a == SubSeq(l, 1, n)
           b == SubSeq(l, n + 1, Len(l))
<1>1. Len(l) \in Nat /\ n \in Nat OBVIOUS
<1>2. a \in Seq(S) /\ Len(a) = n /\ \A i \in 1 .. n : a[i] = l[i]
  OBVIOUS
<1>3. b \in Seq(S) /\ Len(b) = Len(l) - n /\ \A i \in 1 .. Len(l) - n : b[i] = l[n + i]
  OBVIOUS
<1>4. <<c>> \in Seq(S) /\ Len(<<c>>) = 1 /\ <<c>>[1] = c OBVIOUS
<1> DEFINE ac == a \o <<c>>
<1> HIDE DEF a, b
<1>5. ac \in Seq(S) /\ Len(ac) = n + 1 /\ \A i \in 1 .. n + 1 : ac[i] = IF i <= n THEN l[i] ELSE c
  BY <1>1, <1>2, <1>4
<1> HIDE DEF ac
<1>c. ac \in Seq(S) /\ b \in Seq(S) BY <1>3, <1>5
<1>d. /\ ac \o b \in Seq(S) /\ Len(ac \o b) = Len(ac) + Len(b)
      /\ \A i \in 1 .. Len(ac) + Len(b) : (ac \o b)[i] = IF i <= Len(ac) THEN ac[i] ELSE b[i - Len(ac)]
  BY ONLY <1>c, ConcatProperties
<1>e. Len(ac) + Len(b) = Len(l) + 1
  <2>1. (n + 1) + (Len(l) - n) = Len(l) + 1 BY ONLY <1>1
  <2> QED BY <2>1, <1>3, <1>5
<1>6. ac \o b \in Seq(S) /\ Len(ac \o b) = Len(l) + 1
  BY <1>d, <1>e
<1>7. \A i \in 1 .. Len(l) + 1 : (ac \o b)[i] =
        IF i <= n THEN l[i] ELSE IF i = n + 1 THEN c ELSE l[i - 1]
  <2> TAKE i \in 1 .. Len(l) + 1
  <2>1. (ac \o b)[i] = IF i <= n + 1 THEN ac[i] ELSE b[i - (n + 1)] BY <1>d, <1>e, <1>5
  <2>2. CASE i <= n + 1
    <3>1. i \in 1 .. n + 1 /\ (i <= n \/ i = n + 1) /\ ~(n + 1 <= n) BY <1>1, <2>2
    <3> QED BY ONLY <2>1, <2>2, <3>1, <1>5
  <2>3. CASE i > n + 1
    <3>1. i - (n + 1) \in 1 .. Len(l) - n /\ n + (i - (n + 1)) = i - 1 BY <1>1, <2>3
    <3>2. b[i - (n + 1)] = l[n + (i - (n + 1))] BY <3>1, <1>3
    <3>3. ~(i <= n + 1) /\ ~(i <= n) /\ i # n + 1 BY <1>1, <2>3
    <3> QED BY <2>1, <3>1, <3>2, <3>3
  <2>4. i <= n + 1 \/ i > n + 1 BY <1>1
  <2> QED BY <2>2, <2>3, <2>4
<1> QED BY <1>6, <1>7 DEF WithChar, ac, a, b

\* A character is put into the line; the rest of it is written behind.
LEMMA InsertEdits ==
  ASSUME NEW s, Editing(s), NEW c \in Glyph
  PROVE  LET t == Insert(s, c)
         IN  /\ Editing(t) /\ Line(t) = WithChar(Line(s), s.cur, c)
             /\ t.hist = [s.hist EXCEPT ![s.ptr] = Line(t)]
             /\ t.row = s.row /\ t.col = s.col /\ t.prompt = s.prompt
             /\ t.ptr = s.ptr /\ t.pos = s.pos /\ t.cur = s.cur + 1
<1> DEFINE l == WithChar(Line(s), s.cur, c)
           w == WithLine(s, l)
           a == s.cur + 1
           t == [w EXCEPT !.cur = a]
<1>1. s \in Editor /\ s.ptr \in 1 .. Len(s.hist) /\ Line(s) \in Seq(Glyph) /\ s.cur \in 0 .. Len(Line(s))
      /\ s.pos \in 1 .. Len(s.hist) /\ Len(Line(s)) \in Nat
  BY LineIs DEF Editing
<1>2. l \in Seq(Glyph) /\ Len(l) = Len(Line(s)) + 1 
  <2> DEFINE k == Line(s)
             n == s.cur
  <2>1. k \in Seq(Glyph) /\ n \in 0 .. Len(k) BY <1>1
  <2> HIDE DEF k, n
  <2>2. WithChar(k, n, c) \in Seq(Glyph) /\ Len(WithChar(k, n, c)) = Len(k) + 1
    BY ONLY <2>1, c \in Glyph, InsertedIs
  <2> QED BY <2>2 DEF k, n
<1>i. Insert(s, c) = [WithLine(s, l) EXCEPT !.cur = @ + 1] BY DEF Insert, WithChar
<1> HIDE DEF l
<1>3. /\ w \in Editor /\ w = [s EXCEPT !.hist = [s.hist EXCEPT ![s.ptr] = l]]
      /\ Line(w) = l /\ Len(w.hist) = Len(s.hist)
  BY <1>1, <1>2, LineSet
<1> HIDE DEF w
<1>4. w.cur = s.cur /\ w.ptr = s.ptr /\ w.pos = s.pos /\ w.row = s.row /\ w.col = s.col
      /\ w.prompt = s.prompt /\ w.hist = [s.hist EXCEPT ![s.ptr] = l]
  BY <1>1, <1>3 DEF Editor
<1>5. Insert(s, c) = t BY <1>i, <1>4 DEF w
<1>6. a \in Nat BY <1>1
<1>7. a \in 0 .. Len(l) BY <1>1, <1>2
<1> HIDE DEF a
<1>8. /\ t \in Editor /\ t.cur = a /\ t.ptr = w.ptr /\ t.pos = w.pos /\ t.row = w.row
      /\ t.col = w.col /\ t.prompt = w.prompt /\ t.hist = w.hist
  BY <1>3, <1>6 DEF Editor
<1> HIDE DEF t
<1>9. Line(t) = l BY <1>3, <1>8 DEF Line
<1>10. Editing(t) BY <1>1, <1>3, <1>4, <1>7, <1>8, <1>9 DEF Editing
<1> QED BY <1>4, <1>5, <1>8, <1>9, <1>10 DEF a, l

\* A character that is appended, whatever the row shows meanwhile.
LEMMA AppendEdits ==
  ASSUME NEW s, Editing(s), NEW c \in Glyph, Room(s),
         s.cur # Len(Line(s)) =>
           DOMAIN s.row \subseteq 1 .. Len(s.prompt) + Len(Line(s)) + 1
  PROVE  LET t == AppendChar(s, c)
         IN  /\ Editing(t) /\ Line(t) = WithChar(Line(s), s.cur, c)
             /\ t.hist = [s.hist EXCEPT ![s.ptr] = Line(t)]
             /\ t.prompt = s.prompt /\ t.ptr = s.ptr /\ t.pos = s.pos
             /\ t.cur = s.cur + 1
             /\ s.cur = Len(Line(s)) => t.row = s.row /\ t.col = s.col
             /\ s.cur # Len(Line(s)) => Fit(t)
<1> DEFINE i == Insert(s, c)
<1>1. /\ Editing(i) /\ Line(i) = WithChar(Line(s), s.cur, c)
      /\ i.hist = [s.hist EXCEPT ![s.ptr] = Line(i)]
      /\ i.row = s.row /\ i.col = s.col /\ i.prompt = s.prompt
      /\ i.ptr = s.ptr /\ i.pos = s.pos /\ i.cur = s.cur + 1
  BY InsertEdits
<1>2. CASE s.cur = Len(Line(s)) BY <1>1, <1>2 DEF AppendChar
<1>3. CASE s.cur # Len(Line(s))
  <2>1. AppendChar(s, c) = ShowCmd(EraseInput(i)) BY <1>3 DEF AppendChar
  <2> HIDE DEF i
  <2>2. Len(Line(i)) = Len(Line(s)) + 1
    <3>1. Line(s) \in Seq(Glyph) /\ s.cur \in 0 .. Len(Line(s)) BY LineIs DEF Editing
    <3>2. Len(WithChar(Line(s), s.cur, c)) = Len(Line(s)) + 1 BY <3>1, InsertedIs
    <3> QED BY <3>2, <1>1
  <2>3. Within(i)
    <3>1. Len(s.prompt) \in Nat /\ Len(Line(s)) \in Nat BY LineIs
    <3>2. Len(s.prompt) + Len(Line(s)) + 1 = Len(i.prompt) + Len(Line(i))
      <4>1. i.prompt = s.prompt BY <1>1
      <4>2. \A p, k \in Nat : p + k + 1 = p + (k + 1) OBVIOUS
      <4> QED BY ONLY <3>1, <4>1, <4>2, <2>2
    <3> QED BY <1>1, <1>3, <3>2 DEF Within
  <2>4. EraseInput(i) = Emptied(i) BY <1>1, <2>3, EraseClears
  <2> DEFINE t == ShowCmd(Emptied(i))
  <2>5. Fit(t) /\ SameText(i, t) BY <1>1, Redrawn
  <2>6. AppendChar(s, c) = t BY <2>1, <2>4
  <2> HIDE DEF t
  <2>7. Line(t) = Line(i) BY <2>5 DEF SameText, Line
  <2> QED BY <1>1, <1>3, <2>5, <2>6, <2>7 DEF SameText, Fit
<1> QED BY <1>2, <1>3

\* A text whose line grows at its end.
LEMMA GrownText ==
  ASSUME NEW S, NEW p \in Seq(S), NEW k \in Seq(S), NEW c \in S
  PROVE  /\ WithChar(k, Len(k), c) = Append(k, c)
         /\ p \o WithChar(k, Len(k), c) = Append(p \o k, c)
<1> DEFINE l == WithChar(k, Len(k), c)
           a == Append(k, c)
           n == Len(k)
<1>1. n \in Nat /\ n \in 0 .. Len(k) OBVIOUS
<1>2. /\ WithChar(k, n, c) \in Seq(S) /\ Len(WithChar(k, n, c)) = Len(k) + 1
      /\ \A i \in 1 .. Len(k) + 1 : WithChar(k, n, c)[i] =
           IF i <= n THEN k[i] ELSE IF i = n + 1 THEN c ELSE k[i - 1]
  <2> HIDE DEF n
  <2> QED BY <1>1, InsertedIs
<1>3. l \in Seq(S) /\ Len(l) = n + 1 /\ \A i \in 1 .. n + 1 : l[i] = IF i <= n THEN k[i] ELSE c
  BY <1>1, <1>2
<1>4. a \in Seq(S) /\ Len(a) = n + 1 /\ \A i \in 1 .. n + 1 : a[i] = IF i <= n THEN k[i] ELSE c
  BY <1>1
<1> HIDE DEF l, a, n
<1>5. l = a
  <2>1. \A i \in 1 .. Len(l) : l[i] = a[i] BY <1>3, <1>4
  <2>2. Len(l) = Len(a) BY <1>3, <1>4
  <2> QED BY ONLY <1>3, <1>4, <2>1, <2>2, SeqEqual
<1>6. a = k \o <<c>> BY AppendIsConcat DEF a
<1>7. <<c>> \in Seq(S) /\ p \o k \in Seq(S) OBVIOUS
<1>8. (p \o k) \o <<c>> = p \o (k \o <<c>>)
  BY ONLY <1>7, p \in Seq(S), k \in Seq(S), ConcatAssociative
<1>9. Append(p \o k, c) = (p \o k) \o <<c>> BY ONLY <1>7, c \in S, AppendIsConcat
<1> QED BY <1>5, <1>6, <1>8, <1>9 DEF l, a

\* A key that is a character.
LEMMA CharFits ==
  ASSUME NEW s, Fit(s), NEW c \in Glyph
  PROVE  /\ Fit(Char(s, c))
         /\ Char(s, c) # s =>
              Char(s, c).hist = [s.hist EXCEPT ![s.ptr] = WithChar(Line(s), s.cur, c)]
<1>0. CASE ~Room(s) BY <1>0 DEF Char
<1>1. CASE Room(s)
  <2> DEFINE o == Out(s, <<c>>)
             t == AppendChar(o, c)
  <2>1. /\ s \in Editor /\ s.cur \in 0 .. Len(Line(s)) /\ Len(s.prompt) \in Nat
        /\ Len(Line(s)) \in Nat /\ Line(s) \in Seq(Glyph) /\ s.prompt \in Seq(Glyph)
        /\ Full(s) \in Seq(Glyph) /\ Len(Full(s)) = Len(s.prompt) + Len(Line(s))
        /\ s.col = Len(s.prompt) + s.cur /\ s.row = Cells(Full(s), 0)
    BY LineIs DEF Fit, Editing, Editor, Shows
  <2>2. Echoed(s, c, o)
    <3>1. s \in Editor BY <2>1
    <3> QED BY ONLY <3>1, c \in Glyph, EchoDraws
  <2> HIDE DEF o
  <2>3. /\ o.hist = s.hist /\ o.ptr = s.ptr /\ o.pos = s.pos /\ o.cur = s.cur
        /\ o.prompt = s.prompt /\ o.col = s.col + 1
    BY <2>1, <2>2 DEF Echoed, Editor
  <2>4. Line(o) = Line(s) BY <2>3 DEF Line
  <2>5. Editing(o) BY <2>2, <2>3, <2>4 DEF Editing, Echoed, Fit
  <2>6. Room(o) BY <1>1, <2>4 DEF Room
  <2>7. DOMAIN s.row \subseteq 1 .. Len(s.prompt) + Len(Line(s)) BY ShownWithin DEF Within
  <2>8. s.cur # Len(Line(s)) => DOMAIN o.row \subseteq 1 .. Len(o.prompt) + Len(Line(o)) + 1
    <3> SUFFICES ASSUME NEW i \in DOMAIN o.row
                 PROVE  i \in 1 .. Len(s.prompt) + Len(Line(s)) + 1
      BY <2>3, <2>4
    <3>1. i = s.col + 1 \/ i \in DOMAIN s.row BY <2>2 DEF Echoed
    <3>2. CASE i = s.col + 1 BY <3>2, <2>1
    <3>3. CASE i \in DOMAIN s.row BY <3>3, <2>1, <2>7
    <3> QED BY <3>1, <3>2, <3>3
  <2>9. /\ Editing(t) /\ Line(t) = WithChar(Line(o), o.cur, c)
        /\ t.hist = [o.hist EXCEPT ![o.ptr] = Line(t)]
        /\ t.prompt = o.prompt /\ t.ptr = o.ptr /\ t.pos = o.pos
        /\ t.cur = o.cur + 1
        /\ o.cur = Len(Line(o)) => t.row = o.row /\ t.col = o.col
        /\ o.cur # Len(Line(o)) => Fit(t)
    BY <2>3, <2>4, <2>5, <2>6, <2>8, AppendEdits
  <2>10. Char(s, c) = t BY <1>1 DEF Char, o
  <2> HIDE DEF t
  <2>11. t.hist = [s.hist EXCEPT ![s.ptr] = WithChar(Line(s), s.cur, c)] BY <2>3, <2>4, <2>9
  <2>12. ASSUME s.cur = Len(Line(s)) PROVE Shows(t)
    <3> DEFINE g == Full(s)
               f == Append(g, c)
               n == Len(Full(s))
    <3>1. Line(t) = WithChar(Line(s), Len(Line(s)), c) /\ t.prompt = s.prompt
      BY <2>3, <2>4, <2>9, <2>12
    <3>2. Full(t) = f
      <4> DEFINE p == s.prompt
                 k == Line(s)
      <4>1. p \in Seq(Glyph) /\ k \in Seq(Glyph) BY <2>1
      <4> HIDE DEF p, k
      <4>2. p \o WithChar(k, Len(k), c) = Append(p \o k, c)
        BY ONLY SMTT(30), <4>1, c \in Glyph, GrownText
      <4> QED BY <3>1, <4>2 DEF p, k, Full
    <3>3. g \in Seq(Glyph) BY <2>1
    <3> HIDE DEF g
    <3>4. f \in Seq(Glyph) /\ Len(f) = n + 1 BY <3>3 DEF g
    <3>5. \A i \in 1 .. n : f[i] = Full(s)[i] BY <3>3 DEF g
    <3>6. f[n + 1] = c BY <3>3 DEF g
    <3>7. s.col = n BY <2>1, <2>12
    <3>8. n \in Nat BY <2>1
    <3>9. /\ s.row \in Rows
          /\ \A i : i \in DOMAIN s.row <=> i \in 1 .. n /\ Full(s)[i] # Blank
          /\ \A i \in DOMAIN s.row : s.row[i] = Full(s)[i]
      <4>2. /\ Cells(g, 0) \in Rows
            /\ \A i : i \in DOMAIN Cells(g, 0) <=> i \in 1 .. Len(g) /\ g[i] # Blank
            /\ \A i \in DOMAIN Cells(g, 0) : Cells(g, 0)[i] = g[i]
        BY ONLY <3>3, RowOf
      <4> QED BY <2>1, <4>2 DEF g
    <3> HIDE DEF f, n
    <3>10. /\ Cells(f, 0) \in Rows
           /\ \A i : i \in DOMAIN Cells(f, 0) <=> i \in 1 .. Len(f) /\ f[i] # Blank
           /\ \A i \in DOMAIN Cells(f, 0) : Cells(f, 0)[i] = f[i]
      BY ONLY <3>4, RowOf
    <3>11. \A i : i \in 1 .. n + 1 <=> i \in 1 .. n \/ i = n + 1 BY <3>8
    <3>12. \A i : i \in 1 .. n => i # n + 1 BY <3>8
    <3>o. /\ \A i : i \in DOMAIN o.row <=> IF i = n + 1 THEN c # Blank ELSE i \in DOMAIN s.row
          /\ \A i \in DOMAIN o.row : o.row[i] = IF i = n + 1 THEN c ELSE s.row[i]
      BY <2>2, <3>7 DEF Echoed
    <3>c. /\ \A i : i \in DOMAIN Cells(f, 0) <=> i \in 1 .. n + 1 /\ f[i] # Blank
          /\ \A i \in DOMAIN Cells(f, 0) : Cells(f, 0)[i] = f[i]
      BY <3>4, <3>10
    <3> DEFINE d == Cells(f, 0)
               m == n + 1
               N == 1 .. n
               M == 1 .. n + 1
    <3> HIDE DEF d, m, N, M
    <3>13. DOMAIN o.row = DOMAIN d
      <4>1. \A i : i \in M <=> i \in N \/ i = m BY <3>11 DEF M, N, m
      <4>2. \A i : i \in N => i # m BY <3>12 DEF N, m
      <4>3. \A i : i \in DOMAIN o.row <=> IF i = m THEN c # Blank ELSE i \in DOMAIN s.row
        BY <3>o DEF m
      <4>4. \A i : i \in DOMAIN d <=> i \in M /\ f[i] # Blank BY <3>c DEF d, M
      <4>5. \A i : i \in DOMAIN s.row <=> i \in N /\ Full(s)[i] # Blank BY <3>9 DEF N
      <4>6. \A i \in N : f[i] = Full(s)[i] BY <3>5 DEF N
      <4>7. f[m] = c BY <3>6 DEF m
      <4> QED BY ONLY <4>1, <4>2, <4>3, <4>4, <4>5, <4>6, <4>7
    <3>14. \A i \in DOMAIN o.row : o.row[i] = Cells(f, 0)[i]
      <4> TAKE i \in DOMAIN o.row
      <4>1. i \in DOMAIN Cells(f, 0) BY <3>13 DEF d
      <4>2. CASE i = n + 1 BY <4>1, <4>2, <3>o, <3>c, <3>6
      <4>3. CASE i # n + 1
        <5>1. i \in DOMAIN s.row BY <4>3, <3>o
        <5>2. o.row[i] = Full(s)[i] BY <5>1, <4>3, <3>o, <3>9
        <5>3. i \in 1 .. n BY <5>1, <3>9
        <5> QED BY <5>2, <5>3, <4>1, <3>c, <3>5
      <4> QED BY <4>2, <4>3
    <3>15. o.row = Cells(f, 0) BY <2>2, <3>10, <3>13, <3>14, RowsEqual DEF Echoed, d
    <3>16. t.row = Cells(Full(t), 0) BY <2>3, <2>4, <2>9, <2>12, <3>2, <3>15 DEF f
    <3>17. t.col = Len(t.prompt) + t.cur
      <4>1. t.col = s.col + 1 /\ t.cur = s.cur + 1 BY <2>3, <2>4, <2>9, <2>12
      <4>2. \A p, k \in Nat : (p + k) + 1 = p + (k + 1) OBVIOUS
      <4>3. s.cur \in Nat BY <2>1
      <4> QED BY <2>1, <3>1, <4>1, <4>2, <4>3
    <3> QED BY <3>16, <3>17 DEF Shows
  <2> QED BY <2>3, <2>4, <2>9, <2>10, <2>11, <2>12 DEF Fit
<1> QED BY <1>0, <1>1

\* Backspace: the rest of the line is written one column to the left, and a
\* blank behind it.
LEMMA BackSpaceFits ==
  ASSUME NEW s, Fit(s)
  PROVE  /\ Fit(ParseBackSpace(s))
         /\ \/ ParseBackSpace(s).hist = s.hist
            \/ /\ s.cur \in 1 .. Len(Line(s))
               /\ ParseBackSpace(s).hist = [s.hist EXCEPT ![s.ptr] = RemoveAt(Line(s), s.cur)]
<1>1. /\ s \in Editor /\ s.cur \in 0 .. Len(Line(s)) /\ Len(Line(s)) \in Nat
      /\ Line(s) \in Seq(Glyph) /\ Editing(s) /\ s.ptr \in 1 .. Len(s.hist)
  BY LineIs DEF Fit, Editing
<1>2. EraseInput(s) = Emptied(s) BY <1>1, ShownWithin, EraseClears
<1>3. CASE Line(s) = <<>> BY <1>3 DEF ParseBackSpace
<1>4. CASE Line(s) # <<>> /\ s.cur = 0
  BY <1>1, <1>2, <1>4, Redrawn DEF ParseBackSpace, SameText
<1>5. CASE Line(s) # <<>> /\ s.cur # 0
  <2> DEFINE l == RemoveAt(Line(s), s.cur)
             w == WithLine(s, l)
             a == s.cur - 1
             t == [w EXCEPT !.cur = a]
  <2>1. s.cur \in 1 .. Len(Line(s)) BY <1>1, <1>5
  <2>2. l \in Seq(Glyph) /\ Len(l) = Len(Line(s)) - 1
    <3> DEFINE k == Line(s)
               n == s.cur
               p == SubSeq(k, 1, n - 1)
               q == SubSeq(k, n + 1, Len(k))
    <3>1. k \in Seq(Glyph) /\ n \in 1 .. Len(k) /\ Len(k) \in Nat BY <1>1, <2>1
    <3> HIDE DEF k, n
    <3>2. p \in Seq(Glyph) /\ Len(p) = n - 1 BY <3>1
    <3>3. q \in Seq(Glyph) /\ Len(q) = Len(k) - n BY <3>1
    <3>4. l = p \o q BY DEF RemoveAt, k, n
    <3> HIDE DEF p, q
    <3>5. p \o q \in Seq(Glyph) /\ Len(p \o q) = Len(p) + Len(q)
      BY ONLY <3>2, <3>3, ConcatProperties
    <3>6. (n - 1) + (Len(k) - n) = Len(k) - 1 BY ONLY <3>1
    <3> QED BY <3>2, <3>3, <3>4, <3>5, <3>6 DEF k
  <2> HIDE DEF l
  <2>3. /\ w \in Editor /\ w = [s EXCEPT !.hist = [s.hist EXCEPT ![s.ptr] = l]]
        /\ Line(w) = l /\ Len(w.hist) = Len(s.hist)
    BY <1>1, <2>2, LineSet
  <2>4. WithLine(Emptied(s), l) = Emptied(w)
    BY <1>1, <2>3 DEF WithLine, Emptied, Editor
  <2> HIDE DEF w
  <2>5. /\ w.cur = s.cur /\ w.ptr = s.ptr /\ w.pos = s.pos /\ w.hist = [s.hist EXCEPT ![s.ptr] = l]
    BY <1>1, <2>3 DEF Editor
  <2>6. Emptied(w).cur = s.cur BY <2>3, <2>5 DEF Emptied, Editor
  <2>7. ParseBackSpace(s) = ShowCmd([Emptied(w) EXCEPT !.cur = a])
    BY <1>2, <1>5, <2>4, <2>6 DEF ParseBackSpace, l
  <2>8. a \in Nat /\ a \in 0 .. Len(l) BY <1>1, <2>1, <2>2
  <2> HIDE DEF a
  <2>9. [Emptied(w) EXCEPT !.cur = a] = Emptied(t) BY <2>3 DEF Emptied, Editor
  <2>10. t \in Editor /\ t.cur = a /\ t.ptr = w.ptr /\ t.pos = w.pos /\ t.hist = w.hist
    BY <2>3, <2>8 DEF Editor
  <2> HIDE DEF t
  <2>11. Line(t) = l BY <2>3, <2>10 DEF Line
  <2>12. Editing(t) BY <1>1, <2>3, <2>5, <2>8, <2>10, <2>11 DEF Editing
  <2>13. Fit(ParseBackSpace(s)) /\ ParseBackSpace(s).hist = t.hist
    BY <2>7, <2>9, <2>12, Redrawn DEF SameText
  <2> QED BY <2>1, <2>5, <2>10, <2>13 DEF l
<1> QED BY <1>3, <1>4, <1>5

-----------------------------------------------------------------------------
(* The next line                                                           *)

\* the lines there are were typed; a line comes back marked; a new prompt
AllTyped(s) == \A i \in 1 .. Len(s.hist) : s.hist[i] \in Lines
Marked(l) == l # <<>> /\ Last(l) \in {Ask, Complete}
Prompted(s, p) == [s EXCEPT !.prompt = p]

\* The prompt is that of another view.
LEMMA PromptSet ==
  ASSUME NEW s, Editing(s), NEW p \in Seq(Glyph)
  PROVE  /\ Editing(Prompted(s, p)) /\ Line(Prompted(s, p)) = Line(s)
         /\ Prompted(s, p).hist = s.hist /\ Prompted(s, p).ptr = s.ptr
<1> DEFINE t == Prompted(s, p)
<1>1. s \in Editor BY DEF Editing
<1>2. t \in Editor /\ t.hist = s.hist /\ t.ptr = s.ptr /\ t.pos = s.pos /\ t.cur = s.cur
  BY <1>1 DEF Editor, Prompted
<1> HIDE DEF t
<1>3. Line(t) = Line(s) BY <1>2 DEF Line
<1>4. Editing(t) BY <1>2, <1>3 DEF Editing
<1> QED BY <1>2, <1>3, <1>4 DEF t

\* A line is what was typed, within the bound.
LEMMA LinesAre ==
  /\ \A l : l \in Lines <=> l \in Seq(Typed) /\ Len(l) <= MaxLine
  /\ MaxLine \in Nat /\ MaxInput \in Nat /\ MaxInput <= MaxLine
<1>1. MaxLine \in Nat /\ MaxInput \in Nat /\ MaxInput <= MaxLine
  BY MaxInputAssumption, ShellAssumption
<1>2. ASSUME NEW l \in Lines PROVE l \in Seq(Typed) /\ Len(l) <= MaxLine
  <2>1. PICK n \in 0 .. MaxLine : l \in [1 .. n -> Typed] BY DEF Lines
  <2>2. n \in Nat /\ n <= MaxLine BY <1>1, <2>1
  <2>3. l \in Seq(Typed) /\ Len(l) = n BY <2>1, <2>2
  <2> QED BY <2>2, <2>3
<1>3. ASSUME NEW l \in Seq(Typed), Len(l) <= MaxLine PROVE l \in Lines
  <2>1. Len(l) \in 0 .. MaxLine BY <1>1, <1>3
  <2>2. l \in [1 .. Len(l) -> Typed] BY <1>3
  <2> QED BY <2>1, <2>2 DEF Lines
<1> QED BY <1>1, <1>2, <1>3

\* What is typed can be shown.
LEMMA TypedGlyphs == Seq(Typed) \subseteq Seq(Glyph) /\ Lines \subseteq Seq(Typed)
<1>1. Typed \subseteq Glyph BY DEF Glyph
<1>2. Seq(Typed) \subseteq Seq(Glyph) BY ONLY <1>1, SeqMonotonic
<1> QED BY <1>2, LinesAre

\* A line that has nothing in it is one.
LEMMA EmptyLine == <<>> \in Lines
<1>1. <<>> \in Seq(Typed) /\ Len(<<>>) = 0 OBVIOUS
<1>2. 0 <= MaxLine
  <2>1. MaxLine \in Nat BY LinesAre
  <2> QED BY <2>1
<1>3. <<>> \in Seq(Typed) /\ Len(<<>>) <= MaxLine BY <1>1, <1>2
<1> QED BY <1>3, LinesAre

\* A line that is given back.
LEMMA LineGivenBack ==
  ASSUME NEW s, Editing(s), NEW x, Marked(x), Front(x) \in Seq(Typed), AllTyped(s)
  PROVE  /\ Fit(NextLine(s, x)) /\ Line(NextLine(s, x)) = Front(x)
         /\ Len(Front(x)) <= MaxLine => AllTyped(NextLine(s, x))
<1> DEFINE l == Front(x)
           w == WithLine(s, l)
           a == Len(l)
           t == [w EXCEPT !.cur = a]
           n == ShowCmd(CrLf(t))
<1>1. s \in Editor /\ s.ptr \in 1 .. Len(s.hist) /\ s.pos \in 1 .. Len(s.hist) BY DEF Editing
<1>2. l \in Seq(Typed) /\ l \in Seq(Glyph) BY TypedGlyphs
<1>3. NextLine(s, x) = RedoCurrLine(CrLf(w)) BY DEF NextLine, Marked
<1> HIDE DEF l
<1>4. /\ w \in Editor /\ w = [s EXCEPT !.hist = [s.hist EXCEPT ![s.ptr] = l]]
      /\ Line(w) = l /\ Len(w.hist) = Len(s.hist)
      /\ \A i \in 1 .. Len(s.hist) : i # s.ptr => w.hist[i] = s.hist[i]
  BY <1>1, <1>2, LineSet
<1>5. w.ptr = s.ptr /\ w.pos = s.pos BY <1>1, <1>4 DEF Editor
<1> HIDE DEF w
<1>6. Line(CrLf(w)) = l BY <1>4 DEF CrLf, Line, Editor
<1>7. RedoCurrLine(CrLf(w)) = n BY <1>4, <1>6 DEF RedoCurrLine, CrLf, Editor
<1>8. a \in Nat BY <1>2
<1>9. a \in 0 .. Len(l) BY <1>8
<1>10. t \in Editor /\ t.cur = a /\ t.ptr = w.ptr /\ t.pos = w.pos /\ t.hist = w.hist
  <2> HIDE DEF a
  <2> QED BY <1>4, <1>8 DEF Editor
<1> HIDE DEF t
<1>11. Line(t) = l BY <1>4, <1>10 DEF Line
<1>12. Editing(t) BY <1>1, <1>4, <1>5, <1>9, <1>10, <1>11 DEF Editing
<1>13. Fit(n) /\ SameText(t, n) BY <1>12, Redrawn
<1> HIDE DEF n
<1>14. Line(n) = l BY <1>11, <1>13 DEF SameText, Line
<1>15. ASSUME Len(l) <= MaxLine PROVE AllTyped(n)
  <2> SUFFICES ASSUME NEW i \in 1 .. Len(n.hist) PROVE n.hist[i] \in Lines BY DEF AllTyped
  <2>1. n.hist = w.hist /\ n.ptr = s.ptr BY <1>5, <1>10, <1>13 DEF SameText
  <2>2. l \in Lines BY <1>2, <1>15, LinesAre
  <2>3. CASE i = s.ptr BY <2>1, <2>2, <2>3, <1>14 DEF Line
  <2>4. CASE i # s.ptr
    <3>1. i \in 1 .. Len(s.hist) BY <2>1, <1>4
    <3> QED BY <3>1, <2>1, <2>4, <1>4 DEF AllTyped
  <2> QED BY <2>3, <2>4
<1> QED BY <1>3, <1>7, <1>13, <1>14, <1>15 DEF l

\* A line that is done with.
LEMMA LineEnded ==
  ASSUME NEW s, Editing(s), AllTyped(s), NEW x, ~Marked(x)
  PROVE  /\ Fit(NextLine(s, x)) /\ AllTyped(NextLine(s, x))
         /\ \/ Line(s) = <<>>
            \/ \E i \in DOMAIN NextLine(s, x).hist : NextLine(s, x).hist[i] = Line(s)
<1> DEFINE a == AppendHistory(s)
<1>1. /\ s \in Editor /\ s.ptr \in 1 .. Len(s.hist) /\ s.hist \in Seq(Seq(Glyph))
      /\ Len(s.hist) \in Nat /\ 1 \in 1 .. Len(s.hist) /\ Line(s) \in Lines
      /\ Line(s) \in Seq(Glyph) /\ Line(s) = s.hist[s.ptr]
  BY TypedGlyphs DEF Editing, Editor, AllTyped, Line
<1>2. NextLine(s, x) = NewLine(a) BY DEF NextLine, Marked
<1>3. /\ a \in Editor /\ a.ptr = s.ptr /\ Len(a.hist) = Len(s.hist) /\ Line(a) = Line(s)
      /\ AllTyped(a) /\ a.hist \in Seq(Seq(Glyph))
  <2>1. CASE s.pos = 1 BY <2>1, <1>1 DEF AppendHistory
  <2>2. CASE s.pos # 1
    <3> DEFINE h == [s.hist EXCEPT ![1] = Line(s)]
    <3>1. /\ h \in Seq(Seq(Glyph)) /\ Len(h) = Len(s.hist)
          /\ \A i \in 1 .. Len(s.hist) : h[i] = IF i = 1 THEN Line(s) ELSE s.hist[i]
      BY <1>1
    <3>2. a = [s EXCEPT !.hist = h] BY <2>2 DEF AppendHistory
    <3> HIDE DEF h
    <3>3. a \in Editor /\ a.hist = h /\ a.ptr = s.ptr BY <3>1, <3>2, <1>1 DEF Editor
    <3>4. Line(a) = Line(s) BY <3>1, <3>3, <1>1 DEF Line
    <3>5. AllTyped(a) BY <3>1, <3>3, <1>1 DEF AllTyped
    <3> QED BY <3>1, <3>3, <3>4, <3>5
  <2> QED BY <2>1, <2>2
<1> HIDE DEF a
<1>e. <<>> \in Lines /\ <<>> \in Seq(Glyph) BY EmptyLine
<1>4. CASE Line(s) = <<>>
  <2>1. NewLine(a) = ResetCmd(a) BY <1>3, <1>4 DEF NewLine
  <2>2. Fit(ResetCmd(a)) /\ ResetCmd(a).hist = [a.hist EXCEPT ![a.ptr] = <<>>]
    BY <1>1, <1>3, ResetFits
  <2> DEFINE r == ResetCmd(a)
  <2>3. AllTyped(r)
    <3> HIDE DEF r
    <3>1. r.hist = [a.hist EXCEPT ![a.ptr] = <<>>] BY <2>2 DEF r
    <3>2. /\ a.hist \in Seq(Seq(Glyph)) /\ Len(a.hist) = Len(s.hist)
          /\ \A i \in 1 .. Len(a.hist) : a.hist[i] \in Lines
      BY <1>3 DEF AllTyped
    <3>3. DOMAIN a.hist = 1 .. Len(a.hist) BY <3>2
    <3>4. DOMAIN r.hist = 1 .. Len(a.hist) BY <3>1, <3>3
    <3>5. Len(r.hist) = Len(a.hist)
      <4>1. Len(a.hist) \in Nat BY <1>1, <3>2
      <4> QED BY <4>1, <3>4, <3>1, <3>2
    <3>6. ASSUME NEW i \in 1 .. Len(a.hist) PROVE r.hist[i] \in Lines
      <4>1. r.hist[i] = IF i = a.ptr THEN <<>> ELSE a.hist[i] BY <3>1, <3>3
      <4> QED BY <4>1, <3>2, <1>e
    <3> QED BY <3>5, <3>6 DEF AllTyped
  <2> QED BY <1>2, <1>4, <2>1, <2>2, <2>3
<1>5. CASE Line(s) # <<>>
  <2> DEFINE h == << <<>> >> \o a.hist
             n == [a EXCEPT !.hist = h, !.ptr = 1]
             r == ResetCmd(n)
  <2>1. NewLine(a) = r BY <1>3, <1>5 DEF NewLine
  <2>2. /\ h \in Seq(Seq(Glyph)) /\ Len(h) = Len(a.hist) + 1
        /\ \A i \in 1 .. Len(a.hist) + 1 : h[i] = IF i = 1 THEN <<>> ELSE a.hist[i - 1]
    <3> DEFINE e == << <<>> >>
               g == a.hist
    <3>1. e \in Seq(Seq(Glyph)) /\ Len(e) = 1 /\ e[1] = <<>> BY <1>e
    <3>2. g \in Seq(Seq(Glyph)) /\ Len(g) \in Nat BY <1>3
    <3> HIDE DEF e, g
    <3>3. /\ e \o g \in Seq(Seq(Glyph)) /\ Len(e \o g) = Len(e) + Len(g)
          /\ \A i \in 1 .. Len(e) + Len(g) : (e \o g)[i] = IF i <= Len(e) THEN e[i] ELSE g[i - Len(e)]
      BY ONLY <3>1, <3>2, ConcatProperties
    <3>4. Len(e) + Len(g) = Len(g) + 1 BY <3>1, <3>2
    <3>5. \A i \in 1 .. Len(g) + 1 : i <= 1 <=> i = 1 BY <3>2
    <3>6. \A i \in 1 .. Len(g) + 1 : (e \o g)[i] = IF i = 1 THEN <<>> ELSE g[i - 1]
      BY <3>1, <3>3, <3>4, <3>5
    <3> QED BY <3>3, <3>4, <3>6 DEF e, g
  <2> HIDE DEF h
  <2>3. n \in Editor /\ n.hist = h /\ n.ptr = 1 BY <1>3, <2>2 DEF Editor
  <2>4. n.ptr \in 1 .. Len(n.hist) BY <1>1, <1>3, <2>2, <2>3
  <2> HIDE DEF n
  <2>5. Fit(r) /\ r.hist = [h EXCEPT ![1] = <<>>] BY <2>3, <2>4, ResetFits
  <2> HIDE DEF r
  <2>6. /\ Len(r.hist) = Len(s.hist) + 1 /\ DOMAIN r.hist = 1 .. Len(s.hist) + 1
        /\ \A i \in 1 .. Len(s.hist) + 1 : r.hist[i] = IF i = 1 THEN <<>> ELSE a.hist[i - 1]
    <3>1. Len(h) = Len(s.hist) + 1 /\ 1 \in 1 .. Len(h) BY <1>1, <1>3, <2>2
    <3>2. /\ Len([h EXCEPT ![1] = <<>>]) = Len(h)
          /\ \A i \in 1 .. Len(h) : [h EXCEPT ![1] = <<>>][i] = IF i = 1 THEN <<>> ELSE h[i]
      BY <2>2, <3>1, <1>e
    <3>3. DOMAIN r.hist = 1 .. Len(h) BY <2>2, <2>5
    <3>4. \A i \in 1 .. Len(h) : r.hist[i] = IF i = 1 THEN <<>> ELSE a.hist[i - 1]
      BY <1>3, <2>2, <2>5, <3>1, <3>2
    <3> QED BY <2>5, <3>1, <3>2, <3>3, <3>4
  <2>7. AllTyped(r)
    <3> SUFFICES ASSUME NEW i \in 1 .. Len(s.hist) + 1 PROVE r.hist[i] \in Lines
      BY <2>6 DEF AllTyped
    <3>1. CASE i = 1 BY <3>1, <2>6, <1>e
    <3>2. CASE i # 1
      <4>1. i - 1 \in 1 .. Len(a.hist) BY <3>2, <1>1, <1>3
      <4> QED BY <4>1, <3>2, <2>6, <1>3 DEF AllTyped
    <3> QED BY <3>1, <3>2
  <2>8. r.hist[s.ptr + 1] = Line(s) /\ s.ptr + 1 \in DOMAIN r.hist
    <3>1. s.ptr + 1 \in 1 .. Len(s.hist) + 1 /\ s.ptr + 1 # 1 /\ (s.ptr + 1) - 1 = s.ptr BY <1>1
    <3>2. a.hist[s.ptr] = Line(s) BY <1>3 DEF Line
    <3> QED BY <3>1, <3>2, <2>6
  <2> QED BY <1>2, <2>1, <2>5, <2>7, <2>8
<1> QED BY <1>4, <1>5

-----------------------------------------------------------------------------
(* The loop                                                                *)

\* The screen shows an editor that is in range.
ShellInv == Fit(input) /\ AllTyped(input) /\ tree \in Trees

\* A question mark and a TAB can be in a line, and not in "exit".
LEMMA MarksTyped ==
  /\ \A c \in {Ask, Complete} : c \in Typed /\ c \in Glyph /\ c \notin Chars
  /\ \A l \in Seq(Typed) : Marked(l) => Front(l) \in Seq(Typed)
<1>1. \A c \in {Ask, Complete} : c \in Typed /\ c \in Glyph /\ c \notin Chars
  BY ShellAssumption DEF Typed, Glyph
<1>2. \A l \in Seq(Typed) : Marked(l) => Front(l) \in Seq(Typed) BY DEF Marked, Front
<1> QED BY <1>1, <1>2

\* Prompts can be shown.
LEMMA PromptIs == ASSUME NEW p \in Prompts PROVE p \in Seq(Glyph)
<1>1. p \in Seq(STRING) /\ STRING \subseteq Glyph BY ShellAssumption DEF Glyph
<1> QED BY ONLY <1>1, SeqMonotonic

\* A line starts with itself.
LEMMA PrefixOfItself ==
  ASSUME NEW S, NEW l \in Seq(S)
  PROVE  IsPrefix(l, l)
BY DEF IsPrefix

\* A line with another character in it is one, if there was room.
LEMMA LineGrown ==
  ASSUME NEW k \in Lines, NEW n \in 0 .. Len(k), NEW c \in Typed, Len(k) < MaxInput
  PROVE  WithChar(k, n, c) \in Lines
<1>1. k \in Seq(Typed) /\ Len(k) \in Nat BY LinesAre
<1>2. WithChar(k, n, c) \in Seq(Typed) /\ Len(WithChar(k, n, c)) = Len(k) + 1
  BY <1>1, InsertedIs
<1>3. Len(k) + 1 <= MaxLine BY <1>1, LinesAre
<1> QED BY <1>2, <1>3, LinesAre

\* A line comes back as it is or completed, or is done with.
LEMMA GoOnKeeps ==
  ASSUME NEW s, Editing(s), AllTyped(s), NEW p \in Prompts,
         NEW x, Completes(x, Line(s)), GoOn(s, x, p)
  PROVE  Fit(input') /\ AllTyped(input') /\ Kept(Line(s))
<1> DEFINE q == Prompted(s, p)
           l == Line(s)
<1>1. Editing(q) /\ Line(q) = l /\ q.hist = s.hist /\ q.ptr = s.ptr
  BY PromptIs, PromptSet
<1>2. input' = NextLine(q, x) /\ Len(Line(input')) <= MaxLine BY DEF GoOn, Prompted
<1>3. l \in Seq(Typed) BY TypedGlyphs DEF Line, AllTyped, Editing
<1>4. AllTyped(q) BY <1>1 DEF AllTyped
<1>5. Completes(x, l) OBVIOUS
<1> HIDE DEF q, l
<1>6. ASSUME Marked(x), Front(x) \in Seq(Typed), IsPrefix(Bare(l), Front(x))
      PROVE  Fit(input') /\ AllTyped(input') /\ Kept(l)
  <2>1. Fit(input') /\ Line(input') = Front(x) /\ (Len(Front(x)) <= MaxLine => AllTyped(input'))
    BY <1>1, <1>2, <1>4, <1>6, LineGivenBack
  <2>2. AllTyped(input') BY <1>2, <2>1
  <2>3. IsPrefix(Bare(l), Line(input)') BY <1>6, <2>1
  <2> QED BY <2>1, <2>2, <2>3 DEF Kept
<1>7. CASE x = l /\ Marked(l)
  <2>1. Front(x) \in Seq(Typed) BY <1>3, <1>7, MarksTyped
  <2>2. Bare(l) = Front(x) BY <1>7 DEF Bare, Marked
  <2>3. IsPrefix(Bare(l), Front(x)) BY <2>1, <2>2, PrefixOfItself
  <2> QED BY <1>6, <1>7, <2>1, <2>3 DEF l
<1>8. CASE x = l /\ ~Marked(l)
  <2>1. /\ Fit(input') /\ AllTyped(input')
        /\ Line(q) = <<>> \/ \E i \in DOMAIN input'.hist : input'.hist[i] = Line(q)
    BY <1>1, <1>2, <1>4, <1>8, LineEnded
  <2>2. CASE l = <<>>
    <3>1. Bare(l) = <<>> BY <2>2 DEF Bare
    <3>2. Line(input') \in Seq(Glyph) BY <2>1, LineIs DEF Fit
    <3>3. IsPrefix(<<>>, Line(input')) BY <3>2 DEF IsPrefix
    <3> QED BY <2>1, <3>1, <3>3 DEF Kept, l
  <2> QED BY <2>1, <2>2, <1>1 DEF Kept, l
<1>9. CASE x # l
  <2>1. x \in Seq(Typed) /\ x # <<>> /\ Last(x) = Complete /\ IsPrefix(Bare(l), Front(x))
    BY <1>5, <1>9 DEF Completes
  <2>2. Marked(x) BY <2>1 DEF Marked
  <2>3. Front(x) \in Seq(Typed) BY <2>1, <2>2, MarksTyped
  <2> QED BY <1>6, <2>1, <2>2, <2>3 DEF l
<1> QED BY <1>7, <1>8, <1>9

\* What follows when ReadLine returns a line.
LEMMA ReturnedKeeps ==
  ASSUME NEW s, Editing(s), AllTyped(s), tree \in Trees, Returned(s), Line(s) # Exit
  PROVE  ShellInv' /\ Kept(Line(s))
<1> DEFINE l == Line(s)
<1>1. l \in Lines BY DEF Line, AllTyped, Editing
<1>2. Completes(l, l) BY DEF Completes
<1>3. Completes(Parsed(l), l)
  <2>1. CASE ~HasTab(l) BY <2>1, <1>2 DEF Parsed
  <2>2. CASE HasTab(l)
    <3>1. Completes(GivenBack(tree, l), l) BY <1>1, <2>2, ParserAssumption
    <3> QED BY <3>1, <2>2 DEF Parsed
  <2> QED BY <2>1, <2>2
<1>4. PICK p \in Prompts : \E x \in {l, Parsed(l)} : tree' \in Trees /\ GoOn(s, x, p)
  BY DEF Returned, RenewCmds
<1>5. PICK x \in {l, Parsed(l)} : tree' \in Trees /\ GoOn(s, x, p) BY <1>4
<1>6. Completes(x, Line(s)) BY <1>2, <1>3, <1>5
<1>7. Fit(input') /\ AllTyped(input') /\ Kept(Line(s)) BY <1>5, <1>6, GoOnKeeps
<1> QED BY <1>5, <1>7 DEF ShellInv

\* Enter, or nothing for a second.
LEMMA EnterKeeps ==
  ASSUME ShellInv, Enter \/ Timeout
  PROVE  ShellInv' /\ Kept(Line(input))
<1> DEFINE l == Line(input)
<1>1. Editing(input) /\ AllTyped(input) /\ tree \in Trees /\ l \in Seq(Typed)
  BY TypedGlyphs DEF ShellInv, Fit, Line, AllTyped, Editing
<1>2. CASE Leave(input)
  <2>1. ShellInv' BY <1>2 DEF Leave, ShellInv
  <2>2. IsPrefix(Bare(l), l)
    <3>1. CASE Marked(l)
      <4>1. Bare(l) = SubSeq(l, 1, Len(l) - 1) BY <3>1 DEF Bare, Marked, Front
      <4>2. Len(l) \in Nat \ {0} BY <1>1, <3>1 DEF Marked
      <4> QED BY <1>1, <4>1, <4>2 DEF IsPrefix
    <3>2. CASE ~Marked(l) BY <1>1, <3>2, PrefixOfItself DEF Bare, Marked
    <3> QED BY <3>1, <3>2
  <2>3. Line(input)' = l BY <1>2 DEF Leave
  <2> QED BY <2>1, <2>2, <2>3 DEF Kept
<1>3. CASE RenewCmds(input)
  <2>1. PICK p \in Prompts : GoOn(input, l, p) /\ tree' \in Trees BY <1>3 DEF RenewCmds
  <2>2. Completes(l, Line(input)) BY DEF Completes
  <2>3. Fit(input') /\ AllTyped(input') /\ Kept(l) BY <1>1, <2>1, <2>2, GoOnKeeps
  <2> QED BY <2>1, <2>3 DEF ShellInv
<1>4. CASE Returned(input) /\ Line(input) # Exit BY <1>1, <1>4, ReturnedKeeps
<1> QED BY <1>2, <1>3, <1>4 DEF Enter, Timeout, Returned

\* A question mark or a TAB, at the cursor: the line has it, and is parsed.
LEMMA MarkKeeps ==
  ASSUME ShellInv, NEW c \in {Ask, Complete}, Room(input), Returned(AppendChar(input, c))
  PROVE  ShellInv' /\ Kept(Line(AppendChar(input, c)))
<1> DEFINE s == AppendChar(input, c)
           k == Line(input)
           n == input.cur
<1>1. c \in Glyph /\ c \in Typed /\ c \notin Chars BY MarksTyped
<1>2. Editing(input) /\ Fit(input) /\ AllTyped(input) /\ tree \in Trees BY DEF ShellInv, Fit
<1>3. n # Len(k) =>
        DOMAIN input.row \subseteq 1 .. Len(input.prompt) + Len(k) + 1
  <2>1. DOMAIN input.row \subseteq 1 .. Len(input.prompt) + Len(k)
    BY <1>2, ShownWithin DEF Within
  <2>2. Len(input.prompt) \in Nat /\ Len(k) \in Nat BY <1>2, LineIs
  <2>3. \A a, b \in Nat : 1 .. a + b \subseteq 1 .. a + b + 1 OBVIOUS
  <2> QED BY <2>1, <2>2, <2>3
<1>4. /\ Editing(s) /\ Line(s) = WithChar(k, n, c)
      /\ s.hist = [input.hist EXCEPT ![input.ptr] = Line(s)] /\ s.ptr = input.ptr
  BY <1>1, <1>2, <1>3, AppendEdits
<1>5. k \in Lines /\ n \in 0 .. Len(k) /\ k \in Seq(Glyph) /\ Len(k) < MaxInput
  BY <1>2, LineIs DEF Editing, AllTyped, Line, Room
<1>6. Returned(s) OBVIOUS
<1> HIDE DEF s, k, n
<1>7. WithChar(k, n, c) \in Lines BY <1>1, <1>5, LineGrown
<1>8. WithChar(k, n, c) # Exit
  <2>1. /\ WithChar(k, n, c) \in Seq(Glyph) /\ Len(WithChar(k, n, c)) = Len(k) + 1
        /\ \A i \in 1 .. Len(k) + 1 : WithChar(k, n, c)[i] =
             IF i <= n THEN k[i] ELSE IF i = n + 1 THEN c ELSE k[i - 1]
    BY <1>1, <1>5, InsertedIs
  <2>2. n + 1 \in 1 .. Len(k) + 1 /\ ~(n + 1 <= n) BY <1>5
  <2>3. WithChar(k, n, c)[n + 1] = c /\ n + 1 \in DOMAIN WithChar(k, n, c) BY <2>1, <2>2
  <2>4. Exit \in Seq(Chars) BY ShellAssumption
  <2>5. \A i \in DOMAIN Exit : Exit[i] \in Chars BY <2>4
  <2> QED BY <1>1, <2>3, <2>5
<1>9. AllTyped(s)
  <2>1. input.hist \in Seq(Seq(Glyph)) /\ input.ptr \in 1 .. Len(input.hist)
    BY <1>2 DEF Editing, Editor
  <2>2. \A i \in 1 .. Len(input.hist) : input.hist[i] \in Lines BY <1>2 DEF AllTyped
  <2> QED BY <1>4, <1>7, <2>1, <2>2 DEF AllTyped
<1> QED BY <1>2, <1>4, <1>6, <1>8, <1>9, ReturnedKeeps DEF s

\* The keys that stay in the line.
LEMMA ReadFits ==
  ASSUME ShellInv, (\E c \in Chars : Key(c)) \/ BackSpace \/ CtrlC \/ Arrow \/ Skipped
  PROVE  ShellInv'
<1>1. /\ Fit(input) /\ Editing(input) /\ AllTyped(input) /\ tree \in Trees
      /\ input \in Editor /\ input.ptr \in 1 .. Len(input.hist)
      /\ input.pos \in 1 .. Len(input.hist) /\ Len(input.hist) \in Nat
      /\ input.hist \in Seq(Seq(Glyph)) /\ input.cur \in 0 .. Len(Line(input))
      /\ Line(input) \in Lines /\ \A i \in 1 .. Len(input.hist) : input.hist[i] \in Lines
  BY DEF ShellInv, Fit, Editing, Editor, AllTyped, Line
<1>2. ASSUME NEW s, Read(s), Fit(s),
             s.hist = input.hist \/ \E l \in Lines : s.hist = [input.hist EXCEPT ![input.ptr] = l]
      PROVE  ShellInv'
  <2>1. AllTyped(s)
    <3>1. CASE s.hist = input.hist BY <1>1, <3>1 DEF AllTyped
    <3>2. ASSUME NEW l \in Lines, s.hist = [input.hist EXCEPT ![input.ptr] = l]
          PROVE  AllTyped(s)
      BY <1>1, <3>2 DEF AllTyped
    <3> QED BY <3>1, <3>2, <1>2
  <2> QED BY <1>1, <1>2, <2>1 DEF Read, ShellInv
<1>3. ASSUME NEW c \in Chars, Key(c) PROVE ShellInv'
  <2> DEFINE s == Char(input, c)
             k == Line(input)
             n == input.cur
  <2>1. c \in Glyph /\ c \in Typed BY DEF Glyph, Typed
  <2>2. Fit(s) /\ (s # input => s.hist = [input.hist EXCEPT ![input.ptr] = WithChar(k, n, c)])
    BY <1>1, <2>1, CharFits
  <2>3. k \in Lines /\ n \in 0 .. Len(k) BY <1>1
  <2>4. CASE ~Room(input)
    <3>1. s = input BY <2>4 DEF Char
    <3> QED BY <1>1, <1>2, <1>3, <3>1 DEF Key
  <2>5. CASE Room(input)
    <3>1. Len(k) < MaxInput BY <2>5 DEF Room
    <3> HIDE DEF s, k, n
    <3>2. WithChar(k, n, c) \in Lines BY <2>1, <2>3, <3>1, LineGrown
    <3>3. s.hist = input.hist \/ s.hist = [input.hist EXCEPT ![input.ptr] = WithChar(k, n, c)]
      BY <2>2
    <3> QED BY <1>2, <1>3, <2>2, <3>2, <3>3 DEF Key, s
  <2> QED BY <2>4, <2>5
<1>4. CASE BackSpace
  <2> DEFINE s == ParseBackSpace(input)
             k == Line(input)
             n == input.cur
  <2>1. /\ Fit(s)
        /\ \/ s.hist = input.hist
           \/ n \in 1 .. Len(k) /\ s.hist = [input.hist EXCEPT ![input.ptr] = RemoveAt(k, n)]
    BY <1>1, BackSpaceFits
  <2>2. k \in Lines BY <1>1
  <2> HIDE DEF s, k, n
  <2>3. n \in 1 .. Len(k) => RemoveAt(k, n) \in Lines
    <3> SUFFICES ASSUME n \in 1 .. Len(k) PROVE RemoveAt(k, n) \in Lines OBVIOUS
    <3> DEFINE a == SubSeq(k, 1, n - 1)
               b == SubSeq(k, n + 1, Len(k))
    <3>0. k \in Seq(Typed) /\ Len(k) <= MaxLine /\ MaxLine \in Nat BY <2>2, LinesAre
    <3>1. a \in Seq(Typed) /\ Len(a) = n - 1 BY <3>0
    <3>2. b \in Seq(Typed) /\ Len(b) = Len(k) - n BY <3>0
    <3>3. RemoveAt(k, n) = a \o b BY DEF RemoveAt
    <3> HIDE DEF a, b
    <3>4. a \o b \in Seq(Typed) /\ Len(a \o b) = Len(a) + Len(b) BY <3>1, <3>2, ConcatProperties
    <3>5. Len(a \o b) <= MaxLine BY <3>0, <3>1, <3>2, <3>4
    <3> QED BY <3>3, <3>4, <3>5, LinesAre
  <2> QED BY <1>2, <1>4, <2>1, <2>3 DEF BackSpace, s
<1>5. CASE CtrlC
  <2>1. <<>> \in Lines BY EmptyLine
  <2>2. Fit(ResetCmd(input)) /\ ResetCmd(input).hist = [input.hist EXCEPT ![input.ptr] = <<>>]
    BY <1>1, ResetFits
  <2> QED BY <1>2, <1>5, <2>1, <2>2 DEF CtrlC
<1>6. CASE Arrow
  <2>1. ASSUME NEW i \in 1 .. Len(input.hist), Read(Recalled(input, i)) PROVE ShellInv'
    BY <1>1, <1>2, <2>1, RecalledFits
  <2>2. CASE Read(Up(input))
    <3> DEFINE i == IF input.pos = Len(input.hist) THEN input.pos ELSE input.pos + 1
    <3>1. i \in 1 .. Len(input.hist) BY <1>1
    <3> QED BY <2>1, <2>2, <3>1 DEF Up
  <2>3. CASE Read(Down(input))
    <3> DEFINE i == IF input.pos = 1 THEN input.pos ELSE input.pos - 1
    <3>1. i \in 1 .. Len(input.hist) BY <1>1
    <3> QED BY <2>1, <2>3, <3>1 DEF Down
  <2>4. CASE Read(Left(input)) BY <1>1, <1>2, <2>4, LeftFits
  <2>5. CASE Read(Right(input)) BY <1>1, <1>2, <2>5, RightFits
  <2> QED BY <1>6, <2>2, <2>3, <2>4, <2>5 DEF Arrow
<1>7. CASE Skipped BY <1>1, <1>2, <1>7 DEF Skipped
<1> QED BY <1>3, <1>4, <1>5, <1>6, <1>7

\* A first line, and nothing in it.
LEMMA FirstLine ==
  ASSUME NEW S
  PROVE  /\ << <<>> >> \in Seq(Seq(S)) /\ Len(<< <<>> >>) = 1
         /\ << <<>> >>[1] = <<>>
<1> DEFINE e == <<>>
<1>1. e \in Seq(S) OBVIOUS
<1> HIDE DEF e
<1>2. <<e>> \in Seq(Seq(S)) /\ Len(<<e>>) = 1 /\ <<e>>[1] = e BY <1>1
<1> QED BY <1>2 DEF e

\* CMt::Run: the screen is empty, and so is the first line.
LEMMA ShellInvInit == ShellInit => ShellInv
<1> SUFFICES ASSUME ShellInit PROVE ShellInv OBVIOUS
<1>1. PICK p \in Prompts : input = Started(p) BY DEF ShellInit
<1> DEFINE h == << <<>> >>
           s == [hist |-> h, ptr |-> 1, pos |-> 1, cur |-> 0, prompt |-> p,
                 row |-> Dark, col |-> 0, tabbed |-> FALSE]
<1>2. p \in Seq(Glyph) BY PromptIs
<1>3. h \in Seq(Seq(Glyph)) /\ h[1] = <<>> BY FirstLine
<1>one. Len(h) = 1 BY FirstLine
<1>typed. \A i \in 1 .. Len(h) : h[i] \in Lines
  <2>1. <<>> \in Lines BY EmptyLine
  <2>2. ASSUME NEW i \in 1 .. Len(h) PROVE h[i] \in Lines
    <3>1. i = 1 BY <1>one
    <3> QED BY <1>3, <2>1, <3>1, Zenon
  <2> QED BY <2>2
<1>4. input = ShowCmd(s) BY <1>1 DEF Started, Dark
<1> HIDE DEF h
<1>5. s \in Editor /\ s.hist = h /\ s.ptr = 1 /\ s.pos = 1 /\ s.cur = 0
      /\ s.row = Dark /\ s.col = 0
  BY <1>2, <1>3, DarkIs DEF Editor
<1> HIDE DEF s
<1>6. s = Emptied(s) BY <1>5 DEF Emptied, Editor
<1>7. Line(s) = <<>> /\ Len(Line(s)) = 0 BY <1>3, <1>5 DEF Line
<1>8. Editing(s)
  <2>1. s.ptr \in 1 .. Len(s.hist) /\ s.pos \in 1 .. Len(s.hist)
    <3>1. Len(s.hist) = 1 /\ s.ptr = 1 /\ s.pos = 1 BY <1>one, <1>5, Zenon
    <3> QED BY ONLY <3>1
  <2>2. s.cur \in 0 .. Len(Line(s)) BY <1>5, <1>7
  <2> QED BY <1>5, <2>1, <2>2 DEF Editing
<1>9. Fit(input) /\ input.hist = h BY <1>4, <1>5, <1>6, <1>8, Redrawn DEF SameText
<1>10. \A i \in 1 .. Len(input.hist) : input.hist[i] \in Lines BY <1>typed, <1>9
<1> QED BY <1>9, <1>10 DEF AllTyped, ShellInv, ShellInit

\* No key breaks what is said of the editor.
LEMMA ShellInvStep == ShellInv /\ [ShellNext]_shellVars => ShellInv'
<1> SUFFICES ASSUME ShellInv, [ShellNext]_shellVars PROVE ShellInv' OBVIOUS
<1>1. CASE UNCHANGED shellVars BY <1>1 DEF shellVars, ShellInv
<1>2. CASE ShellNext BY <1>2, ReadFits, EnterKeeps, MarkKeeps DEF ShellNext, Help, Tab
<1> QED BY <1>1, <1>2

\* The editor's state is in range and on the screen, always.
LEMMA ShellInvHolds == ShellSpec => []ShellInv
BY ShellInvInit, ShellInvStep, PTL DEF ShellSpec

\* For any characters, prompts and parser that keeps to what is assumed of it:
\* the screen shows the line that is edited and nothing else, although every key
\* draws only what it thinks has changed (mt_input.cpp:119-286).
THEOREM ScreenIsRight == ShellSpec => []ScreenShowsLine
<1>1. ShellInv => ScreenShowsLine BY DEF ShellInv, Fit, Shows, Full, ScreenShowsLine
<1> QED BY <1>1, ShellInvHolds, PTL

\* No line that was entered, asked about or interrupted is lost
\* (mt_input.cpp:88-108, 379-404).
THEOREM TypedIsNeverLost == ShellSpec => TypedIsKept
<1> DEFINE A == /\ Enter \/ Timeout => Kept(Line(input))
                /\ Help => Kept(Line(AppendChar(input, Ask)))
                /\ Tab => Kept(Line(AppendChar(input, Complete)))
<1>1. ShellInv => A BY EnterKeeps, MarkKeeps DEF Help, Tab
<1>2. ShellInv => [A]_shellVars BY <1>1
<1> QED BY <1>2, ShellInvHolds, PTL DEF TypedIsKept
=============================================================================
