----------------------------- MODULE MtRegistry -----------------------------
(***************************************************************************)
(* The registry of commands and views of the management terminal           *)
(* (kern/mt/mt_mgr.c): what the user agents and the kernel modules of the  *)
(* system register in it, and the operations terminals read it with.       *)
(*                                                                         *)
(* Every operation is a sequence of sections under gstMtMgr.stLock; an     *)
(* action is one such section.  A registrant is an MT_CB_S: a kernel       *)
(* module, whose commands are in the root view, or a process that has the  *)
(* file mt_ua open, which has a view of its own unless it opened the file  *)
(* with MT_UA_FLAG_NO_VIEW.                                                *)
(***************************************************************************)
EXTENDS Integers, FiniteSets

CONSTANTS
  Cbs,      \* registrants
  Cas,      \* terminals: the processes that open the file mt_ca
  MaxId     \* bound on u64CmdIdSeq

ASSUME MaxIdAssumption == MaxId \in Nat

VARIABLES
  u64CmdIdSeq,  \* next id of a command or a view
  cls,          \* the command lines in astHashTbl
  clCnt,        \* u32ClCnt of each view in astViewHashTbl
  viewCnt,      \* u32ViewCnt of the root view
  viewId,       \* u64ViewId of each registrant
  pc,           \* where each registrant is
  changed       \* bClChanged of each open terminal

regVars == <<u64CmdIdSeq, cls, clCnt, viewCnt, viewId, pc>>

Root == 0
Views == DOMAIN clCnt
InView(v) == {cl \in cls : cl.view = v}
Own(a) == {cl \in cls : cl.cb = a}
Ids(S) == {cl.id : cl \in S}

\* a table with the entry k, which is made unless it is there
Inserted(tbl, k, e) ==
  [x \in DOMAIN tbl \union {k} |-> IF x \in DOMAIN tbl THEN tbl[x] ELSE e]

\* the places from which a registrant goes on to MT_NotifyCa
Telling == {"opening", "added", "removed"}
Registered == {"regview", "opening", "open", "added"}

RegInit ==
  /\ u64CmdIdSeq = 1
  /\ cls = {}
  /\ clCnt = [v \in {Root} |-> 0]
  /\ viewCnt = 0
  /\ viewId = [a \in Cbs |-> Root]
  /\ pc = [a \in Cbs |-> "closed"]

-----------------------------------------------------------------------------
(* Registration                                                            *)

\* A registrant in the list may have the same name.
MayBeTaken(a) == \E b \in Cbs \ {a} : pc[b] \in Registered

\* The file is opened and MT_OpenUa allocates the view's id and enters the
\* registrant in the list of names.  When the name is taken the registrant
\* gives up and closes its file, which was never registered.
OpenUa(a) ==
  /\ pc[a] = "closed"
  /\ \/ /\ viewId' = [viewId EXCEPT ![a] = Root]
        /\ UNCHANGED u64CmdIdSeq
     \/ /\ u64CmdIdSeq < MaxId
        /\ viewId' = [viewId EXCEPT ![a] = u64CmdIdSeq]
        /\ u64CmdIdSeq' = u64CmdIdSeq + 1
  /\ \/ pc' = [pc EXCEPT ![a] = "regview"]
     \/ MayBeTaken(a) /\ pc' = [pc EXCEPT ![a] = "unregview"]
  /\ UNCHANGED <<cls, clCnt, viewCnt, changed>>

\* The second section of MT_RegMt.  Its result is ignored: without memory for
\* the view the registrant goes on without one.
RegView(a) ==
  /\ pc[a] = "regview"
  /\ pc' = [pc EXCEPT ![a] = "opening"]
  /\ \/ /\ viewId[a] # Root
        /\ clCnt' = Inserted(clCnt, viewId[a], 0)
        /\ viewCnt' = viewCnt + 1
     \/ UNCHANGED <<clCnt, viewCnt>>
  /\ UNCHANGED <<u64CmdIdSeq, cls, viewId, changed>>

\* the counts of the views after n commands of view v came (or went)
Counted(v, n) == IF v \in Views THEN [clCnt EXCEPT ![v] = @ + n] ELSE clCnt

AddCmdLine(a) ==
  /\ u64CmdIdSeq < MaxId
  /\ cls' = cls \union {[id |-> u64CmdIdSeq, view |-> viewId[a], cb |-> a]}
  /\ u64CmdIdSeq' = u64CmdIdSeq + 1
  /\ clCnt' = Counted(viewId[a], 1)

\* A command with an item the manager refuses is dropped; the terminals are
\* told all the same.
RegCmdLine(a) ==
  /\ pc[a] = "open"
  /\ pc' = [pc EXCEPT ![a] = "added"]
  /\ AddCmdLine(a) \/ UNCHANGED <<cls, u64CmdIdSeq, clCnt>>
  /\ UNCHANGED <<viewCnt, viewId, changed>>

-----------------------------------------------------------------------------
(* Removal: the file is closed by its process or by its death              *)

\* Mutant: the view keeps its count.
FreeClListKeepsCnt(a) == cls' = cls \ Own(a) /\ UNCHANGED clCnt

FreeClList(a) ==
  /\ cls' = cls \ Own(a)
  /\ clCnt' = Counted(viewId[a], -Cardinality(Own(a)))

UnRegMt(a) ==
  /\ pc[a] = "open"
  /\ FreeClList(a)
  /\ pc' = [pc EXCEPT ![a] = "unregview"]
  /\ UNCHANGED <<u64CmdIdSeq, viewCnt, viewId, changed>>

UnRegView(a) ==
  /\ pc[a] = "unregview"
  /\ pc' = [pc EXCEPT ![a] = "removed"]
  /\ IF viewId[a] # Root /\ viewId[a] \in Views
     THEN /\ clCnt' = [v \in Views \ {viewId[a]} |-> clCnt[v]]
          /\ viewCnt' = viewCnt - 1
     ELSE UNCHANGED <<clCnt, viewCnt>>
  /\ UNCHANGED <<u64CmdIdSeq, cls, viewId, changed>>

-----------------------------------------------------------------------------
(* Every change ends with the flag of every terminal set                   *)

\* Mutant: the flag of no terminal is set.
ToldNobody == changed

Told == [c \in Cas |-> TRUE]

AfterNotify(p) == IF p = "removed" THEN "closed" ELSE "open"

NotifyCa(a) ==
  /\ pc[a] \in Telling
  /\ pc' = [pc EXCEPT ![a] = AfterNotify(@)]
  /\ changed' = Told
  /\ UNCHANGED <<u64CmdIdSeq, cls, clCnt, viewCnt, viewId>>

Registrant(a) ==
  \/ OpenUa(a) \/ RegView(a) \/ RegCmdLine(a)
  \/ UnRegMt(a) \/ UnRegView(a) \/ NotifyCa(a)

\* the steps that end a registration or a removal that has begun
Finishing(a) == RegView(a) \/ UnRegView(a) \/ NotifyCa(a)

-----------------------------------------------------------------------------
(* What the manager answers a terminal                                     *)

\* MT_GetClCount; only the root view counts views
ClNum(v) == [cl |-> clCnt[v], views |-> IF v = Root THEN viewCnt ELSE 0]

\* MT_GetAllViewIds and MT_GetAllCmdIds fill an array of u32Num elements that
\* the caller has allocated
ViewIdsGiven(num) == viewCnt = num
ViewIds == Views \ {Root}
CmdIdsGiven(v, num) == v \in Views /\ clCnt[v] = num

CmdIds(v) == Ids(InView(v))

ClFound(id) == id \in Ids(cls)

\* MT_GetClInfo reads u64ViewId after the lock is dropped: of a command line
\* freed meanwhile it reads what its memory holds by then
ViewIdRead(id) ==
  IF ClFound(id) THEN {cl.view : cl \in {x \in cls : x.id = id}} ELSE 0 .. MaxId

-----------------------------------------------------------------------------
(* Properties of the registry                                              *)

Cl == [id : Nat, view : Nat, cb : Cbs]

RegType ==
  /\ u64CmdIdSeq \in Nat \ {0}
  /\ cls \subseteq Cl
  /\ Root \in Views /\ Views \subseteq Nat
  /\ clCnt \in [Views -> Int]
  /\ viewCnt \in Int
  /\ viewId \in [Cbs -> Nat]
  /\ pc \in [Cbs -> {"closed", "regview", "opening", "open", "added", "unregview", "removed"}]
  /\ changed \in [Cas -> BOOLEAN]

\* The counts a view keeps (u32ClCnt, u32ViewCnt) are the numbers of the
\* command lines and views that the hash tables hold for it: what a terminal
\* allocates its arrays by (MT_ViewClInc, MT_ViewClDec, MT_ViewInc,
\* MT_ViewDec).
CountsRight ==
  /\ \A v \in Views : clCnt[v] = Cardinality(InView(v))
  /\ viewCnt = Cardinality(Views \ {Root})
=============================================================================
