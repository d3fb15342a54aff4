----------------------------- MODULE MtTerminal -----------------------------
(***************************************************************************)
(* The management terminal (usr/mt/mt_main.cpp, mt_io_cmd.cpp) on top of   *)
(* the registry of commands: how a terminal copies the views and commands  *)
(* it offers its user, by one ioctl after the other, while registrants     *)
(* come and go, and how it learns that its copy is out of date.            *)
(*                                                                         *)
(* A terminal loads the root view when it starts and whenever it finds its *)
(* flag set (Renew), and another view when its user first enters it        *)
(* (ViewProc).  An ioctl that fails ends the load.                         *)
(***************************************************************************)
EXTENDS MtRegistry

VARIABLES
  cpc,      \* where each terminal is
  first,    \* the load is that of CMt::Init
  target,   \* the view being loaded
  asked,    \* stClNum: the counts the load began with
  todo,     \* the ids of the array still to be asked for
  cur,      \* the command whose view id is about to be read
  known,    \* m_mapView: the commands of each view the terminal knows
  loaded    \* the views whose commands have been loaded

clientVars == <<cpc, first, target, asked, todo, cur, known, loaded>>
vars == <<regVars, changed, clientVars>>

NoViews == [v \in {} |-> {}]
NoNum == [cl |-> 0, views |-> 0]

Init ==
  /\ RegInit
  /\ changed = [c \in Cas |-> FALSE]
  /\ cpc = [c \in Cas |-> "closed"]
  /\ first = [c \in Cas |-> FALSE]
  /\ target = [c \in Cas |-> Root]
  /\ asked = [c \in Cas |-> NoNum]
  /\ todo = [c \in Cas |-> {}]
  /\ cur = [c \in Cas |-> 0]
  /\ known = [c \in Cas |-> NoViews]
  /\ loaded = [c \in Cas |-> {}]

Goto(c, p) == cpc' = [cpc EXCEPT ![c] = p]

-----------------------------------------------------------------------------
(* Where a load begins                                                     *)

StartLoad(c, v) ==
  /\ Goto(c, "count")
  /\ target' = [target EXCEPT ![c] = v]
  /\ UNCHANGED <<asked, todo, cur>>

\* the terminal forgets all it knows but the root view
Forget(c) ==
  /\ known' = [known EXCEPT ![c] = [v \in {Root} |-> {}]]
  /\ loaded' = [loaded EXCEPT ![c] = {}]

OpenCa(c) ==
  /\ cpc[c] = "closed"
  /\ changed' = [changed EXCEPT ![c] = FALSE]
  /\ first' = [first EXCEPT ![c] = TRUE]
  /\ Forget(c)
  /\ StartLoad(c, Root)
  /\ UNCHANGED regVars

\* PollCmdStatus finds the flag set, reads and clears it, and renews
Renew(c) ==
  /\ cpc[c] = "idle"
  /\ changed[c]
  /\ changed' = [changed EXCEPT ![c] = FALSE]
  /\ Forget(c)
  /\ StartLoad(c, Root)
  /\ UNCHANGED <<regVars, first>>

\* PollCmdStatus finds nothing changed: the line is parsed
ReadLine(c) ==
  /\ cpc[c] = "idle"
  /\ ~changed[c]
  /\ Goto(c, "parse")
  /\ UNCHANGED <<regVars, changed, first, target, asked, todo, cur, known, loaded>>

\* The line enters a view, which is loaded unless it has been
ViewProc(c) ==
  /\ cpc[c] = "parse"
  /\ \E v \in DOMAIN known[c] \ (loaded[c] \union {Root}) : StartLoad(c, v)
  /\ UNCHANGED <<regVars, changed, first, known, loaded>>

\* any other line
LineDone(c) ==
  /\ cpc[c] = "parse"
  /\ Goto(c, "idle")
  /\ UNCHANGED <<regVars, changed, first, target, asked, todo, cur, known, loaded>>

CloseCa(c) ==
  /\ cpc[c] = "idle"
  /\ Goto(c, "closed")
  /\ UNCHANGED <<regVars, changed, first, target, asked, todo, cur, known, loaded>>

-----------------------------------------------------------------------------
(* The ioctls of a load (GetAllCmdLine)                                    *)

\* GetAllCmdLine returns and its variables are gone
Return(c, p) ==
  /\ Goto(c, p)
  /\ first' = [first EXCEPT ![c] = FALSE]
  /\ target' = [target EXCEPT ![c] = Root]
  /\ asked' = [asked EXCEPT ![c] = NoNum]
  /\ todo' = [todo EXCEPT ![c] = {}]
  /\ cur' = [cur EXCEPT ![c] = 0]

\* A load that fails while the terminal starts ends the terminal
Fail(c) ==
  /\ Return(c, IF first[c] THEN "closed" ELSE "idle")
  /\ UNCHANGED loaded

GetClCount(c) ==
  /\ cpc[c] = "count"
  /\ IF target[c] \in Views
     THEN /\ asked' = [asked EXCEPT ![c] = ClNum(target[c])]
          /\ Goto(c, IF asked'[c].views = 0 THEN "cmdids" ELSE "viewids")
          /\ UNCHANGED <<first, target, todo, cur, loaded>>
     ELSE Fail(c)
  /\ UNCHANGED <<regVars, changed, known>>

GetAllViewIds(c) ==
  /\ cpc[c] = "viewids"
  /\ IF ViewIdsGiven(asked[c].views)
     THEN /\ todo' = [todo EXCEPT ![c] = ViewIds]
          /\ Goto(c, "views")
          /\ UNCHANGED <<first, target, asked, cur, loaded>>
     ELSE Fail(c)
  /\ UNCHANGED <<regVars, changed, known>>

Took(c, id) == todo' = [todo EXCEPT ![c] = @ \ {id}]

GetViewInfo(c) ==
  /\ cpc[c] = "views"
  /\ \E v \in todo[c] :
       IF v \in Views
       THEN /\ known' = [known EXCEPT ![c] = Inserted(@, v, {})]
            /\ Took(c, v)
            /\ UNCHANGED <<cpc, first, target, asked, cur, loaded>>
       ELSE Fail(c) /\ UNCHANGED known
  /\ UNCHANGED <<regVars, changed>>

ViewsDone(c) ==
  /\ cpc[c] = "views"
  /\ todo[c] = {}
  /\ Goto(c, "cmdids")
  /\ UNCHANGED <<regVars, changed, first, target, asked, todo, cur, known, loaded>>

GetAllCmdIds(c) ==
  /\ cpc[c] = "cmdids"
  /\ IF CmdIdsGiven(target[c], asked[c].cl)
     THEN /\ todo' = [todo EXCEPT ![c] = CmdIds(target[c])]
          /\ Goto(c, "cmds")
          /\ UNCHANGED <<first, target, asked, cur, loaded>>
     ELSE Fail(c)
  /\ UNCHANGED <<regVars, changed, known>>

\* ClearViewCmdLines
Cleared(c) == [known EXCEPT ![c][target[c]] = {}]

GetClInfo(c) ==
  /\ cpc[c] = "cmds"
  /\ \E id \in todo[c] :
       IF ClFound(id)
       THEN /\ cur' = [cur EXCEPT ![c] = id]
            /\ Took(c, id)
            /\ Goto(c, "cmdview")
            /\ UNCHANGED <<first, target, asked, known, loaded>>
       ELSE Fail(c) /\ known' = Cleared(c)
  /\ UNCHANGED <<regVars, changed>>

\* The end of MT_GetClInfo and the command entered in the view it is said to
\* be in.  The commands are taken to go together: a view refuses one that
\* does not, and the load fails (MtTree and MtParse have that).
RegClInView(c) ==
  /\ cpc[c] = "cmdview"
  /\ \E v \in ViewIdRead(cur[c]) :
       IF v \in DOMAIN known[c]
       THEN /\ known' = [known EXCEPT ![c][v] = @ \union {cur[c]}]
            /\ Goto(c, "cmds")
            /\ UNCHANGED <<first, target, asked, todo, cur, loaded>>
       ELSE Fail(c) /\ known' = Cleared(c)
  /\ UNCHANGED <<regVars, changed>>

LoadDone(c) ==
  /\ cpc[c] = "cmds"
  /\ todo[c] = {}
  /\ loaded' = [loaded EXCEPT ![c] = @ \union {target[c]}]
  /\ Return(c, "idle")
  /\ UNCHANGED <<regVars, changed, known>>

Loading(c) ==
  \/ GetClCount(c) \/ GetAllViewIds(c) \/ GetViewInfo(c) \/ ViewsDone(c)
  \/ GetAllCmdIds(c) \/ GetClInfo(c) \/ RegClInView(c) \/ LoadDone(c)

Client(c) ==
  OpenCa(c) \/ Renew(c) \/ ReadLine(c) \/ ViewProc(c) \/ LineDone(c) \/ CloseCa(c) \/ Loading(c)

RegistrantStep(a) == Registrant(a) /\ UNCHANGED clientVars

Next == (\E a \in Cbs : RegistrantStep(a)) \/ (\E c \in Cas : Client(c))

Spec == Init /\ [][Next]_vars

\* A registration or a removal that has begun is a system call and goes on; a
\* terminal goes on with its load and its line, and looks at its flag after
\* every line or second (GetChar polls for 1000 ms).
Fairness ==
  /\ \A a \in Cbs : WF_vars(Finishing(a) /\ UNCHANGED clientVars)
  /\ \A c \in Cas : /\ WF_vars(Loading(c))
                    /\ WF_vars(ViewProc(c) \/ LineDone(c))
                    /\ WF_vars(Renew(c))

FairSpec == Spec /\ Fairness

-----------------------------------------------------------------------------
(* Properties                                                              *)

\* The types of the registry and of the terminals' copies.
TypeOK ==
  /\ RegType
  /\ cpc \in [Cas -> {"closed", "count", "viewids", "views", "cmdids", "cmds", "cmdview", "idle", "parse"}]
  /\ first \in [Cas -> BOOLEAN]
  /\ target \in [Cas -> Nat]
  /\ asked \in [Cas -> [cl : Int, views : Int]]
  /\ todo \in [Cas -> SUBSET Nat]
  /\ cur \in [Cas -> Nat]
  /\ DOMAIN known = Cas
  /\ \A c \in Cas : /\ DOMAIN known[c] \subseteq Nat
                    /\ known[c] \in [DOMAIN known[c] -> SUBSET Nat]
                    /\ cpc[c] # "closed" => {Root, target[c]} \subseteq DOMAIN known[c]
  /\ loaded \in [Cas -> SUBSET Nat]

\* The arrays of ids that MT_GetAllViewIds and MT_GetAllCmdIds write to a
\* terminal have exactly the length the terminal allocated by the counts it
\* was told, whatever has been registered and removed since.
FillsArray(c) ==
  /\ cpc[c] = "viewids" /\ cpc'[c] = "views" => Cardinality(todo'[c]) = asked[c].views
  /\ cpc[c] = "cmdids" /\ cpc'[c] = "cmds" => Cardinality(todo'[c]) = asked[c].cl
IdsFit == [][\A c \in Cas : FillsArray(c)]_vars

\* The terminal will find its flag set, now or when a change under way ends
Dirty(c) == changed[c] \/ \E a \in Cbs : pc[a] \in Telling \union {"unregview"}

UpToDate(c) ==
  /\ DOMAIN known[c] = Views
  /\ Root \in loaded[c]
  /\ \A v \in loaded[c] : known[c][v] = CmdIds(v)

\* A terminal that waits for its user and that nobody is about to wake shows
\* exactly what is registered: its root view has been loaded, it knows the
\* views there are and the commands of each view it has loaded, although it
\* read them by many calls, some of which may have failed, and although the
\* result of a failed Renew is ignored (mt_main.cpp:85).
InSync == \A c \in Cas : cpc[c] \in {"idle", "parse"} /\ ~Dirty(c) => UpToDate(c)

\* When no registrant changes anything any more every terminal gets there.
Settled(c) == cpc[c] = "closed" \/ (cpc[c] = "idle" /\ ~changed[c] /\ UpToDate(c))
Quiet == \A a \in Cbs : pc[a] \in {"closed", "open"}
Converges == <>[]Quiet => \A c \in Cas : []<>Settled(c)

=============================================================================
