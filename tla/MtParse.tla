------------------------------ MODULE MtParse ------------------------------
(***************************************************************************)
(* What a command line means, from the registration of the commands to     *)
(* the call of one of them: the terminal enters the registered commands in *)
(* its tree one by one (GetAllCmdLine, RegCmdLine), the user types a line  *)
(* word by word, and at any point the line may be asked about ('?'),       *)
(* completed (TAB) or executed (Enter), in which case the kernel takes it  *)
(* apart once more for the command the terminal has found.                 *)
(*                                                                         *)
(* One view is modelled; MtTerminal has the calls that load several, and   *)
(* MtShell the keys.                                                       *)
(***************************************************************************)
EXTENDS MtTree, MtCmdProc, MtItems

CONSTANTS
  Cmds,      \* the commands modules and processes register
  SelfCmds,  \* the terminal's own commands in the root view
  ViewCmds,  \* and those it has in every view it clears
  Words,     \* what the user types
  MaxWords   \* bound on the words of a line

ASSUME CmdsAssumption == \A c \in Cmds : ItemsFit(c)

VARIABLES
  phase,   \* loading the commands, or reading lines
  loaded,  \* the registered commands the terminal has entered
  tree,    \* m_listRoot of the view
  line     \* the words typed so far

vars == <<phase, loaded, tree, line>>

\* RegSelfCmdLine ignores what RegCmdLine returns
SelfRegistered(tr, cs) ==
  FoldLeft(LAMBDA t, c : RegCmdLine(t, InitCmdLine(c)).tree, tr, cs)

Init == phase = "load" /\ loaded = {} /\ tree = EmptyTree /\ line = <<>>

\* Mutant: what was entered before stays.
NotCleared == SelfRegistered(tree, ViewCmds)

\* ClearViewCmdLines
Cleared == SelfRegistered(EmptyTree, ViewCmds)

\* One command that cannot be entered ends the load and clears the view.
GetClInfo(c) ==
  /\ phase = "load"
  /\ c \notin loaded
  /\ Registered(c)
  /\ LET r == RegCmdLine(tree, [id |-> c.id, ast |-> AstItem(c)])
     IN  IF r.ok
         THEN /\ tree' = r.tree
              /\ loaded' = loaded \union {c}
              /\ UNCHANGED phase
         ELSE /\ tree' = Cleared
              /\ loaded' = {}
              /\ phase' = "shell"
  /\ UNCHANGED line

LoadDone ==
  /\ phase = "load"
  /\ phase' = "shell"
  /\ tree' = SelfRegistered(tree, SelfCmds)
  /\ UNCHANGED <<loaded, line>>

\* The next word of the line.  A word that cannot be recognised ends the
\* line: every way to go on from there is refused (PrintErrInfo).
Type(t) ==
  /\ phase = "shell"
  /\ Len(line) < MaxWords
  /\ MatchCmdLine(tree, Append(line, t)).ok
  /\ line' = Append(line, t)
  /\ UNCHANGED <<phase, loaded, tree>>

\* the registered commands have changed
Renew ==
  /\ phase = "shell"
  /\ phase' = "load" /\ loaded' = {} /\ tree' = EmptyTree /\ line' = <<>>

Next ==
  \/ \E c \in Cmds : GetClInfo(c)
  \/ LoadDone
  \/ \E t \in Words : Type(t)
  \/ Renew

Spec == Init /\ [][Next]_vars

-----------------------------------------------------------------------------
(* Properties                                                              *)

\* one word after the other
Joined(toks) ==
  FoldLeft(LAMBDA s, t : IF s = <<>> THEN t ELSE s \o <<" ">> \o t, <<>>, toks)

\* a line that Enter executes: its last word asks for nothing
Reading == phase = "shell" /\ line # <<>> /\ PreParse(line).mode = "exec"

Own == {SelfCmds[i] : i \in DOMAIN SelfCmds} \union {ViewCmds[i] : i \in DOMAIN ViewCmds}

\* the words of the line that were typed for an item of an id
TypedFor(p, id) ==
  LET is == SelectSeq([i \in DOMAIN p |-> i], LAMBDA i : p[i].id = id)
  IN  [k \in DOMAIN is |-> line[is[k]]]

\* The terminal prefers a name to a string and a whole name to the beginning
\* of one, the kernel takes the first alternative the word fits: y hides x.
Hides(y, x, t) ==
  \/ y.type = "str" /\ x.type # "str"
  \/ y.type = "text" /\ x.type = "text" /\ t = x.name /\ IsPrefix(t, y.name)

\* each word has the value of its item in p, or of an alternative that hides it
BoundAs(p, vals) ==
  \A i \in DOMAIN p :
    /\ vals[i].str = line[i]
    /\ vals[i].item = p[i] \/ Hides(vals[i].item, p[i], line[i])

\* by the ids of the items of p the command finds what was typed for them, a
\* channel id with the numbers that were typed
FoundById(p, vals) ==
  \A i \in DOMAIN p :
    LET got == AllValById(vals, p[i].id, ItemMax)
    IN  /\ [k \in DOMAIN got |-> got[k].str] = TypedFor(p, p[i].id)
        /\ FindVal(vals, p[i].id)[1] = got[1]
        /\ p[i].type = "chan" =>
             [k \in 1 .. 3 |-> Dec(Pieces(line[i], {"/"})[k])] = ChanIdVal(vals[i])

\* no word is cut where only the kernel cuts, at a TAB inside it
CutAlike == \A i \in DOMAIN line : "\t" \notin ToSet(line[i])

\* no string is shorter than what only the kernel looks at
LongEnough(p) == \A i \in DOMAIN p : p[i].type = "str" => Len(line[i]) >= p[i].min

Unbroken(ts) == SelectSeq(FlattenSeq(ts), LAMBDA c : c # "\t")

\* the values v the kernel has for the line, which means p to the terminal
AsTyped(p, v) ==
  /\ CutAlike /\ LongEnough(p) => v.ok
  /\ CutAlike /\ v.ok => BoundAs(p, v.vals)
  /\ CutAlike /\ v.ok /\ (\A i \in DOMAIN p : v.vals[i].item = p[i]) => FoundById(p, v.vals)
  /\ v.ok => Unbroken([i \in DOMAIN v.vals |-> v.vals[i].str]) = Unbroken(line)

\* Two programs take the line apart, each with rules of its own.  What the
\* terminal executes the kernel accepts, unless a string is shorter than its
\* item wants it or has a TAB in it; what the kernel accepts it accepts for
\* the same items, but where an earlier alternative hides the right one; the
\* command finds by its ids every word the user typed for them; and even
\* where the two cut the line differently nothing of it is lost.
RunsAsTyped ==
  Reading =>
    \A p \in {ExactMatch(tree, line)} \ {<<>>} : \A c \in loaded :
      c.id = tree.ends[p] => AsTyped(p, GetValList(Entries(c).items, KGetToken(Joined(line))))

\* a whole word for an item
Sample(x) ==
  CASE x.type = "text" -> x.name
    [] x.type = "str" -> [i \in 1 .. x.max |-> "a"]
    [] x.type = "int" -> <<"1", "0">>
    [] x.type = "chan" -> <<"1", "/", "0", "/", "3">>
    [] x.type = "ip" -> <<"1", ".", "0", ".", "0", ".", "1">>

\* the items the registrant of c means, one for each place
MeantBy(c, i) == {SetEntry(FixItem(GetSpecItem(x)), c.name) : x \in ToSet(c.items[i].alts)}
PathsOf(c) ==
  {p \in [DOMAIN c.items -> UNION {MeantBy(c, i) : i \in DOMAIN c.items}] :
     \A i \in DOMAIN p : p[i] \in MeantBy(c, i)}

\* Whatever else is registered and in whatever order it was loaded, a command
\* that was loaded is the one that is executed by the line of its full words,
\* with each of its alternatives: none is lost or joined to another place
\* where the items are written one after the other (from a process to the
\* kernel, from there to the terminal) and put together again.
Reachable ==
  phase = "shell" /\ line = <<>> =>
    \A c \in loaded : \A p \in PathsOf(c) :
      /\ ExactMatch(tree, [i \in DOMAIN p |-> Sample(p[i])]) = p
      /\ tree.ends[p] = c.id

\* A word completed by TAB means what the word meant: when the line would
\* have been executed, so is the completed one, as the same command; and
\* otherwise it can be gone on with.
ExpandKeeps ==
  LET typed == Joined(line) \o <<"\t">>
      asked == PreParse(GetToken(typed))
      given == AutoExpand(tree, asked.toks, typed)
      again == GetToken(Front(given))
  IN  Reading =>
        /\ asked = [mode |-> "expand", toks |-> line]
        /\ given # typed =>
             /\ ExactMatch(tree, line) \in {<<>>, ExactMatch(tree, again)}
             /\ MatchCmdLine(tree, Append(again, <<>>)).ok

\* What '?' offers behind a line is what can be had: where <CR> is offered
\* Enter executes the line, as the command that was offered (the two look for
\* it by different rules), and every word offered is on the way to a command
\* that is registered or the terminal's own, also after a load that failed.
CanBeHad(o) ==
  /\ o.cr # 0 => \E p \in {ExactMatch(tree, line)} \ {<<>>} : tree.ends[p] = o.cr
  /\ \A x \in o.items :
       \E q \in DOMAIN tree.ends :
         /\ IsPrefix(Append(o.at, x), q)
         /\ \E c \in loaded \union Own : c.id = tree.ends[q]
OfferedRuns ==
  Reading =>
    CanBeHad(ParseHelp(tree, PreParse(GetToken(Joined(line) \o <<" ", "?">>)).toks))

\* What TAB and '?' show of a line (mt_parse.cpp:660-814) is what Enter does
\* with it: both of the parts above.
HelpIsTrue == ExpandKeeps /\ OfferedRuns
=============================================================================
