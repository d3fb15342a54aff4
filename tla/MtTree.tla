------------------------------- MODULE MtTree -------------------------------
(***************************************************************************)
(* The commands as the terminal holds them (usr/mt/mt_parse.cpp): a tree   *)
(* of items into which each command is entered when it is loaded, and the  *)
(* search of that tree for the command a line means, for what may follow   *)
(* ('?') and for the rest of a word (TAB).                                 *)
(*                                                                         *)
(* A command is a record of an id and of its items as GET_CL_INFO gives    *)
(* them: in one array (ast), in which alternatives follow each other and   *)
(* are marked (arr), the last of them in particular (fin).  A node of the  *)
(* tree is known by the items that lead to it: two entries of a list share *)
(* their CMtEntry exactly when their items are equal, because all come     *)
(* from m_mapEntryCache.                                                   *)
(***************************************************************************)
EXTENDS MtToken, FiniteSets

\* links: nodes that have a list of children; ends: the command that ends
\* at a node (CMtEntryLink, CMtEndEntry)
EmptyTree == [links |-> {}, ends |-> [p \in {} |-> 0]]

Ended(tr, p) == p \in DOMAIN tr.ends
HasList(tr, p) == p = <<>> \/ p \in tr.links
Children(tr, p) ==
  {q[Len(q)] : q \in {r \in tr.links \union DOMAIN tr.ends : Front(r) = p}}

-----------------------------------------------------------------------------
(* Entering a command                                                      *)

\* CheckEntry refuses y beside x
Clash(x, y) ==
  \/ x.type = "str" /\ y.type # "text"
  \/ y.type = "str" /\ x.type # "text"
  \/ x.type = "text" /\ y.type = "text" /\ x.name = y.name
  \/ x.type = y.type /\ x.type \in {"ip", "chan"}

AddLink(tr, p) == [tr EXCEPT !.links = @ \union {p}]
AddEnd(tr, p, id) ==
  [tr EXCEPT !.ends = [q \in DOMAIN @ \union {p} |-> IF q = p THEN id ELSE @[q]]]

Refused(tr) == [ok |-> FALSE, tree |-> tr, at |-> <<>>]

\* RegEntry of one item below p
RegItem(tr, p, x, last, id) ==
  LET q == Append(p, x)
      refused == \/ last /\ Ended(tr, q)
                 \/ /\ x \notin Children(tr, p)
                    /\ \E y \in Children(tr, p) : Clash(y, x)
  IN  IF refused THEN Refused(tr)
      ELSE [ok |-> TRUE, at |-> q,
            tree |-> IF last THEN AddEnd(tr, q, id) ELSE AddLink(tr, q)]

\* the terminal's own commands, which it fills in by itself
InitCmdLine(c) ==
  [id |-> c.id,
   ast |-> [i \in DOMAIN c.items |-> [item |-> c.items[i], arr |-> FALSE, fin |-> FALSE]]]

\* GetItemArrPos: the first item behind the alternatives that i belongs to,
\* 0 when none of them is marked as the last
ArrNext(items, i) ==
  LET ends == {j \in i .. Len(items) :
                 /\ items[j].fin
                 /\ \A k \in i .. j : items[k].arr
                 /\ \A k \in i .. j - 1 : ~items[k].fin}
  IN  IF ends = {} THEN 0 ELSE 1 + CHOOSE j \in ends : TRUE

\* RegEntry from item i on.  It unmarks the items it has entered, for good:
\* the items behind the alternatives are unmarked by the first of them.
RECURSIVE RegFrom(_, _, _, _, _)
RegFrom(tr, p, i, items, id) ==
  IF i > Len(items) THEN [ok |-> TRUE, tree |-> tr, items |-> items]
  ELSE
    LET alternative == items[i].arr /\ ~items[i].fin
        next == IF alternative THEN ArrNext(items, i) ELSE i + 1
        r == RegItem(tr, p, items[i].item, next > Len(items), id)
        unmarked == [items EXCEPT ![i].arr = FALSE, ![i].fin = FALSE]
        rest == RegFrom(r.tree, r.at, next, unmarked, id)
    IN  IF next = 0 \/ ~r.ok THEN [ok |-> FALSE, tree |-> tr, items |-> unmarked]
        ELSE IF ~alternative THEN rest
        ELSE IF next > Len(items) THEN RegFrom(r.tree, p, i + 1, unmarked, id)
        ELSE IF ~rest.ok THEN rest
        ELSE RegFrom(rest.tree, p, i + 1, rest.items, id)

RegCmdLine(tr, c) == RegFrom(tr, <<>>, 1, c.ast, c.id)

\* the tree of the commands cs, entered in this order
TreeOf(cs) == FoldLeft(LAMBDA t, c : RegCmdLine(t, c).tree, EmptyTree, cs)

-----------------------------------------------------------------------------
(* Finding a command                                                       *)

\* every other type wins over a string
FixMatchResult(f) ==
  IF \E x \in f : x.type # "str" THEN {x \in f : x.type # "str"} ELSE f

\* Mutant: names that begin with the word are as good as the word.
AnyTextMatch(f, t) == f

\* a whole name wins over the beginnings of names
FixTextMatch(f, t) ==
  IF \E x \in f : x.type = "text" /\ x.name = t
  THEN {x \in f : x.type = "text" => x.name = t} ELSE f

MatchPartResult(tr, p, t) == {x \in Children(tr, p) : t = <<>> \/ FitsPart(x, t)}
MatchResult(tr, p, t) ==
  FixTextMatch(FixMatchResult({x \in Children(tr, p) : t # <<>> /\ Fits(x, t)}), t)

\* at: the node whose list holds what was found; end: the command that ends
\* before an empty last word, 0 for none
NotFound == [ok |-> FALSE, at |-> <<>>, found |-> {}, end |-> 0]
EndEntry(tr, p) == IF Ended(tr, p) THEN tr.ends[p] ELSE 0

\* the last word t, below p, which fits the items of part by its beginning
MatchLast(tr, p, t, part) ==
  IF part = {} THEN NotFound
  ELSE [ok |-> TRUE, at |-> p, found |-> part,
        end |-> IF t = <<>> THEN EndEntry(tr, p) ELSE 0]

RECURSIVE MatchFrom(_, _, _)
MatchFrom(tr, toks, p) ==
  LET t == toks[1]
      full == MatchResult(tr, p, t)
  IN  IF Len(t) > StrMax THEN NotFound
      ELSE IF ~HasList(tr, p)
           THEN IF t = <<>> THEN [ok |-> TRUE, at |-> p, found |-> {}, end |-> EndEntry(tr, p)]
                ELSE NotFound
      ELSE IF Len(toks) = 1 THEN MatchLast(tr, p, t, MatchPartResult(tr, p, t))
      ELSE IF Cardinality(full) # 1 THEN NotFound
           ELSE MatchFrom(tr, Tail(toks), Append(p, CHOOSE x \in full : TRUE))

MatchCmdLine(tr, toks) == MatchFrom(tr, toks, <<>>)

\* ExactMatchChkResult
ExactMatchChkResult(x, t) ==
  /\ x.type = "chan" => CheckFullChan(t)
  /\ x.type = "ip" => CheckFullIp(t)

\* the items of what was found with which a command ends
Ends(tr, m, t) ==
  {x \in FixTextMatch(FixMatchResult(m.found), t) : Ended(tr, Append(m.at, x))}

OneEnd(at, ends, t) ==
  IF /\ Cardinality(ends) = 1
     /\ \A x \in ends : ExactMatchChkResult(x, t)
  THEN Append(at, CHOOSE x \in ends : TRUE) ELSE <<>>

ExactIn(tr, m, t) == IF m.ok THEN OneEnd(m.at, Ends(tr, m, t), t) ELSE <<>>

\* ExactMatch: the path of the one command that ends at the last word;
\* <<>> when there is none, or more than one
ExactMatch(tr, toks) == ExactIn(tr, MatchCmdLine(tr, toks), Last(toks))

\* ParseHelp: what is offered to follow, and whether <CR> is
HelpOn(m, t) ==
  [cr |-> IF m.ok /\ t = <<>> THEN m.end ELSE 0, items |-> m.found, at |-> m.at]
ParseHelp(tr, toks) == HelpOn(MatchCmdLine(tr, toks), Last(toks))

\* Mutant: the word is looked for from the front.
UpToFirst(line, c) ==
  IF \E i \in DOMAIN line : line[i] = c
  THEN SubSeq(line, 1, CHOOSE i \in DOMAIN line : line[i] = c /\ \A j \in 1 .. i - 1 : line[j] # c)
  ELSE <<>>

\* AutoExpand: the line, its last word completed when that is possible
UpToLast(line, c) ==
  IF \E i \in DOMAIN line : line[i] = c
  THEN SubSeq(line, 1, CHOOSE i \in DOMAIN line : line[i] = c /\ \A j \in i + 1 .. Len(line) : line[j] # c)
  ELSE <<>>

Expanded(m, line) ==
  IF /\ m.ok
     /\ Cardinality(m.found) = 1
     /\ m.end = 0
     /\ \A x \in m.found : x.type = "text"
  THEN UpToLast(line, " ") \o (CHOOSE x \in m.found : TRUE).name \o <<" ", "\t">>
  ELSE line
AutoExpand(tr, toks, line) == Expanded(MatchCmdLine(tr, toks), line)

\* PreParse: what the last word asks for; its last character is then taken
\* off, whether or not that is the one that was asked with
PreParse(toks) ==
  LET asks(c) == \E i \in DOMAIN Last(toks) : Last(toks)[i] = c
      cut == Append(Front(toks), Front(Last(toks)))
  IN  IF asks("?") THEN [mode |-> "help", toks |-> cut]
      ELSE IF asks("\t") THEN [mode |-> "expand", toks |-> cut]
      ELSE [mode |-> "exec", toks |-> toks]

\* ParseInputCmdLine: the line that is given back
ParseInputCmdLine(tr, line) ==
  LET toks == GetToken(line)
      asked == PreParse(toks)
  IN  IF toks # <<>> /\ asked.mode = "expand" THEN AutoExpand(tr, asked.toks, line) ELSE line
=============================================================================
