------------------------------ MODULE MtShell ------------------------------
(***************************************************************************)
(* The loop of the management terminal (CMt::Run, usr/mt/mt_main.cpp): it  *)
(* reads keys into its line editor until a line is entered, asked about or *)
(* a second has passed, looks whether the registered commands have         *)
(* changed, and parses the line.  The terminal has one thread, so that one *)
(* key and all that follows from it, up to the wait for the next one, is   *)
(* one step.                                                               *)
(*                                                                         *)
(* What a line means and how it is completed is for the parser to say      *)
(* (MtTree); what executing it does is in MtParse and MtUa.                *)
(***************************************************************************)
EXTENDS MtInput

CONSTANTS
  Chars,       \* the characters that are typed
  Exit,        \* the line "exit"
  Prompts,     \* the prompts of the views
  Trees,       \* the commands of a view, as they may be registered
  GivenBack(_, _), \* what the parser makes of a line with a TAB in it
  MaxHistory,  \* bound on the lines kept
  MaxLine      \* bound on a line, which grows beyond MaxInput by completion

ASSUME ShellAssumption ==
  /\ Prompts \subseteq Seq(STRING)
  /\ Chars \cap {Ask, Complete} = {} /\ Exit \in Seq(Chars)
  /\ MaxLine \in Nat /\ MaxInput <= MaxLine

\* A line may have a question mark or a TAB in it that it was once asked about
\* with, before its end.
Typed == Chars \union {Ask, Complete}
Lines == UNION {[1 .. n -> Typed] : n \in 0 .. MaxLine}

\* a line without the mark it ends in
Bare(l) == IF l # <<>> /\ Last(l) \in {Ask, Complete} THEN Front(l) ELSE l

\* r is l, or l with something added and a TAB
Completes(r, l) ==
  \/ r = l
  \/ /\ r \in Seq(Typed) /\ r # <<>> /\ Last(r) = Complete
     /\ IsPrefix(Bare(l), Front(r))

\* The parser adds to a line what completes it, or nothing.
ASSUME ParserAssumption ==
  \A t \in Trees : \A l \in {k \in Lines : HasTab(k)} : Completes(GivenBack(t, l), l)

VARIABLES
  input,  \* the line editor
  tree,   \* the commands of the current view
  open    \* the terminal runs

shellVars == <<input, tree, open>>

ShellInit ==
  /\ open = TRUE
  /\ \E p \in Prompts : input = Started(p)
  /\ tree \in Trees

-----------------------------------------------------------------------------
(* What follows from a key                                                 *)

\* ReadLine waits for the next key
Read(s) == input' = s /\ UNCHANGED <<tree, open>>

\* ReadLine goes on with a line that is given back, or with a new one
GoOn(s, strLine, p) ==
  /\ input' = NextLine([s EXCEPT !.prompt = p], strLine)
  /\ Len(input'.hist) <= MaxHistory
  /\ Len(Line(input')) <= MaxLine
  /\ UNCHANGED open

\* ParseInputCmdLine: a line without a TAB is executed or explained
Parsed(l) == IF HasTab(l) THEN GivenBack(tree, l) ELSE l

Leave(s) == open' = FALSE /\ input' = s /\ UNCHANGED tree

\* PollCmdStatus found the flag set: the commands are loaded anew, the root
\* view is entered, and the line is done with, whatever it was
RenewCmds(s) ==
  /\ tree' \in Trees
  /\ \E p \in Prompts : GoOn(s, Line(s), p)

\* ReadLine returned MT_INPUT_SUCCESS.  A command may enter a view.
Returned(s) ==
  IF Line(s) = Exit THEN Leave(s)
  ELSE \/ RenewCmds(s)
       \/ /\ \E p \in Prompts : GoOn(s, Parsed(Line(s)), p)
          /\ UNCHANGED tree

-----------------------------------------------------------------------------
(* The keys                                                                *)

Key(c) == Read(Char(input, c))
BackSpace == Read(ParseBackSpace(input))
CtrlC == Read(ResetCmd(input))

\* ParseFuncKey: what an arrow does, once getchar has read the rest of it
Arrow == \/ Read(Up(input)) \/ Read(Down(input))
         \/ Read(Left(input)) \/ Read(Right(input))

\* Any other function key is skipped, and with it what has been typed since:
\* getchar waits for the next character after the escape, reads ahead of the
\* read of GetChar, and is called until nothing is left or until a tilde comes
\* (at the end of the input for ever).  Nothing else happens meanwhile.
Skipped == Read(input)

Enter == Returned(input)

\* A question mark is part of the line it asks about, wherever the cursor is
Help == Room(input) /\ Returned(AppendChar(input, Ask))

\* as is a TAB
Tab == Room(input) /\ Returned(AppendChar(input, Complete))

\* MT_INPUT_AGAIN: no key for a second
Timeout ==
  IF Line(input) = Exit THEN Leave(input) ELSE RenewCmds(input)

ShellNext ==
  open /\ \/ \E c \in Chars : Key(c)
          \/ BackSpace \/ CtrlC \/ Arrow \/ Skipped \/ Enter \/ Help \/ Tab \/ Timeout

ShellSpec == ShellInit /\ [][ShellNext]_shellVars

-----------------------------------------------------------------------------
(* Properties                                                              *)

\* The screen shows the prompt and the line being edited, its cursor is where
\* the next character goes, and nothing is left of what was there before,
\* although no key draws more than what it thinks has changed (mt_input.cpp
\* draws and erases by counting, lines 173-210).  That is so on every row on
\* which no TAB was drawn: one in the middle of a line stays in it, and when
\* the line is shown again has more columns than are counted for it.
ScreenShowsLine ==
  ~input.tabbed =>
    /\ input.row = Cells(input.prompt \o Line(input), 0)
    /\ input.col = Len(input.prompt) + input.cur

\* What the user has typed is not lost: a line that was entered or asked
\* about, or that a change of the commands interrupted, is given back, without
\* the mark it ends in and with at most something added, or is found among the
\* lines that can be recalled.
Kept(l) ==
  \/ IsPrefix(Bare(l), Line(input)')
  \/ \E i \in DOMAIN input'.hist : input'.hist[i] = l
TypedIsKept ==
  [][ /\ Enter \/ Timeout => Kept(Line(input))
      /\ Help => Kept(Line(AppendChar(input, Ask)))
      /\ Tab => Kept(Line(AppendChar(input, Complete))) ]_shellVars
=============================================================================
