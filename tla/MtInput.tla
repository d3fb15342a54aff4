------------------------------ MODULE MtInput ------------------------------
(***************************************************************************)
(* The line editor of the management terminal, CInputLine                  *)
(* (usr/mt/mt_input.cpp), as operators on its state, a record of           *)
(*   hist     m_listHistory: shared strings, the newest first              *)
(*   ptr      which of them m_pstrCmdLine, the line being edited, is       *)
(*   pos      m_CurrCmdPos, the place in the list                          *)
(*   cur      m_CursorPos, as the number of characters before it           *)
(*   prompt   m_strPrompt                                                  *)
(*   row, col what the last row of the screen shows and where its cursor   *)
(*            is, in a terminal that is wide enough                        *)
(*   tabbed   whether a TAB was drawn on that row: it takes the cursor to  *)
(*            the next stop and leaves the columns before that as they     *)
(*            were, so that from then on row and col, in which every       *)
(*            character has one column, say nothing of the screen          *)
(* ptr and pos part when a recalled line is cleared by ctrl-C.             *)
(***************************************************************************)
EXTENDS Naturals, Sequences, SequencesExt

CONSTANT MaxInput   \* MT_MAX_INPUT_LEN

ASSUME MaxInputAssumption == MaxInput \in Nat \ {0}

Blank == " "
\* what a line ends in that is asked about, or to be completed
Ask == "?"
Complete == "\t"

HasTab(l) == \E i \in DOMAIN l : l[i] = Complete

Line(s) == s.hist[s.ptr]
WithLine(s, l) == [s EXCEPT !.hist[s.ptr] = l]

-----------------------------------------------------------------------------
(* The screen                                                              *)

\* a row as the columns that are not blank
Cells(text, col) ==
  [i \in {col + j : j \in {k \in DOMAIN text : text[k] # Blank}} |-> text[i - col]]

Out(s, text) ==
  LET kept == DOMAIN s.row \ (s.col + 1 .. s.col + Len(text))
      new == Cells(text, s.col)
  IN  [s EXCEPT !.row = [i \in kept \union DOMAIN new |-> IF i \in kept THEN @[i] ELSE new[i]],
                !.col = @ + Len(text),
                !.tabbed = @ \/ HasTab(text)]
Cr(s) == [s EXCEPT !.col = 0]
CrLf(s) == [s EXCEPT !.row = Cells(<<>>, 0), !.col = 0, !.tabbed = FALSE]
Back(s, n) == [s EXCEPT !.col = IF n > @ THEN 0 ELSE @ - n]

\* Mutant: the prompt is not counted.
EraseLine(s) == Cr(Out(Cr(s), [i \in 1 .. Len(Line(s)) |-> Blank]))

EraseInput(s) ==
  Cr(Out(Cr(s), [i \in 1 .. Len(s.prompt) + Len(Line(s)) |-> Blank]))

ShowCmd(s) == Back(Out(s, s.prompt \o Line(s)), Len(Line(s)) - s.cur)

RedoCurrLine(s) == ShowCmd([s EXCEPT !.cur = Len(Line(s))])

-----------------------------------------------------------------------------
(* The keys that edit the line                                             *)

Insert(s, c) ==
  [WithLine(s, SubSeq(Line(s), 1, s.cur) \o <<c>> \o SubSeq(Line(s), s.cur + 1, Len(Line(s))))
     EXCEPT !.cur = @ + 1]

Room(s) == Len(Line(s)) < MaxInput

AppendChar(s, c) ==
  IF ~Room(s) THEN s
  ELSE IF s.cur = Len(Line(s)) THEN Insert(s, c)
  ELSE ShowCmd(EraseInput(Insert(s, c)))

\* ReadLine echoes a character before it enters it
Char(s, c) == IF Room(s) THEN AppendChar(Out(s, <<c>>), c) ELSE s

ParseBackSpace(s) ==
  LET e == EraseInput(s)
  IN  IF Line(s) = <<>> THEN s
      ELSE IF s.cur = 0 THEN ShowCmd(e)
      ELSE ShowCmd([WithLine(e, RemoveAt(Line(s), s.cur)) EXCEPT !.cur = @ - 1])

Right(s) ==
  IF s.cur = Len(Line(s)) THEN s
  ELSE [Out(s, <<Line(s)[s.cur + 1]>>) EXCEPT !.cur = @ + 1]

Left(s) == IF s.cur = 0 THEN s ELSE [Back(s, 1) EXCEPT !.cur = @ - 1]

\* GetPrevHistoryCmd and GetNextHistoryCmd
Recalled(s, i) == RedoCurrLine([EraseInput(s) EXCEPT !.pos = i, !.ptr = i])
Up(s) == Recalled(s, IF s.pos = Len(s.hist) THEN s.pos ELSE s.pos + 1)
Down(s) == Recalled(s, IF s.pos = 1 THEN s.pos ELSE s.pos - 1)

\* also ctrl-C, which clears the line wherever it is and stays with it
ResetCmd(s) == ShowCmd(CrLf([WithLine(s, <<>>) EXCEPT !.pos = 1, !.cur = 0]))

-----------------------------------------------------------------------------
(* The next line                                                           *)

\* A line that was recalled is put in front of the others, where the line
\* was that had not been entered.
AppendHistory(s) == IF s.pos = 1 THEN s ELSE [s EXCEPT !.hist[1] = Line(s)]

\* Mutant: the next line takes the string of the last.
SameLine(s) == ResetCmd(s)

NewLine(s) ==
  ResetCmd(IF Line(s) = <<>> THEN s
           ELSE [s EXCEPT !.hist = << <<>> >> \o @, !.ptr = 1])

\* ReadLine with MT_INPUT_FLAG_NORM: a line that ends in what it was asked
\* with is given back without it, any other is done with
NextLine(s, strLine) ==
  IF strLine # <<>> /\ Last(strLine) \in {Ask, Complete}
  THEN RedoCurrLine(CrLf(WithLine(s, Front(strLine))))
  ELSE NewLine(AppendHistory(s))

\* the first line
Started(prompt) ==
  ShowCmd([hist |-> << <<>> >>, ptr |-> 1, pos |-> 1, cur |-> 0,
           prompt |-> prompt, row |-> Cells(<<>>, 0), col |-> 0, tabbed |-> FALSE])
=============================================================================
