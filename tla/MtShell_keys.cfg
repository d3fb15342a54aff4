\* Lines of two characters, three of them kept.  No deadlock is looked for:
\* the terminal ends when "exit" is typed.
CONSTANTS
  MaxInput = 2
  Chars <- SomeChars
  Exit <- ExitLine
  Prompts <- TwoPrompts
  Trees <- SomeTrees
  GivenBack <- ParseInputCmdLine
  MaxHistory = 3
  MaxLine = 3
  StrMax = 8
  IpMax = 8
  ItemMax = 4
  ULongMod = 256
SPECIFICATION ShellSpec
INVARIANTS ScreenShowsLine
PROPERTIES TypedIsKept
CHECK_DEADLOCK FALSE
