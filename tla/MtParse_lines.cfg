\* Any of eleven commands in any order, and lines of up to four words.
CONSTANTS
  Cmds <- AllCmds
  SelfCmds <- MgrCmds
  ViewCmds <- QuitCmds
  Words <- AllWords
  MaxWords = 4
  StrMax = 8
  IpMax = 16
  ItemMax = 4
  ArrMax = 8
  CommCmdItem <- CommItems
  ULongMod = 65536
SPECIFICATION Spec
INVARIANTS RunsAsTyped Reachable HelpIsTrue
