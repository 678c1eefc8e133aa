SPECIFICATION MCSpec
CONSTANTS
  num_syscalls = 3
  MaxLines = 4
  Programs = {"callingfork", "callingforkandwait", "callfork2", "callexec", "redirection", "fkfile", "indexpath"}
  PATHLEN = 4
  MaxProc = 16
  MAXLINES = 4
  numvals = 5
  Values = {0, 1, 2}
  luckynum = 1
  Libraries = {"greater", "less"}
  Letters = {"a", "b"}
  MaxLength = 6
  MaxFiles = 1
INVARIANTS
  NobodyWaitsInVain
  NeverBothReading
  WaitMakesDeterministic
  NothingOverwritten
  ReportTrue
  FirstFileExact
CHECK_DEADLOCK FALSE
