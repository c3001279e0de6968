CONSTANTS
  Requests <- MCRequests
  Files <- MCFiles
  Meant <- MCMeant
  Scratch = 9
  Ambients <- MCAmbients
  MaxRequests = 2
SPECIFICATION Spec
INVARIANTS TypeOK AckedIsDone  ShownIsTrue
CHECK_DEADLOCK FALSE
