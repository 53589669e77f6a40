SPECIFICATION Spec
CONSTANTS
  Jobs = {"keyword", "pushsum", "comment"}
  Retry = 3
  Boards = 1
  QueueCap = 1
  MaxRuns = 3
  MaxErrors = 5
  MaxCrawls = 1
  MaxWaiting = 1
INVARIANTS TypeOK LoopsInv
PROPERTIES AlertsKept Recovered Quiet SentInTheEnd
