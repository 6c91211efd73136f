SPECIFICATION ContextSpec
CONSTANTS
  Parts = {"odd"}
  NoContent = NoContent
  a = a
  b = b
  Ops = {a, b}
  KindsOf <- MCKindsOf
  Starts <- MCStarts
  MaxId = 6
  Threshold = 2
  KeepTop = 1
  MinAuto = 2
  PromoteUses = 1
  MaxHits = 1
  Talks <- MCTalks
  IdleTalk <- Talk
  Interval = 3
  Reach = 5
  Recent = 3
  Stocks <- MCStocks
  IdleStock <- Still
  Uploads = {"a1", "a2", "a3"}
  Contents = {"x", "y"}
  Conversations = {"k", "l"}
  Requests = {1, 2, 3, 4}
  Desks <- MCDesks
  OddDesks <- MCOddDesks
  IdleDesk <- Desk
  Paths = {"p", "q"}
  Turns = {1, 2}
  MaxLen = 6
  Big = 6
CHECK_DEADLOCK FALSE
INVARIANTS
  BatchAsListed
  RestKept
  OnlyPlace
  EditsKnown
  NewestShown
  FailureIsError
PROPERTY KilledIsQuiet
