SPECIFICATION FairSpec
CONSTANTS
  c1 = c1
  c2 = c2
  w1 = w1
  w2 = w2
  Running = {"bot", "debts", "withdraw", "search"}
  Calls = {c1, c2}
  Workers = {w1, w2}
  SenderInstance <- MCSender
  BotInstance <- OneEligible
  DebtsInstance <- MCDebts
  HardWorkInstance <- MCHardWork
  WithdrawInstance <- MCWithdraw
  SearchInstance <- Unbroken
  HistoryInstance <- MCHistory
  SnapshotInstance <- MCSnapshot
  BurnsInstance <- MCBurns
  ClockInstance <- MCClock
  SyncInstance <- MCSync
CHECK_DEADLOCK FALSE
PROPERTIES
  NeedIsServed
  DebtIsReduced
  Ends
  TaskEnds
