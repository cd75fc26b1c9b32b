SPECIFICATION Spec
CONSTANTS
  c1 = c1
  c2 = c2
  w1 = w1
  w2 = w2
  Running = {"sender", "bot", "debts", "hardWork", "withdraw", "search", "history", "snapshot", "burns", "clock", "sync"}
  Calls = {c1, c2}
  Workers = {w1, w2}
  SenderInstance <- MCSender
  BotInstance <- TwoEligible
  DebtsInstance <- MCDebts
  HardWorkInstance <- MCHardWork
  WithdrawInstance <- MCWithdraw
  SearchInstance <- Crashing
  HistoryInstance <- MCHistory
  SnapshotInstance <- MCSnapshot
  BurnsInstance <- MCBurns
  ClockInstance <- MCClock
  SyncInstance <- MCSync
SYMMETRY Symmetry
CHECK_DEADLOCK FALSE
INVARIANTS
  GenerationsAreComplete
  HistoryCanBeReplayed
  SnapshotIsLiquidity
  BurnShortOnlyByRounding
  FuseTimeIsNotOverstated
  CounterIsTick
PROPERTIES
  ImplementsCallOnce
  NeedIsConfirmed
  RefusedIsLeftAlone
  DoneMeansWithdrawn
