SPECIFICATION FairSpec
CONSTANTS
  Events <- MCEvents
  Event <- MCEvent
  NoMessage = NoMessage
  NoEvent = NoEvent
  Capacity = 1
  Endpoints = {e1}
  Filters = {Anything, "codex"}
  NoSub = NoSub
  Anything = Anything
  Unknown = Unknown
INVARIANTS TypeOK OncePerId DeltasPaced FinalsAnnounced SubscriptionKept
PROPERTY PublishReturns
CHECK_DEADLOCK FALSE
