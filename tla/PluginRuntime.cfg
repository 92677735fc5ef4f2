SPECIFICATION FairSpec
CONSTANTS
  user = user
  bundled = bundled
  Plugins = {user, bundled}
  InThread = {bundled}
  Batches <- OneOrTwoBatches
  Prio <- Priorities
  MaxRestarts = 1
  Calls = {call}
  MaxEvents = 1
  None = None
INVARIANTS TypeOK ActivationBacked OneInit FinishedReleased FailoverPending
PROPERTIES HighestClaimAsked LoadSettles
CHECK_DEADLOCK FALSE
