SPECIFICATION FairSpec
CONSTANTS
  Scripts <- ThreeClients
  MaxVersion = 2
  Form <- TwoForms
  Reviewed = {1}
  Sandboxes = 2
  Uses = 2
  Refusals = {400, 422}
  Ceiling = 3
  MaxAttempts = 2
  MaxFaults = 1
  Faults <- Meets
CHECK_DEADLOCK FALSE
INVARIANTS PinnedCallFits ToldWhatHappened
PROPERTIES SuspendedStops ThrottledOnlyWhenFull PostsEnd
