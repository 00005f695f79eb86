SPECIFICATION FairSpec
CONSTANTS
  Workers = {w1, w2}
  None = None
  Gone = Gone
  LeaseDuration = 3
  RenewDeadline = 2
  MaxHold = 1
  MaxFaults = 1
PROPERTIES AcceptedWhileHeld ReturnsReleased IsClaimLease EveryCallReturns
