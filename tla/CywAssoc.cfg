\* Two networks, three requests (up, choose, choose or down), one lost link and
\* one key operation; any command may fail.
CONSTANTS
  Bss = {b1, b2}
  MaxRequests = 3
  MaxLosses = 1
  MaxKeyOps = 1
  Faults = TRUE
  NoOne = NoOne
  NoBss = NoBss
SPECIFICATION Spec
INVARIANTS
  SettlesOnChosen
  FollowsLink
  DongleFollows
  NoWaitCycle
CHECK_DEADLOCK FALSE
