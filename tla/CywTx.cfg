\* Three frames, one of them EAPOL, against a command; sequence numbers wrap,
\* and the seeded ceiling is at, or behind, the number after boot.
CONSTANTS
  NFrames = 3
  Eapol = {2}
  NCommands = 1
  Wrap = 4
  Seed = 2
  Window = 2
  BootSeqs = {2, 3}
SPECIFICATION FairSpec
INVARIANTS
  DataInOrder
  NoneLost
PROPERTY FramesLeave
