\* Inwards: up and down at any time, a stale RX_COMPLETE, kldunload.  Outwards:
\* a full ring with a frame that waits; the RX_COMPLETE makes the task drop the
\* lock.
CONSTANTS
  RxBufs = 1
  TxLimit = 1
  MaxSend = 1
  Cpus = 1
  Hooked = TRUE
  Receives = TRUE
  Unloads = TRUE
  BootStat = {"rx"}
SPECIFICATION MCSpec
INVARIANTS
  EventsKept
  QuietAtFree
  OactiveWakes
PROPERTY FramesDelivered
