\* A sysctl and a scan task; ids wrap after two transactions, and an answer comes
\* up to one transaction late.  The safety properties are proved for all constants.
CONSTANTS
  Callers = {sysctl, scan}
  Sysctls = {sysctl}
  ScanTasks = {scan}
  IdMod = 2
  MaxLag = 1
  RxTq = RxTq
  NoOne = NoOne
SPECIFICATION FairSpec
INVARIANTS
  OneTransaction
  OwnAnswer
  F2ExclusiveWhileRunning
  LocksOutliveCallers
PROPERTIES
  NoDanglingWrite
  ImplementsCalls
  TransactionEnds
  DetachCompletes
