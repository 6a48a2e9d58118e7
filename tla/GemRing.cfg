CONSTANTS
  NumTx = 7
  NumRx = 2
  Segs = 2
  RxBufs = {0, 1, 2}
  SendQ = 1
  Ids = 9
  None = None
SPECIFICATION Spec
INVARIANT RingsOwned
PROPERTIES
  TransmitsInOrder
  ReceivesInOrder

