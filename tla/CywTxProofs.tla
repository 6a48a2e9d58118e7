----------------------------- MODULE CywTxProofs -----------------------------
(***************************************************************************)
(* Proofs about CywTx, for any number of frames and commands, any window   *)
(* and any range of sequence numbers.                                      *)
(***************************************************************************)
EXTENDS CywTx, TLAPS

\* The frames of a sequence are in the order of their submission.
Rising(s) == \A i, j \in DOMAIN s : i < j => s[i] < s[j]

\* cyw_tx_task has a frame in hand from the unlinking to the write, and its list
\* is empty when it does not run.
InHand ==
  /\ tx.pc \in {"idle", "pick"} <=> tx.m = 0
  /\ tx.pc = "idle" => list = << >>

\* What is on the wire was submitted before what is in hand, that before what is
\* on the list, and that before what is on the queue.
Stages ==
  /\ Rising(queue)
  /\ Rising(list)
  /\ \A g \in ToSet(queue) : g < next
  /\ \A f \in ToSet(list) : f < next /\ \A g \in ToSet(queue) : f < g
  /\ tx.m < next
  /\ tx.m # 0 => \A g \in ToSet(list) \cup ToSet(queue) : tx.m < g
  /\ \A f \in ToSet(wire) :
       /\ f < next
       /\ tx.m # 0 => f < tx.m
       /\ \A g \in ToSet(list) \cup ToSet(queue) : f < g

\* A frame that was submitted is somewhere, and a freed one nowhere else.
Accounted ==
  /\ \A f \in Data :
       f < next <=> \/ f \in ToSet(queue) \/ f \in ToSet(list) \/ f = tx.m
                    \/ f \in ToSet(wire) \/ f \in dropped
  /\ \A f \in dropped :
       f \notin ToSet(queue) \cup ToSet(list) \cup ToSet(wire) /\ f # tx.m

\* The inductive invariant; a sender that still has to enqueue the task submitted
\* a frame, which bounds their number.
IInv ==
  /\ TypeOK
  /\ kicks < next
  /\ InHand
  /\ Stages
  /\ DataInOrder
  /\ Accounted
  /\ QueueHasTask

-----------------------------------------------------------------------------
(* Sequences.                                                              *)

\* What a sequence is with an element more.
LEMMA AppendFacts ==
  ASSUME NEW S, NEW s \in Seq(S), NEW e \in S
  PROVE  /\ Append(s, e) \in Seq(S)
         /\ Len(s) \in Nat
         /\ DOMAIN s = 1 .. Len(s)
         /\ Len(Append(s, e)) = Len(s) + 1
         /\ DOMAIN Append(s, e) = 1 .. (Len(s) + 1)
         /\ \A i \in 1 .. Len(s) : Append(s, e)[i] = s[i]
         /\ Append(s, e)[Len(s) + 1] = e
OBVIOUS

\* It has what it had and the element.
LEMMA ToSetAppend ==
  ASSUME NEW S, NEW s \in Seq(S), NEW e \in S
  PROVE  ToSet(Append(s, e)) = ToSet(s) \cup {e}
<1>1. ASSUME NEW x \in ToSet(Append(s, e)) PROVE x \in ToSet(s) \cup {e}
  <2>1. PICK i \in DOMAIN Append(s, e) : x = Append(s, e)[i]
    BY <1>1 DEF ToSet
  <2>2. i \in 1 .. Len(s) \/ i = Len(s) + 1
    BY <2>1, AppendFacts
  <2>3. QED
    BY <2>1, <2>2, AppendFacts DEF ToSet
<1>2. ASSUME NEW x \in ToSet(s) PROVE x \in ToSet(Append(s, e))
  <2>1. PICK i \in 1 .. Len(s) : x = s[i]
    BY <1>2, AppendFacts DEF ToSet
  <2>2. i \in DOMAIN Append(s, e) /\ Append(s, e)[i] = x
    BY <2>1, AppendFacts
  <2>3. QED
    BY <2>2 DEF ToSet
<1>3. e \in ToSet(Append(s, e))
  BY AppendFacts DEF ToSet
<1>4. QED
  BY <1>1, <1>2, <1>3

\* The elements of a sequence are of its type.
LEMMA ToSetType == ASSUME NEW S, NEW s \in Seq(S) PROVE ToSet(s) \subseteq S
BY DEF ToSet

\* What a sequence is without its first element.
LEMMA TailFacts ==
  ASSUME NEW S, NEW s \in Seq(S), s # << >>
  PROVE  /\ Tail(s) \in Seq(S)
         /\ Head(s) \in S
         /\ Len(s) \in Nat \ {0}
         /\ DOMAIN s = 1 .. Len(s)
         /\ Head(s) = s[1]
         /\ DOMAIN Tail(s) = 1 .. (Len(s) - 1)
         /\ \A i \in 1 .. (Len(s) - 1) : Tail(s)[i] = s[i + 1]
OBVIOUS

\* It has its first element and what its tail has.
LEMMA ToSetTail ==
  ASSUME NEW S, NEW s \in Seq(S), s # << >>
  PROVE  ToSet(s) = {Head(s)} \cup ToSet(Tail(s))
<1>1. ASSUME NEW x \in ToSet(s) PROVE x \in {Head(s)} \cup ToSet(Tail(s))
  <2>1. PICK i \in 1 .. Len(s) : x = s[i]
    BY <1>1, TailFacts DEF ToSet
  <2>2. CASE i = 1
    BY <2>1, <2>2, TailFacts
  <2>3. CASE i # 1
    <3>1. i - 1 \in DOMAIN Tail(s) /\ Tail(s)[i - 1] = x
      BY <2>1, <2>3, TailFacts
    <3>2. QED
      BY <3>1 DEF ToSet
  <2>4. QED
    BY <2>2, <2>3
<1>2. ASSUME NEW x \in ToSet(Tail(s)) PROVE x \in ToSet(s)
  <2>1. PICK i \in 1 .. (Len(s) - 1) : x = Tail(s)[i]
    BY <1>2, TailFacts DEF ToSet
  <2>2. i + 1 \in DOMAIN s /\ s[i + 1] = x
    BY <2>1, TailFacts
  <2>3. QED
    BY <2>2 DEF ToSet
<1>3. Head(s) \in ToSet(s)
  BY TailFacts DEF ToSet
<1>4. QED
  BY <1>1, <1>2, <1>3

-----------------------------------------------------------------------------
(* Types.                                                                  *)

\* A number modulo Wrap is a sequence number.
LEMMA ModSeq == \A n \in Int : n % Wrap \in Seqs
BY TxAssumption DEF Seqs

\* What is written to the records of the two senders is of their type.
LEMMA Records ==
  /\ 0 \in Seqs
  /\ \A p \in TxPCs, m \in 0 .. NFrames, n \in Seqs :
       [pc |-> p, m |-> m, seq |-> n] \in [pc : TxPCs, m : 0 .. NFrames, seq : Seqs]
  /\ \A p \in CmdPCs, n \in Seqs :
       [pc |-> p, seq |-> n] \in [pc : CmdPCs, seq : Seqs]
BY TxAssumption DEF Seqs

\* Every action keeps the types, and no more senders than frames have to enqueue
\* the task.
LEMMA TypeStep ==
  TypeOK /\ InHand /\ kicks < next /\ [Next]_vars => TypeOK' /\ kicks' < next'
<1> SUFFICES ASSUME TypeOK, InHand, kicks < next, [Next]_vars
             PROVE  TypeOK' /\ kicks' < next'
  OBVIOUS
<1> USE TxAssumption DEF TypeOK, queueVars, creditVars
<1>1. CASE NewState
  BY <1>1 DEF NewState
<1>2. CASE VapTransmit
  <2>1. next \in Data /\ queue \in Seq(Data)
    BY <1>2 DEF VapTransmit, Data
  <2>2. queue' \in Seq(Data) /\ dropped' \in SUBSET Data
    <3>1. CASE running \/ next \in Eapol
      <4>1. Append(queue, next) \in Seq(Data)
        BY <2>1
      <4>2. QED
        BY <1>2, <3>1, <4>1 DEF VapTransmit
    <3>2. CASE ~(running \/ next \in Eapol)
      BY <1>2, <2>1, <3>2 DEF VapTransmit
    <3>3. QED
      BY <3>1, <3>2
  <2>3. QED
    BY <1>2, <2>2 DEF VapTransmit
<1>3. CASE VapEnqueue
  BY <1>3 DEF VapEnqueue
<1>4. CASE TxStart
  <2>1. << >> \in Seq(Data)
    OBVIOUS
  <2>2. QED
    BY <1>4, <2>1 DEF TxStart, TxPCs
<1>5. CASE TxPick
  <2>1. CASE list = << >>
    BY <1>5, <2>1 DEF TxPick, TxPCs, Seqs
  <2>2. CASE list # << >>
    <3>1. Head(list) \in Data /\ Tail(list) \in Seq(Data)
      BY <2>2
    <3>2. tx' \in [pc : TxPCs, m : 0 .. NFrames, seq : Seqs]
      BY <1>5, <2>2, <3>1, Records DEF TxPick, TxPCs, Data
    <3>3. QED
      BY <1>5, <2>2, <3>1, <3>2 DEF TxPick
  <2>3. QED
    BY <2>1, <2>2
<1>6. CASE TxDrop
  <2>1. tx.m \in Data
    BY <1>6 DEF TxDrop, InHand, Data
  <2>2. dropped' \in SUBSET Data
    BY <1>6, <2>1 DEF TxDrop
  <2>3. tx' \in [pc : TxPCs, m : 0 .. NFrames, seq : Seqs]
    BY <1>6, Records DEF TxDrop, TxPCs
  <2>4. QED
    BY <1>6, <2>2, <2>3 DEF TxDrop
<1>7. CASE TxCheck
  BY <1>7 DEF TxCheck, TxPCs
<1>8. CASE TxLock
  BY <1>8 DEF TxLock, TxPCs
<1>9. CASE TxLoad
  BY <1>9 DEF TxLoad, TxPCs
<1>10. CASE TxStore
  <2>1. tx_seq' \in Seqs
    <3>1. tx.seq + 1 \in Int
      BY DEF Seqs
    <3>2. QED
      BY <1>10, <3>1, ModSeq DEF TxStore
  <2>2. QED
    BY <1>10, <2>1 DEF TxStore, TxPCs
<1>11. CASE TxWrite
  <2>1. tx.m \in Data /\ tx.m \in 0 .. NFrames
    BY <1>11 DEF TxWrite, InHand, Data
  <2>2. dropped' \in SUBSET Data
    BY <1>11, <2>1 DEF TxWrite
  <2>3. tx' \in [pc : TxPCs, m : 0 .. NFrames, seq : Seqs]
    BY <1>11, Records DEF TxWrite, TxPCs
  <2>4. wire' \in Seq(0 .. NFrames) /\ consumed' \in 0 .. Len(wire')
    <3>1. wire' \in {wire, Append(wire, tx.m)} /\ consumed' = consumed
      BY <1>11 DEF TxWrite, Send
    <3>2. tx.m \in 0 .. NFrames /\ wire \in Seq(0 .. NFrames)
      BY <2>1, TxAssumption
    <3>3. /\ Append(wire, tx.m) \in Seq(0 .. NFrames)
          /\ Len(wire) \in Nat /\ Len(Append(wire, tx.m)) = Len(wire) + 1
      BY <3>2, AppendFacts
    <3>4. CASE wire' = wire
      BY <3>1, <3>4
    <3>5. CASE wire' = Append(wire, tx.m)
      <4>1. Len(wire') = Len(wire) + 1
        BY <3>3, <3>5
      <4>2. consumed' \in 0 .. Len(wire')
        BY <3>1, <3>3, <4>1
      <4>3. QED
        BY <3>3, <3>5, <4>2
    <3>6. QED
      BY <3>1, <3>4, <3>5
  <2>5. overrun' \in BOOLEAN
    BY <1>11 DEF TxWrite, Send
  <2>6. QED
    BY <1>11, <2>2, <2>3, <2>4, <2>5 DEF TxWrite
<1>12. CASE Receive
  <2>1. base + consumed + Window \in Int
    BY DEF Seqs
  <2>2. rx_max' \in Seqs
    BY <1>12, <2>1, ModSeq DEF Receive
  <2>3. QED
    BY <1>12, <2>2 DEF Receive
<1>13. CASE CmdBegin
  <2>1. commands' \in 0 .. NCommands
    BY <1>13, SMTT(20) DEF CmdBegin
  <2>2. QED
    BY <1>13, <2>1 DEF CmdBegin, CmdPCs
<1>14. CASE CmdNoCredit
  BY <1>14, Records DEF CmdNoCredit, CmdPCs
<1>15. CASE CmdCheck
  BY <1>15 DEF CmdCheck, CmdPCs
<1>16. CASE CmdLoad
  BY <1>16 DEF CmdLoad, CmdPCs
<1>17. CASE CmdStore
  <2>1. tx_seq' \in Seqs
    <3>1. cmd.seq + 1 \in Int
      BY DEF Seqs
    <3>2. QED
      BY <1>17, <3>1, ModSeq DEF CmdStore
  <2>2. QED
    BY <1>17, <2>1 DEF CmdStore, CmdPCs
<1>18. CASE CmdLock
  BY <1>18 DEF CmdLock, CmdPCs
<1>19. CASE CmdWrite
  <2>1. wire' \in Seq(0 .. NFrames) /\ consumed' \in 0 .. Len(wire')
    <3>1. wire' \in {wire, Append(wire, 0)} /\ consumed' = consumed
      BY <1>19 DEF CmdWrite, Send
    <3>2. 0 \in 0 .. NFrames /\ wire \in Seq(0 .. NFrames)
      BY TxAssumption
    <3>3. /\ Append(wire, 0) \in Seq(0 .. NFrames)
          /\ Len(wire) \in Nat /\ Len(Append(wire, 0)) = Len(wire) + 1
      BY <3>2, AppendFacts
    <3>4. CASE wire' = wire
      BY <3>1, <3>4
    <3>5. CASE wire' = Append(wire, 0)
      <4>1. Len(wire') = Len(wire) + 1
        BY <3>3, <3>5
      <4>2. consumed' \in 0 .. Len(wire')
        BY <3>1, <3>3, <4>1
      <4>3. QED
        BY <3>3, <3>5, <4>2
    <3>6. QED
      BY <3>1, <3>4, <3>5
  <2>2. overrun' \in BOOLEAN
    BY <1>19 DEF CmdWrite, Send
  <2>3. QED
    BY <1>19, <2>1, <2>2, Records DEF CmdWrite, CmdPCs
<1>20. CASE ChipConsume
  <2>1. Len(wire) \in Nat
    OBVIOUS
  <2>2. QED
    BY <1>20, <2>1 DEF ChipConsume
<1>21. CASE Detach
  <2>1. ToSet(queue) \in SUBSET Data /\ << >> \in Seq(Data)
    BY DEF ToSet
  <2>2. QED
    BY <1>21, <2>1 DEF Detach
<1>22. CASE Detached
  BY <1>22 DEF Detached, vars
<1>23. CASE UNCHANGED vars
  BY <1>23 DEF vars
<1>24. QED
  BY <1>1, <1>2, <1>3, <1>4, <1>5, <1>6, <1>7, <1>8, <1>9, <1>10, <1>11, <1>12,
    <1>13, <1>14, <1>15, <1>16, <1>17, <1>18, <1>19, <1>20, <1>21, <1>22, <1>23
    DEF Next, TxTask, Command

-----------------------------------------------------------------------------
(* The way of the frames.                                                  *)

\* Where frames are, as one invariant: no part of it is inductive alone.
Way == InHand /\ Stages /\ DataInOrder /\ Accounted

\* Frames are numbers.
LEMMA Numbers ==
  ASSUME TypeOK
  PROVE  /\ ToSet(queue) \subseteq Data /\ ToSet(list) \subseteq Data
         /\ ToSet(wire) \subseteq 0 .. NFrames
         /\ tx.m \in Nat /\ next \in Nat \ {0}
         /\ \A f \in Data : f \in Nat \ {0}
         /\ \A f \in 0 .. NFrames : f \in Nat
<1>1. /\ queue \in Seq(Data) /\ list \in Seq(Data) /\ wire \in Seq(0 .. NFrames)
      /\ tx.m \in 0 .. NFrames /\ next \in 1 .. (NFrames + 1)
  BY DEF TypeOK
<1>2. QED
  BY <1>1, ToSetType, TxAssumption DEF Data

\* Steps that move no frame.
LEMMA QuietStep ==
  ASSUME TypeOK, Way, UNCHANGED <<queue, list, wire, dropped, next>>,
         tx'.m = tx.m,
         tx'.pc = tx.pc \/ {tx.pc, tx'.pc} \cap {"idle", "pick"} = {}
  PROVE  Way'
<1>1. InHand'
  BY DEF Way, InHand
<1>2. Stages' /\ Accounted'
  BY DEF Way, Stages, Accounted, Rising
<1>3. DataInOrder'
  BY DEF Way, DataInOrder
<1>4. QED
  BY <1>1, <1>2, <1>3 DEF Way

\* A frame the stack submits is the last of the queue, or freed.
LEMMA TransmitStep == TypeOK /\ Way /\ VapTransmit => Way'
<1> SUFFICES ASSUME TypeOK, Way, VapTransmit
             PROVE  Way'
  OBVIOUS
<1>1. /\ next \in Data /\ next \in Nat /\ next' = next + 1
      /\ UNCHANGED <<list, tx, wire>>
      /\ queue \in Seq(Data)
  BY DEF VapTransmit, TypeOK, Data
<1>2. InHand' /\ DataInOrder'
  BY <1>1 DEF Way, InHand, DataInOrder
<1>3. /\ \A f \in ToSet(queue) \cup ToSet(list) \cup ToSet(wire) : f \in Nat /\ f < next
      /\ tx.m \in Nat /\ tx.m < next
  BY Numbers DEF Way, Stages
<1>4. next \notin dropped
  BY <1>1 DEF Way, Accounted
<1>5. CASE running \/ next \in Eapol
  <2>1. queue' = Append(queue, next) /\ dropped' = dropped
    BY <1>5 DEF VapTransmit
  <2>2. ToSet(queue') = ToSet(queue) \cup {next}
    BY <1>1, <2>1, ToSetAppend
  <2>3. Rising(queue')
    <3>1. ASSUME NEW i \in DOMAIN queue', NEW j \in DOMAIN queue', i < j
          PROVE  queue'[i] < queue'[j]
      <4>1. i \in 1 .. Len(queue) /\ queue'[i] = queue[i]
        BY <1>1, <2>1, <3>1, AppendFacts
      <4>2. CASE j = Len(queue) + 1
        <5>1. queue'[j] = next /\ queue[i] \in ToSet(queue)
          BY <1>1, <2>1, <4>1, <4>2, AppendFacts DEF ToSet
        <5>2. QED
          BY <4>1, <5>1, <1>3
      <4>3. CASE j # Len(queue) + 1
        <5>1. j \in 1 .. Len(queue) /\ queue'[j] = queue[j]
          BY <1>1, <2>1, <4>3, AppendFacts
        <5>2. QED
          BY <1>1, <3>1, <4>1, <5>1, AppendFacts DEF Way, Stages, Rising
      <4>4. QED
        BY <4>2, <4>3
    <3>2. QED
      BY <3>1 DEF Rising
  <2>4. Stages'
    BY <1>1, <1>3, <2>2, <2>3 DEF Way, Stages, Rising
  <2>5. Accounted'
    BY <1>1, <1>3, <1>4, <2>1, <2>2 DEF Way, Accounted, Data
  <2>6. QED
    BY <1>2, <2>4, <2>5 DEF Way
<1>6. CASE ~(running \/ next \in Eapol)
  <2>1. queue' = queue /\ dropped' = dropped \cup {next}
    BY <1>6 DEF VapTransmit
  <2>2. Stages'
    BY <1>1, <1>3, <2>1 DEF Way, Stages, Rising
  <2>3. Accounted'
    BY <1>1, <1>3, <1>4, <2>1 DEF Way, Accounted, Data
  <2>4. QED
    BY <1>2, <2>2, <2>3 DEF Way
<1>7. QED
  BY <1>5, <1>6

\* The task takes the queue as its list, which was empty.
LEMMA StartStep == TypeOK /\ Way /\ TxStart => Way'
<1> SUFFICES ASSUME TypeOK, Way, TxStart
             PROVE  Way'
  OBVIOUS
<1>1. /\ list = << >> /\ list' = queue /\ queue' = << >>
      /\ tx.m = 0 /\ tx'.m = 0 /\ tx'.pc = "pick"
      /\ UNCHANGED <<wire, dropped, next>>
  BY DEF TxStart, Way, InHand, TypeOK
<1>2. ToSet(<< >>) = {}
  BY DEF ToSet
<1>3. InHand' /\ DataInOrder'
  BY <1>1 DEF InHand, Way, DataInOrder
<1>4. Stages'
  BY <1>1, <1>2 DEF Way, Stages, Rising
<1>5. Accounted'
  BY <1>1, <1>2 DEF Way, Accounted
<1>6. QED
  BY <1>3, <1>4, <1>5 DEF Way

\* The head of the list comes in hand.
LEMMA PickStep == TypeOK /\ Way /\ TxPick => Way'
<1> SUFFICES ASSUME TypeOK, Way, TxPick
             PROVE  Way'
  OBVIOUS
<1>1. tx.m = 0 /\ UNCHANGED <<queue, wire, dropped, next>> /\ list \in Seq(Data)
  BY DEF TxPick, Way, InHand, queueVars, TypeOK
<1>2. DataInOrder'
  BY <1>1 DEF Way, DataInOrder
<1>3. CASE list = << >>
  <2>1. tx'.m = 0 /\ tx'.pc = "idle" /\ list' = list
    BY <1>3 DEF TxPick
  <2>2. InHand'
    BY <1>3, <2>1 DEF InHand
  <2>3. Stages' /\ Accounted'
    BY <1>1, <2>1 DEF Way, Stages, Accounted, Rising
  <2>4. QED
    BY <1>2, <2>2, <2>3 DEF Way
<1>4. CASE list # << >>
  <2>1. /\ tx'.m = Head(list) /\ tx'.pc = "check" /\ list' = Tail(list)
        /\ Head(list) \in Data /\ Head(list) \in Nat \ {0}
    <3>1. Head(list) \in Data
      BY <1>1, <1>4
    <3>2. QED
      BY <1>4, <3>1, Numbers DEF TxPick
  <2>2. InHand'
    BY <2>1 DEF InHand
  <2>3. ToSet(list) = {Head(list)} \cup ToSet(list')
    BY <1>1, <1>4, <2>1, ToSetTail
  <2>4. \A g \in ToSet(list') : Head(list) < g
    <3>1. ASSUME NEW g \in ToSet(list') PROVE Head(list) < g
      <4>1. PICK i \in 1 .. (Len(list) - 1) : g = Tail(list)[i]
        BY <1>1, <1>4, <2>1, <3>1, TailFacts DEF ToSet
      <4>2. /\ g = list[i + 1] /\ Head(list) = list[1]
            /\ 1 \in DOMAIN list /\ i + 1 \in DOMAIN list /\ 1 < i + 1
        BY <1>1, <1>4, <4>1, TailFacts
      <4>3. QED
        BY <4>2 DEF Way, Stages, Rising
    <3>2. QED
      BY <3>1
  <2>5. Rising(list')
    <3>1. ASSUME NEW i \in DOMAIN list', NEW j \in DOMAIN list', i < j
          PROVE  list'[i] < list'[j]
      <4>1. /\ i + 1 \in DOMAIN list /\ j + 1 \in DOMAIN list /\ i + 1 < j + 1
            /\ list'[i] = list[i + 1] /\ list'[j] = list[j + 1]
        BY <1>1, <1>4, <2>1, <3>1, TailFacts
      <4>2. QED
        BY <4>1 DEF Way, Stages, Rising
    <3>2. QED
      BY <3>1 DEF Rising
  <2>6. Stages'
    <3>1. Rising(queue') /\ Rising(list') /\ tx'.m < next'
      BY <1>1, <2>1, <2>3, <2>5 DEF Way, Stages, Rising
    <3>2. \A f \in ToSet(list') : f \in ToSet(list)
      BY <2>3
    <3>3. QED
      BY <1>1, <2>1, <2>3, <2>4, <3>1, <3>2 DEF Way, Stages
  <2>7. Accounted'
    <3>1. Head(list) \notin ToSet(list')
      BY <2>1, <2>4
    <3>2. QED
      BY <1>1, <2>1, <2>3, <3>1 DEF Way, Accounted, Data
  <2>8. QED
    BY <1>2, <2>2, <2>6, <2>7 DEF Way
<1>5. QED
  BY <1>3, <1>4

\* The frame in hand is freed unsent ...
LEMMA DropStep ==
  ASSUME TypeOK, Way, tx.pc \notin {"idle", "pick"},
         tx' = [pc |-> "pick", m |-> 0, seq |-> 0],
         dropped' = dropped \cup {tx.m},
         UNCHANGED <<next, queue, list, wire>>
  PROVE  Way'
<1>1. tx.m \in Data /\ tx.m # 0
  BY DEF Way, InHand, TypeOK, Data
<1>2. InHand' /\ DataInOrder'
  BY DEF Way, InHand, DataInOrder
<1>3. Stages'
  BY <1>1, TxAssumption DEF Way, Stages, Rising, TypeOK, Data
<1>4. Accounted'
  <2>1. tx.m \notin ToSet(queue) \cup ToSet(list) \cup ToSet(wire)
    BY <1>1 DEF Way, Stages, Data
  <2>2. 0 \notin Data
    BY DEF Data
  <2>3. 0 \notin dropped'
    BY <1>1, <2>2 DEF TypeOK
  <2>4. QED
    BY <1>1, <2>1, <2>2, <2>3 DEF Way, Accounted
<1>5. QED
  BY <1>2, <1>3, <1>4 DEF Way

\* ... or goes to the wire, behind what is there.
LEMMA SendStep ==
  ASSUME TypeOK, Way, tx.pc \notin {"idle", "pick"},
         tx' = [pc |-> "pick", m |-> 0, seq |-> 0],
         wire' = Append(wire, tx.m),
         UNCHANGED <<next, queue, list, dropped>>
  PROVE  Way'
<1>1. tx.m \in Data /\ tx.m # 0 /\ tx.m \in 0 .. NFrames
      /\ wire \in Seq(0 .. NFrames)
  BY DEF Way, InHand, TypeOK, Data
<1>2. InHand'
  BY DEF Way, InHand
<1>3. ToSet(wire') = ToSet(wire) \cup {tx.m}
  <2> DEFINE S == 0 .. NFrames
  <2> HIDE DEF S
  <2>0. wire \in Seq(S) /\ tx.m \in S
    BY <1>1 DEF S
  <2>1. ToSet(Append(wire, tx.m)) = ToSet(wire) \cup {tx.m}
    BY <2>0, ToSetAppend
  <2>2. QED
    BY <2>1
<1>4. \A f \in ToSet(wire) : f < tx.m
  BY <1>1 DEF Way, Stages
<1>5. DataInOrder'
  <2>1. ASSUME NEW i \in DOMAIN wire', NEW j \in DOMAIN wire', i < j,
               wire'[i] # 0, wire'[j] # 0
        PROVE  wire'[i] < wire'[j]
    <3>1. i \in 1 .. Len(wire) /\ wire'[i] = wire[i]
      BY <1>1, <2>1, AppendFacts
    <3>2. CASE j = Len(wire) + 1
      <4>1. wire'[j] = tx.m /\ wire[i] \in ToSet(wire)
        BY <1>1, <3>1, <3>2, AppendFacts DEF ToSet
      <4>2. QED
        BY <1>4, <3>1, <4>1
    <3>3. CASE j # Len(wire) + 1
      <4>1. j \in 1 .. Len(wire) /\ wire'[j] = wire[j]
        BY <1>1, <3>3, AppendFacts
      <4>2. QED
        BY <1>1, <2>1, <3>1, <4>1, AppendFacts DEF Way, DataInOrder
    <3>4. QED
      BY <3>2, <3>3
  <2>2. QED
    BY <2>1 DEF DataInOrder
<1>6. Stages'
  BY <1>1, <1>3, TxAssumption DEF Way, Stages, Rising, TypeOK, Data
<1>7. Accounted'
  <2>1. 0 \notin dropped /\ 0 \notin Data
    BY DEF TypeOK, Data
  <2>2. tx.m \notin dropped
    BY DEF Way, Accounted
  <2>3. QED
    BY <1>3, <2>1, <2>2 DEF Way, Accounted
<1>8. QED
  BY <1>2, <1>5, <1>6, <1>7 DEF Way

\* A command on the wire is no frame.
LEMMA CommandStep ==
  ASSUME TypeOK, Way, wire' \in {wire, Append(wire, 0)},
         UNCHANGED <<next, queue, list, dropped, tx>>
  PROVE  Way'
<1>1. wire \in Seq(0 .. NFrames) /\ 0 \in 0 .. NFrames
  BY TxAssumption DEF TypeOK
<1>2. CASE wire' = wire
  BY <1>2 DEF Way, InHand, Stages, DataInOrder, Accounted, Rising
<1>3. CASE wire' = Append(wire, 0)
  <2>1. ToSet(wire') = ToSet(wire) \cup {0}
    <3> DEFINE S == 0 .. NFrames
    <3> HIDE DEF S
    <3>0. wire \in Seq(S) /\ 0 \in S
      BY <1>1 DEF S
    <3>1. ToSet(Append(wire, 0)) = ToSet(wire) \cup {0}
      BY <3>0, ToSetAppend
    <3>2. QED
      BY <1>3, <3>1
  <2>2. DataInOrder'
    <3>1. \A i \in DOMAIN wire' :
            wire'[i] # 0 => i \in DOMAIN wire /\ wire'[i] = wire[i]
      BY <1>1, <1>3, AppendFacts
    <3>2. QED
      BY <3>1 DEF Way, DataInOrder
  <2>3. Stages'
    <3>1. /\ tx.m \in Nat /\ next \in Nat \ {0}
          /\ \A g \in ToSet(list) \cup ToSet(queue) : g \in Nat \ {0}
      BY Numbers
    <3>2. QED
      BY <2>1, <3>1 DEF Way, Stages, Rising
  <2>4. Accounted'
    <3>1. 0 \notin dropped /\ 0 \notin Data
      BY DEF TypeOK, Data
    <3>2. QED
      BY <2>1, <3>1 DEF Way, Accounted
  <2>5. QED
    BY <2>2, <2>3, <2>4 DEF Way, InHand
<1>4. QED
  BY <1>2, <1>3

\* The detach frees what is left on the queue.
LEMMA DetachStep == TypeOK /\ Way /\ Detach => Way'
<1> SUFFICES ASSUME TypeOK, Way, Detach
             PROVE  Way'
  OBVIOUS
<1>1. /\ list = << >> /\ tx.m = 0 /\ queue' = << >>
      /\ dropped' = dropped \cup ToSet(queue)
      /\ UNCHANGED <<list, tx, wire, next>>
  BY DEF Detach, Way, InHand
<1>2. ToSet(<< >>) = {}
  BY DEF ToSet
<1>3. InHand' /\ DataInOrder'
  BY <1>1 DEF Way, InHand, DataInOrder
<1>4. Stages'
  BY <1>1, <1>2 DEF Way, Stages, Rising
<1>5. Accounted'
  <2>1. \A g \in ToSet(queue) : g # 0 /\ g \notin ToSet(wire)
    BY Numbers DEF Way, Stages
  <2>2. QED
    BY <1>1, <1>2, <2>1 DEF Way, Accounted
<1>6. QED
  BY <1>3, <1>4, <1>5 DEF Way

-----------------------------------------------------------------------------
(* The invariant.                                                          *)

\* Every action keeps the order of the stages and every frame in one of them.
LEMMA WayStep == TypeOK /\ Way /\ [Next]_vars => Way'
<1> SUFFICES ASSUME TypeOK, Way, [Next]_vars
             PROVE  Way'
  OBVIOUS
<1>1. CASE NewState
  BY <1>1, QuietStep DEF NewState, queueVars
<1>2. CASE VapEnqueue
  BY <1>2, QuietStep DEF VapEnqueue, queueVars
<1>3. CASE TxCheck
  BY <1>3, QuietStep DEF TxCheck, queueVars, TypeOK, TxPCs
<1>4. CASE TxLock
  BY <1>4, QuietStep DEF TxLock, queueVars, TypeOK, TxPCs
<1>5. CASE TxLoad
  BY <1>5, QuietStep DEF TxLoad, queueVars, TypeOK, TxPCs
<1>6. CASE TxStore
  BY <1>6, QuietStep DEF TxStore, queueVars, TypeOK, TxPCs
<1>7. CASE Receive
  BY <1>7, QuietStep DEF Receive, queueVars
<1>8. CASE CmdBegin
  BY <1>8, QuietStep DEF CmdBegin, queueVars
<1>9. CASE CmdNoCredit
  BY <1>9, QuietStep DEF CmdNoCredit, queueVars
<1>10. CASE CmdCheck
  BY <1>10, QuietStep DEF CmdCheck, queueVars
<1>11. CASE CmdLoad
  BY <1>11, QuietStep DEF CmdLoad, queueVars
<1>12. CASE CmdStore
  BY <1>12, QuietStep DEF CmdStore, queueVars
<1>13. CASE CmdLock
  BY <1>13, QuietStep DEF CmdLock, queueVars
<1>14. CASE ChipConsume
  BY <1>14, QuietStep DEF ChipConsume, queueVars
<1>15. CASE VapTransmit
  BY <1>15, TransmitStep
<1>16. CASE TxStart
  BY <1>16, StartStep
<1>17. CASE TxPick
  BY <1>17, PickStep
<1>18. CASE TxDrop
  BY <1>18, DropStep DEF TxDrop
<1>19. CASE TxWrite
  BY <1>19, DropStep, SendStep DEF TxWrite, Send
<1>20. CASE CmdWrite
  BY <1>20, CommandStep DEF CmdWrite, Send, queueVars
<1>21. CASE Detach
  BY <1>21, DetachStep
<1>22. CASE Detached \/ UNCHANGED vars
  BY <1>22, QuietStep DEF Detached, vars, queueVars
<1>23. QED
  BY <1>1, <1>2, <1>3, <1>4, <1>5, <1>6, <1>7, <1>8, <1>9, <1>10, <1>11, <1>12,
    <1>13, <1>14, <1>15, <1>16, <1>17, <1>18, <1>19, <1>20, <1>21, <1>22 DEF
    Next, TxTask, Command

\* A queue that is not empty keeps its task or the sender that will enqueue it.
LEMMA QueueStep == TypeOK /\ QueueHasTask /\ [Next]_vars => QueueHasTask'
<1> SUFFICES ASSUME TypeOK, QueueHasTask, [Next]_vars
             PROVE  QueueHasTask'
  OBVIOUS
<1> USE DEF QueueHasTask, queueVars
<1>1. CASE NewState \/ Receive \/ ChipConsume \/ Detached \/ UNCHANGED vars
  BY <1>1 DEF NewState, Receive, ChipConsume, Detached, vars
<1>2. CASE VapTransmit
  BY <1>2 DEF VapTransmit, TypeOK
<1>3. CASE VapEnqueue \/ Detach
  BY <1>3 DEF VapEnqueue, Detach
<1>4. CASE TxTask
  BY <1>4 DEF TxTask, TxStart, TxPick, TxDrop, TxCheck, TxLock, TxLoad, TxStore,
              TxWrite
<1>5. CASE Command
  BY <1>5 DEF Command, CmdBegin, CmdNoCredit, CmdCheck, CmdLoad, CmdStore,
              CmdLock, CmdWrite
<1>6. QED
  BY <1>1, <1>2, <1>3, <1>4, <1>5 DEF Next

\* The invariant holds when nothing was submitted.
LEMMA InitInv == Init => IInv
<1> SUFFICES ASSUME Init
             PROVE  IInv
  OBVIOUS
<1>1. TypeOK
  <2>1. tx \in [pc : TxPCs, m : 0 .. NFrames, seq : Seqs]
    BY TxAssumption, Records DEF Init, TxPCs
  <2>2. cmd \in [pc : CmdPCs, seq : Seqs]
    BY Records DEF Init, CmdPCs
  <2>3. /\ next \in 1 .. (NFrames + 1) /\ kicks \in 0 .. NFrames
        /\ commands \in 0 .. NCommands /\ rx_max \in Seqs
        /\ base \in Seqs /\ tx_seq \in Seqs
    BY TxAssumption DEF Init, Seqs
  <2>4. /\ queue \in Seq(Data) /\ list \in Seq(Data) /\ wire \in Seq(0 .. NFrames)
        /\ consumed \in 0 .. Len(wire)
    BY DEF Init
  <2>5. QED
    BY <2>1, <2>2, <2>3, <2>4 DEF Init, TypeOK
<1>2. ToSet(<< >>) = {} /\ DOMAIN << >> = {}
  BY DEF ToSet
<1>3. QED
  BY <1>1, <1>2 DEF Init, IInv, InHand, Stages, Rising, DataInOrder, Accounted,
                    QueueHasTask, Data

\* It holds in every state.
LEMMA Invariant == Spec => []IInv
<1>1. IInv /\ [Next]_vars => IInv'
  BY TypeStep, WayStep, QueueStep DEF IInv, Way
<1>2. QED
  BY InitInv, <1>1, PTL DEF Spec

\* Data frames go to the chip in the order in which the stack submitted them
\* (cyw_vap_transmit, cyw_tx_task), for any number of frames.
THEOREM SubmissionOrder == Spec => []DataInOrder
BY Invariant, PTL DEF IInv

\* What the stages say about the places of a frame.
LEMMA OnePlace == IInv => EveryMbufInOnePlace
<1> SUFFICES ASSUME IInv
             PROVE  EveryMbufInOnePlace
  OBVIOUS
<1> DEFINE Q == ToSet(queue)
           L == ToSet(list)
           H == {tx.m} \ {0}
           W == ToSet(wire) \ {0}
<1>1. Places = <<Q, L, H, W, dropped>>
  BY DEF Places
<1>2. DOMAIN Places = 1 .. 5
  BY <1>1
<1>3. UNION Range(Places) = Q \cup L \cup H \cup W \cup dropped
  <2>1. Range(Places) = {Q, L, H, W, dropped}
    BY <1>1 DEF Range
  <2>2. QED
    BY <2>1
<1>4. /\ Q \subseteq Data /\ L \subseteq Data /\ H \subseteq Data
      /\ W \subseteq Data /\ dropped \subseteq Data
  BY Numbers DEF IInv, TypeOK, Data
<1>5. Q \cup L \cup H \cup W \cup dropped = 1 .. (next - 1)
  <2>1. \A f \in 1 .. (next - 1) : f \in Data /\ f < next
    BY TxAssumption DEF IInv, TypeOK, Data
  <2>2. \A f \in Data : f < next => f \in 1 .. (next - 1)
    BY DEF IInv, TypeOK, Data
  <2>3. \A f \in Data : f < next <=> f \in Q \cup L \cup H \cup W \cup dropped
    BY Numbers DEF IInv, Accounted
  <2>4. QED
    BY <1>4, <2>1, <2>2, <2>3
<1>6. /\ Q \cap L = {} /\ Q \cap H = {} /\ Q \cap W = {} /\ Q \cap dropped = {}
      /\ L \cap H = {} /\ L \cap W = {} /\ L \cap dropped = {}
      /\ H \cap W = {} /\ H \cap dropped = {} /\ W \cap dropped = {}
  <2>1. \A f, g \in Data : f < g => f # g
    BY DEF Data
  <2>2. QED
    BY <1>4, <2>1 DEF IInv, Stages, Accounted
<1>7. \A i, j \in DOMAIN Places : i # j => Places[i] \cap Places[j] = {}
  <2>1. ASSUME NEW i \in 1 .. 5, NEW j \in 1 .. 5, i # j
        PROVE  Places[i] \cap Places[j] = {}
    BY <1>1, <1>6, <2>1
  <2>2. QED
    BY <1>2, <2>1
<1>8. QED
  BY <1>3, <1>5, <1>7 DEF EveryMbufInOnePlace

\* No mbuf leaks, is freed twice or waits on tx_queue without a task
\* (cyw_vap_transmit, cyw_tx_task, cyw_tx_data_frame, cyw_sdpcm_detach), for any
\* number of frames and commands.
THEOREM MbufsSafe == Spec => []NoneLost
<1>1. IInv => NoneLost
  BY OnePlace DEF IInv, NoneLost
<1>2. QED
  BY Invariant, <1>1, PTL
==============================================================================
