---------------------------- MODULE CywFwilProofs ----------------------------
(***************************************************************************)
(* Proofs about CywFwil, for any set of callers and any number of ids.     *)
(***************************************************************************)
EXTENDS CywFwil, TLAPS

\* ioctl_sx is held exactly by the caller inside a transaction.
Serialised == \A c \in Callers : pc[c] \in TxnPCs <=> ioctl_sx = c

\* Nobody increments ioctl_id under the holder.
LocalId == \A c \in Callers : pc[c] \in TxnPCs => id[c] = ioctl_id

\* f2_sx is held exactly by whoever transfers under it.
F2Held ==
  /\ \A c \in Callers : pc[c] = "write" <=> f2_sx = c
  /\ rx = "drain" <=> f2_sx = RxTq

\* From registration to the read of the result.
WaitPCs == {"send", "hung", "write", "wfail", "wait", "sleep", "woken", "timedout"}

\* The registered wait is the one of a caller that has not read its result.
WaitIsLive ==
  waiting =>
    /\ resp_buf \in Callers
    /\ pc[resp_buf] \in WaitPCs \ {"woken"}
    /\ result = "ETIMEDOUT"

\* The wait slot describes the caller that registered it last.
WaitSlot ==
  \A c \in Callers : pc[c] \in WaitPCs =>
    /\ resp_buf = c
    /\ wait_id = id[c]
    /\ get = (op[c] = "GET")

\* A caller has no answer before it is delivered ...
NotYet ==
  \A c \in Callers :
    (\/ pc[c] \in {"idle", "enter", "credit"} \cup BootPCs
     \/ pc[c] \in WaitPCs /\ waiting) => got[c] = "none" /\ buf[c] = "none"

\* What a result says about the answer and the buffer.
Explains(c, e) ==
  /\ e = "OK" => got[c] = "own" /\ (op[c] = "GET" => buf[c] = "own")
  /\ e \in {"ETIMEDOUT", "ENOBUFS", "ENXIO"} =>
       got[c] = "none" /\ buf[c] = "none"
  /\ got[c] # "other"
  /\ buf[c] # "other"

\* ... and afterwards the result, in the slot or returned, explains it.
Explained ==
  \A c \in Callers :
    /\ pc[c] \in WaitPCs /\ ~waiting => Explains(c, result)
    /\ pc[c] = "out" => Explains(c, ret[c])

\* The id of a frame is the id of the transaction that is age increments back.
Ages ==
  \A f \in pipe : \/ f.id + f.age = ioctl_id
                  \/ f.id + f.age = ioctl_id + IdMod

\* The stages of cyw_detach and the callers they have waited for.
NetTasks == Callers \ (Sysctls \cup ScanTasks)
DetachOrder ==
  /\ sdpcm_running <=> detach = "up"
  /\ detach # "up" => IdleAll(NetTasks)
  /\ detach \in {"wake", "destroy", "sdio", "down"} => IdleAll(ScanTasks)
  /\ detach = "down" => IdleAll(Sysctls)
  /\ \A c \in Callers : pc[c] \in BootPCs => ~sdpcm_running

Protocol ==
  /\ Serialised
  /\ LocalId
  /\ F2Held
  /\ WaitIsLive
  /\ WaitSlot
  /\ NotYet
  /\ Explained
  /\ DetachOrder

\* The inductive invariant.
IInv == TypeOK /\ Ages /\ Protocol
-----------------------------------------------------------------------------
(* Lemmas about the operators.                                             *)

\* ++ioctl_id either adds one or wraps to zero.
LEMMA NextIdWraps ==
  ASSUME NEW i \in Ids
  PROVE  NextId(i) = IF i = IdMod - 1 THEN 0 ELSE i + 1
<1> USE IdAssumption DEF Ids, NextId
<1>1. CASE i = IdMod - 1
  BY <1>1
<1>2. CASE i # IdMod - 1
  BY <1>2
<1>3. QED
  BY <1>1, <1>2

\* Ageing keeps frames frames.
LEMMA OlderFrames ==
  ASSUME NEW S \in SUBSET Frames
  PROVE  Older(S) \in SUBSET Frames
  BY IdAssumption DEF Older, Frames

\* An id plus one is an id.
LEMMA NextIdType == ASSUME NEW i \in Ids PROVE NextId(i) \in Ids
  BY NextIdWraps, IdAssumption DEF Ids

\* The actions of one caller, and the others, preserve the types.
LEMMA TypeStep == TypeOK /\ [Next]_vars => TypeOK'
<1> SUFFICES ASSUME TypeOK, [Next]_vars
             PROVE  TypeOK'
  OBVIOUS
<1> USE DEF TypeOK, txnVars, callVars, Goto, Return
<1>1. ASSUME NEW c \in Callers, Enter(c) PROVE TypeOK'
  <2>1. CASE Call(c)
    BY <2>1 DEF Call, PCs, TxnPCs
  <2>2. CASE Acquire(c)
    BY <2>2, NextIdType, OlderFrames DEF Acquire, PCs, TxnPCs, RuntimePCs,
      BootPCs
  <2>3. CASE Leave(c)
    BY <2>3, IdAssumption DEF Leave, PCs, Ids, Errnos, Whose
  <2>4. QED
    BY <1>1, <2>1, <2>2, <2>3 DEF Enter
<1>2. ASSUME NEW c \in Callers, Runtime(c) PROVE TypeOK'
  <2> USE DEF PCs, TxnPCs, RuntimePCs, Errnos
  <2>1. CASE NoCredit(c) BY <2>1 DEF NoCredit
  <2>2. CASE Register(c) BY <2>2 DEF Register
  <2>3. CASE LockF2(c)   BY <2>3 DEF LockF2
  <2>4. Command(c) \in Frames
    BY IdAssumption DEF Command, Frames
  <2>5. CASE WriteOk(c)   BY <2>4, <2>5 DEF WriteOk
  <2>6. CASE WriteFail(c) BY <2>4, <2>6 DEF WriteFail
  <2>7. CASE Withdraw(c)  BY <2>7, ZenonT(30) DEF Withdraw
  <2>8. CASE AnsweredEarly(c) BY <2>8 DEF AnsweredEarly
  <2>9. CASE Sleep(c)      BY <2>9 DEF Sleep
  <2>10. CASE TimerFires(c) BY <2>10 DEF TimerFires
  <2>11. CASE GiveUp(c)     BY <2>11, ZenonT(30) DEF GiveUp
  <2>12. CASE Wake(c)       BY <2>12 DEF Wake
  <2>13. CASE HangOnF2(c)   BY <2>13 DEF HangOnF2
  <2>14. QED
    BY <1>2, <2>1, <2>2, <2>3, <2>13, <2>5, <2>6, <2>7, <2>8, <2>9, <2>10, <2>11,
      <2>12 DEF Runtime
<1>3. ASSUME NEW c \in Callers, Boot(c) PROVE TypeOK'
  <2> USE DEF PCs, TxnPCs, BootPCs, Errnos
  <2>1. Command(c) \in Frames
    BY IdAssumption DEF Command, Frames
  <2>2. CASE BootDrain(c) BY <2>2 DEF BootDrain
  <2>3. CASE BootSend(c)  BY <2>1, <2>3 DEF BootSend
  <2>4. CASE BootFail(c)  BY <2>1, <2>4 DEF BootFail
  <2>5. CASE PollSkip(c)  BY <2>5 DEF PollSkip
  <2>6. CASE PollAnswer(c) BY <2>6 DEF PollAnswer, From, Whose
  <2>7. CASE PollEnd(c)   BY <2>7 DEF PollEnd
  <2>8. QED
    BY <1>3, <2>2, <2>3, <2>4, <2>5, <2>6, <2>7 DEF Boot
<1>4. CASE RxTask
  <2>1. CASE RxStart   BY <2>1 DEF RxStart
  <2>2. CASE RxDiscard BY <2>2 DEF RxDiscard
  <2>3. CASE RxDeliver
    BY <2>3, ZenonT(30) DEF RxDeliver, Signal, From, Whose, Errnos, PCs, TxnPCs,
      RuntimePCs
  <2>4. CASE RxFail    BY <2>4 DEF RxFail
  <2>5. CASE RxDone    BY <2>5 DEF RxDone
  <2>6. QED
    BY <1>4, <2>1, <2>2, <2>3, <2>4, <2>5 DEF RxTask
<1>5. CASE Chip
  BY <1>5 DEF Chip, FwAnswer, FwLose, Frames
<1>6. CASE Detach
  <2> USE DEF DetachPCs
  <2>1. CASE StopRunning BY <2>1 DEF StopRunning
  <2>2. CASE StopCallout BY <2>2 DEF StopCallout
  <2>3. CASE DrainRx     BY <2>3 DEF DrainRx
  <2>4. CASE FreeScanTq  BY <2>4 DEF FreeScanTq
  <2>5. CASE WakeWaiter
    BY <2>5, ZenonT(30) DEF WakeWaiter, Signal, Errnos, PCs, TxnPCs, RuntimePCs
  <2>6. CASE DestroyCv   BY <2>6 DEF DestroyCv
  <2>7. CASE FreeSysctls BY <2>7 DEF FreeSysctls
  <2>8. CASE Stopped    BY <2>8 DEF Stopped, vars
  <2>9. QED
    BY <1>6, <2>1, <2>2, <2>3, <2>4, <2>5, <2>6, <2>7, <2>8 DEF Detach
<1>7. CASE UNCHANGED vars
  BY <1>7 DEF vars
<1>8. QED
  BY <1>1, <1>2, <1>3, <1>4, <1>5, <1>6, <1>7 DEF Next

-----------------------------------------------------------------------------
(* Ids and ages of the frames in the chip.                                 *)

\* A frame that carries the id of the current transaction is its own: the ids
\* do not come round within MaxLag transactions.
LEMMA FreshFrame ==
  ASSUME TypeOK, Ages, NEW f \in pipe, f.id = ioctl_id
  PROVE  f.age = 0
<1>1. f.id \in 0 .. (IdMod - 1) /\ f.age \in 0 .. MaxLag
  BY DEF TypeOK, Frames, Ids
<1>2. f.id + f.age = ioctl_id \/ f.id + f.age = ioctl_id + IdMod
  BY DEF Ages
<1>3. QED
  BY <1>1, <1>2, IdAssumption

\* A command written now carries the current id.
LEMMA CommandAges ==
  ASSUME TypeOK, Ages, LocalId, NEW c \in Callers, pc[c] \in TxnPCs,
         NEW S \in {{}, {Command(c)}}, pipe' = pipe \cup S,
         ioctl_id' = ioctl_id
  PROVE  Ages'
  BY IdAssumption DEF Command, Ages, LocalId, TypeOK, Ids

\* The frames age as the id advances.
LEMMA OlderAges ==
  ASSUME TypeOK, Ages, pipe' = Older(pipe), ioctl_id' = NextId(ioctl_id)
  PROVE  Ages'
<1> SUFFICES ASSUME NEW f \in pipe'
             PROVE  \/ f.id + f.age = ioctl_id'
                    \/ f.id + f.age = ioctl_id' + IdMod
  BY DEF Ages
<1>1. PICK g \in pipe : g.age < MaxLag /\ f = [g EXCEPT !.age = @ + 1]
  BY DEF Older
<1>2. g.id \in 0 .. (IdMod - 1) /\ g.age \in 0 .. MaxLag /\ g \in Frames
  BY DEF TypeOK, Frames, Ids
<1>3. f.id = g.id /\ f.age = g.age + 1
  BY <1>1, <1>2 DEF Frames
<1>4. g.id + g.age = ioctl_id \/ g.id + g.age = ioctl_id + IdMod
  BY DEF Ages
<1>5. ioctl_id \in 0 .. (IdMod - 1)
  BY DEF TypeOK, Ids
<1>6. ioctl_id' = IF ioctl_id = IdMod - 1 THEN 0 ELSE ioctl_id + 1
  BY <1>5, NextIdWraps DEF Ids
<1>7. QED
  BY <1>2, <1>3, <1>4, <1>5, <1>6, IdAssumption

\* An answer has the id of its command.
LEMMA AnswerAges ==
  ASSUME TypeOK, Ages, FwAnswer
  PROVE  Ages'
<1>1. PICK f \in pipe, s \in {"ok", "err"} :
        pipe' = (pipe \ {f}) \cup {[f EXCEPT !.st = s]}
  BY DEF FwAnswer
<1>2. f \in Frames
  BY DEF TypeOK
<1>3. [f EXCEPT !.st = s].id = f.id /\ [f EXCEPT !.st = s].age = f.age
  BY <1>2 DEF Frames
<1>4. QED
  BY <1>1, <1>3 DEF Ages, FwAnswer

-----------------------------------------------------------------------------
(* One step of each actor preserves the invariant.                         *)

\* Calling, taking ioctl_sx and leaving.
LEMMA EnterStep ==
  ASSUME IInv, TypeOK', NEW c \in Callers, Enter(c)
  PROVE  IInv'
<1> USE CallersAssumption
    DEF IInv, Protocol, TypeOK, txnVars, callVars, Goto, Return, Serialised,
        LocalId, F2Held, WaitIsLive, WaitSlot, NotYet, Explained, Explains,
        DetachOrder, WaitPCs, TxnPCs, RuntimePCs, BootPCs, IdleAll, NetTasks
<1>1. CASE Call(c)
  BY <1>1 DEF Ages, Call, MayCall
<1>2. CASE Acquire(c)
  <2>1. Ages'
    BY <1>2, OlderAges DEF Acquire
  <2>2. Protocol'
    BY <1>2 DEF Acquire
  <2>3. QED
    BY <2>1, <2>2
<1>3. CASE Leave(c)
  BY <1>3 DEF Ages, Leave
<1>4. QED
  BY <1>1, <1>2, <1>3 DEF Enter

\* The path that sleeps on ioctl_cv.
LEMMA RuntimeStep ==
  ASSUME IInv, TypeOK', NEW c \in Callers, Runtime(c)
  PROVE  IInv'
<1> USE CallersAssumption
    DEF IInv, Protocol, TypeOK, txnVars, callVars, Goto, Return, Serialised,
        LocalId, F2Held, WaitIsLive, WaitSlot, NotYet, Explained, Explains,
        DetachOrder, WaitPCs, TxnPCs, RuntimePCs, BootPCs, IdleAll, NetTasks
<1>1. CASE NoCredit(c)
  BY <1>1 DEF Ages, NoCredit
<1>2. CASE Register(c)
  BY <1>2 DEF Ages, Register
<1>3. CASE LockF2(c)
  BY <1>3 DEF Ages, LockF2
<1>4. CASE HangOnF2(c)
  BY <1>4 DEF Ages, HangOnF2
<1>5. CASE WriteOk(c)
  <2>1. Ages'
    BY <1>5, CommandAges DEF WriteOk
  <2>2. Protocol'
    BY <1>5 DEF WriteOk
  <2>3. QED
    BY <2>1, <2>2
<1>6. CASE WriteFail(c)
  <2>1. Ages'
    BY <1>6, CommandAges DEF WriteFail
  <2>2. Protocol'
    BY <1>6 DEF WriteFail
  <2>3. QED
    BY <2>1, <2>2
<1>7. CASE Withdraw(c)
  BY <1>7 DEF Ages, Withdraw
<1>8. CASE AnsweredEarly(c)
  BY <1>8 DEF Ages, AnsweredEarly
<1>9. CASE Sleep(c)
  BY <1>9 DEF Ages, Sleep
<1>10. CASE TimerFires(c)
  BY <1>10 DEF Ages, TimerFires
<1>11. CASE GiveUp(c)
  BY <1>11 DEF Ages, GiveUp
<1>12. CASE Wake(c)
  BY <1>12 DEF Ages, Wake
<1>13. QED
  BY <1>1, <1>2, <1>3, <1>4, <1>5, <1>6, <1>7, <1>8, <1>9,
    <1>10, <1>11, <1>12 DEF Runtime

\* The path that polls F2.
LEMMA BootStep ==
  ASSUME IInv, TypeOK', NEW c \in Callers, Boot(c)
  PROVE  IInv'
<1> USE CallersAssumption
    DEF IInv, Protocol, TypeOK, txnVars, callVars, Goto, Return, Serialised,
        LocalId, F2Held, WaitIsLive, WaitSlot, NotYet, Explained, Explains,
        DetachOrder, WaitPCs, TxnPCs, RuntimePCs, BootPCs, IdleAll, NetTasks
<1>1. CASE BootDrain(c)
  BY <1>1 DEF Ages, BootDrain
<1>2. CASE BootSend(c)
  <2>1. Ages'
    BY <1>2, CommandAges DEF BootSend
  <2>2. Protocol'
    BY <1>2 DEF BootSend
  <2>3. QED
    BY <2>1, <2>2
<1>3. CASE BootFail(c)
  <2>1. Ages'
    BY <1>3, CommandAges DEF BootFail
  <2>2. Protocol'
    BY <1>3 DEF BootFail
  <2>3. QED
    BY <2>1, <2>2
<1>4. CASE PollSkip(c)
  BY <1>4 DEF Ages, PollSkip
<1>5. CASE PollAnswer(c)
  <2>1. PICK f \in pipe :
          /\ Answered(f) /\ f.id = id[c]
          /\ pipe' = pipe \ {f}
          /\ Return(c, "poll", IF f.st = "ok" THEN "OK" ELSE "EIO")
          /\ got' = [got EXCEPT ![c] = From(c, f)]
          /\ buf' = IF f.st = "ok" /\ op[c] = "GET"
                      THEN [buf EXCEPT ![c] = From(c, f)] ELSE buf
    BY <1>5 DEF PollAnswer
  <2>2. From(c, f) = "own"
    BY <1>5, <2>1, FreshFrame DEF From, PollAnswer
  <2>3. QED
    BY <1>5, <2>1, <2>2 DEF PollAnswer, Ages
<1>6. CASE PollEnd(c)
  BY <1>6 DEF Ages, PollEnd
<1>7. QED
  BY <1>1, <1>2, <1>3, <1>4, <1>5, <1>6 DEF Boot

\* The receive task.
LEMMA RxStep ==
  ASSUME IInv, TypeOK', RxTask
  PROVE  IInv'
<1> USE CallersAssumption
    DEF IInv, Protocol, TypeOK, txnVars, callVars, Goto, Return, Serialised,
        LocalId, F2Held, WaitIsLive, WaitSlot, NotYet, Explained, Explains,
        DetachOrder, WaitPCs, TxnPCs, RuntimePCs, BootPCs, IdleAll, NetTasks
<1>1. CASE RxStart
  BY <1>1 DEF Ages, RxStart
<1>2. CASE RxDiscard
  BY <1>2 DEF Ages, RxDiscard
<1>3. CASE RxDeliver
  <2>1. PICK f \in pipe :
          /\ Matches(f)
          /\ pipe' = pipe \ {f}
          /\ result' = IF f.st = "ok" THEN "OK" ELSE "EIO"
          /\ got' = [got EXCEPT ![resp_buf] = From(resp_buf, f)]
          /\ buf' = IF f.st = "ok" /\ get
                      THEN [buf EXCEPT ![resp_buf] = From(resp_buf, f)]
                      ELSE buf
    BY <1>3 DEF RxDeliver
  <2>2. waiting /\ resp_buf \in Callers /\ f.id = ioctl_id
    BY <2>1 DEF Matches
  <2>3. From(resp_buf, f) = "own"
    BY <2>2, FreshFrame DEF From
  <2>4. QED
    BY <1>3, <2>1, <2>2, <2>3 DEF RxDeliver, Signal, Ages
<1>4. CASE RxFail
  BY <1>4 DEF Ages, RxFail
<1>5. CASE RxDone
  BY <1>5 DEF Ages, RxDone
<1>6. QED
  BY <1>1, <1>2, <1>3, <1>4, <1>5 DEF RxTask

\* The chip.
LEMMA ChipStep ==
  ASSUME IInv, TypeOK', Chip
  PROVE  IInv'
<1> USE CallersAssumption
    DEF IInv, Protocol, TypeOK, txnVars, callVars, Goto, Return, Serialised,
        LocalId, F2Held, WaitIsLive, WaitSlot, NotYet, Explained, Explains,
        DetachOrder, WaitPCs, TxnPCs, RuntimePCs, BootPCs, IdleAll, NetTasks
<1>1. CASE FwAnswer
  BY <1>1, AnswerAges DEF FwAnswer
<1>2. CASE FwLose
  BY <1>2 DEF Ages, FwLose
<1>3. QED
  BY <1>1, <1>2 DEF Chip

\* The detach.
LEMMA DetachStep ==
  ASSUME IInv, TypeOK', Detach
  PROVE  IInv'
<1> USE CallersAssumption
    DEF IInv, Protocol, TypeOK, txnVars, callVars, Goto, Return, Serialised,
        LocalId, F2Held, WaitIsLive, WaitSlot, NotYet, Explained, Explains,
        DetachOrder, WaitPCs, TxnPCs, RuntimePCs, BootPCs, IdleAll, NetTasks
<1>1. CASE StopRunning
  BY <1>1 DEF Ages, StopRunning
<1>2. CASE StopCallout
  BY <1>2 DEF Ages, StopCallout
<1>3. CASE DrainRx
  BY <1>3 DEF Ages, DrainRx
<1>4. CASE FreeScanTq
  BY <1>4 DEF Ages, FreeScanTq
<1>5. CASE WakeWaiter
  BY <1>5 DEF Ages, WakeWaiter, Signal
<1>6. CASE DestroyCv
  BY <1>6 DEF Ages, DestroyCv
<1>7. CASE FreeSysctls
  BY <1>7 DEF Ages, FreeSysctls
<1>8. CASE Stopped
  BY <1>8 DEF Ages, Stopped, vars
<1>9. QED
  BY <1>1, <1>2, <1>3, <1>4, <1>5, <1>6, <1>7, <1>8 DEF Detach

\* The state that cyw_sdpcm_attach leaves satisfies IInv.
LEMMA InitInv == Init => IInv
<1> SUFFICES ASSUME Init PROVE IInv
  OBVIOUS
<1> USE DEF Init
<1>0. 0 \in Ids
  BY IdAssumption DEF Ids
<1>1. TypeOK
  BY <1>0 DEF TypeOK, PCs, Errnos, Whose, DetachPCs
<1>2. Ages
  BY DEF Ages
<1>3. Protocol
  BY CallersAssumption DEF Protocol, Serialised, LocalId, F2Held, WaitIsLive,
    WaitSlot, NotYet, Explained, DetachOrder, WaitPCs, TxnPCs, RuntimePCs,
    BootPCs
<1>4. QED
  BY <1>1, <1>2, <1>3 DEF IInv

\* IInv is inductive.
LEMMA Inductive == IInv /\ [Next]_vars => IInv'
<1> SUFFICES ASSUME IInv, [Next]_vars
             PROVE  IInv'
  OBVIOUS
<1>1. TypeOK'
  BY TypeStep DEF IInv
<1>2. CASE \E c \in Callers : Enter(c) \/ Runtime(c) \/ Boot(c)
  BY <1>1, <1>2, EnterStep, RuntimeStep, BootStep
<1>3. CASE RxTask
  BY <1>1, <1>3, RxStep
<1>4. CASE Chip
  BY <1>1, <1>4, ChipStep
<1>5. CASE Detach
  BY <1>1, <1>5, DetachStep
<1>6. CASE UNCHANGED vars
  BY <1>6 DEF vars, txnVars, callVars, IInv, Ages, Protocol, TypeOK,
    Serialised, LocalId, F2Held, WaitIsLive, WaitSlot, NotYet, Explained,
    Explains, DetachOrder, IdleAll
<1>7. QED
  BY <1>2, <1>3, <1>4, <1>5, <1>6 DEF Next

\* IInv holds throughout.
LEMMA Invariance == Spec => []IInv
  BY InitInv, Inductive, PTL DEF Spec

-----------------------------------------------------------------------------
(* What cyw_fil_txrx, the receive task and cyw_detach guarantee.           *)

\* The shared fields of the transaction layer keep their types.
THEOREM TypeCorrect == Spec => []TypeOK
  BY Invariance, PTL DEF IInv

\* The KASSERT of cyw_fil_txrx never fires, for any number of callers.
THEOREM NoConcurrentIoctl == Spec => []OneTransaction
<1>1. IInv => OneTransaction
  BY DEF IInv, Protocol, OneTransaction, Serialised, WaitIsLive, WaitPCs,
    TxnPCs, RuntimePCs
<1>2. QED
  BY <1>1, Invariance, PTL

\* No caller gets the answer to somebody else's command, if the chip does not
\* answer a command so late that its 16-bit id has come round.
THEOREM NoForeignAnswer == Spec => []OwnAnswer
<1>1. IInv => OwnAnswer
  BY DEF IInv, Protocol, TypeOK, OwnAnswer, NotYet, Explained, Explains,
    WaitPCs, PCs, TxnPCs, RuntimePCs, BootPCs
<1>2. QED
  BY <1>1, Invariance, PTL

\* A timeout, a lack of credits or the detach leaves the buffer untouched.
THEOREM FailuresAreClean == Spec => []FailureLeavesBuffer
<1>1. IInv => FailureLeavesBuffer
  BY DEF IInv, Protocol, FailureLeavesBuffer, Explained, Explains
<1>2. QED
  BY <1>1, Invariance, PTL

\* f2_sx keeps callers and the receive task apart while the layer runs.
THEOREM F2Mutex == Spec => []F2ExclusiveWhileRunning
<1>1. IInv => F2ExclusiveWhileRunning
  BY CallersAssumption DEF IInv, Protocol, F2ExclusiveWhileRunning, F2Users,
    F2Held, DetachOrder
<1>2. QED
  BY <1>1, Invariance, PTL

\* cyw_detach destroys ioctl_sx and mtx with no caller left.
THEOREM SafeDestroy == Spec => []LocksOutliveCallers
<1>1. IInv => LocksOutliveCallers
  BY DEF IInv, Protocol, LocksOutliveCallers, DetachOrder, IdleAll, NetTasks
<1>2. QED
  BY <1>1, Invariance, PTL

\* ioctl_resp_buf is written through only while its owner is in the
\* transaction, although nothing ever clears the pointer.
THEOREM BufferOutlivesWait == Spec => NoDanglingWrite
<1>1. IInv /\ [Next]_vars => [WritesLiveBuffer]_vars
  <2> SUFFICES ASSUME IInv, Next, NEW c \in Callers, WritesInto(c)
               PROVE  pc[c] \in TxnPCs
    BY DEF WritesLiveBuffer
  <2> USE DEF IInv, Protocol, TypeOK, WritesInto, txnVars, callVars, Goto,
              Return
  <2>1. CASE RxTask
    <3>1. CASE RxDeliver
      BY <3>1 DEF RxDeliver, WaitIsLive, WaitPCs, TxnPCs, RuntimePCs, Matches
    <3>2. QED
      BY <2>1, <3>1 DEF RxTask, RxStart, RxDiscard, RxFail, RxDone
  <2>2. ASSUME NEW d \in Callers, Enter(d) PROVE pc[c] \in TxnPCs
    BY <2>2 DEF Enter, Call, Acquire, Leave
  <2>3. ASSUME NEW d \in Callers, Runtime(d) PROVE pc[c] \in TxnPCs
    BY <2>3 DEF Runtime, NoCredit, Register, LockF2, HangOnF2, WriteOk,
      WriteFail, Withdraw, AnsweredEarly, Sleep, TimerFires, GiveUp, Wake
  <2>4. ASSUME NEW d \in Callers, Boot(d) PROVE pc[c] \in TxnPCs
    <3>1. CASE PollAnswer(d)
      BY <3>1 DEF PollAnswer, TxnPCs, BootPCs
    <3>2. QED
      BY <2>4, <3>1 DEF Boot, BootDrain, BootSend, BootFail, PollSkip, PollEnd
  <2>5. CASE Chip
    BY <2>5 DEF Chip, FwAnswer, FwLose
  <2>6. CASE Detach
    BY <2>6 DEF Detach, StopRunning, StopCallout, DrainRx, FreeScanTq,
      WakeWaiter, DestroyCv, FreeSysctls, Stopped, vars
  <2>7. QED
    BY <2>1, <2>2, <2>3, <2>4, <2>5, <2>6 DEF Next
<1>2. QED
  BY <1>1, Invariance, PTL DEF Spec, NoDanglingWrite

-----------------------------------------------------------------------------
(* The refinement of RemoteCall.                                           *)

\* What the callers see, as the refinement maps it.
phase == [c \in Callers |-> Phase(c)]

\* A step that leaves a caller where it is, or moves it within the transaction,
\* is no step for it.
LEMMA PhaseSame ==
  ASSUME \A d \in Callers : \/ pc'[d] = pc[d]
                            \/ {pc[d], pc'[d]} \subseteq TxnPCs \ {"out"}
  PROVE  phase' = phase
BY DEF phase, Phase, TxnPCs, RuntimePCs, BootPCs

\* A step of c alone.
LEMMA PhaseMoves ==
  ASSUME TypeOK, NEW c \in Callers, NEW to, pc' = [pc EXCEPT ![c] = to]
  PROVE  phase' = [phase EXCEPT ![c] = Phase(c)']
<1>1. \A d \in Callers : d # c => pc'[d] = pc[d]
  BY DEF TypeOK
<1> QED
  BY <1>1 DEF phase, Phase

\* Outside of the transactions.
LEMMA EnterCalls ==
  ASSUME IInv, NEW c \in Callers, Enter(c)
  PROVE  Calls!Next
<1> USE DEF IInv, TypeOK, Goto
<1>1. CASE Call(c)
  <2>1. pc[c] = "idle" /\ pc' = [pc EXCEPT ![c] = "enter"]
    BY <1>1 DEF Call
  <2>2. Phase(c) = "idle" /\ Phase(c)' = "asked"
    BY <2>1 DEF Phase
  <2>3. Calls!Ask(c)
    BY <1>1, <2>1, <2>2, PhaseMoves DEF Call, Calls!Ask, Calls!Moves, phase
  <2> QED
    BY <2>3 DEF Calls!Next
<1>2. CASE Acquire(c)
  <2>1. PICK to \in {"credit", "boot"} :
          pc[c] = "enter" /\ pc' = [pc EXCEPT ![c] = to]
    BY <1>2 DEF Acquire
  <2>2. Phase(c) = "asked" /\ Phase(c)' = "active"
    BY <2>1 DEF Phase
  <2>3. \A d \in Callers : Phase(d) \in {"idle", "asked"}
    BY <1>2, CallersAssumption
      DEF Acquire, Protocol, Serialised, Phase, PCs
  <2>4. Calls!Admit(c)
    BY <1>2, <2>1, <2>2, <2>3, PhaseMoves
      DEF Acquire, Calls!Admit, Calls!Moves, phase
  <2> QED
    BY <2>4 DEF Calls!Next
<1>3. CASE Leave(c)
  <2>1. pc[c] = "out" /\ pc' = [pc EXCEPT ![c] = "idle"]
    BY <1>3 DEF Leave
  <2>2. Phase(c) = "done" /\ Phase(c)' = "idle"
    BY <2>1 DEF Phase
  <2>3. Calls!Return(c)
    BY <1>3, <2>1, <2>2, PhaseMoves DEF Leave, Calls!Return, Calls!Moves, phase
  <2> QED
    BY <2>3 DEF Calls!Next
<1> QED
  BY <1>1, <1>2, <1>3 DEF Enter

\* Returning an error or a result that agrees with the answer.
LEMMA ReturnCalls ==
  ASSUME IInv, NEW c \in Callers, NEW from \in TxnPCs \ {"out"}, NEW e \in Errnos,
         Return(c, from, e), UNCHANGED <<op, got, buf>>,
         e # "EIO" => Explains(c, e)
  PROVE  Calls!Finish(c)
<1>1. pc[c] = from /\ pc' = [pc EXCEPT ![c] = "out"] /\ pc'[c] = "out"
  BY DEF Return, Goto, IInv, TypeOK
<1>2. Phase(c) = "active" /\ Phase(c)' = "done"
  BY <1>1 DEF Phase, TxnPCs, RuntimePCs, BootPCs
<1>3. Calls!Moves(c, "active", "done")
  BY <1>1, <1>2, PhaseMoves DEF Calls!Moves, phase, IInv
<1>4. ret' = [ret EXCEPT ![c] = e]
  BY DEF Return
<1> QED
  BY <1>3, <1>4 DEF Calls!Finish, Calls!Unanswered, Explains, Errnos

\* The path that sleeps on ioctl_cv: the five ways out finish the call, the rest
\* is no step for the caller.
LEMMA RuntimeCalls ==
  ASSUME IInv, NEW c \in Callers, Runtime(c)
  PROVE  Calls!Finish(c) \/ UNCHANGED <<phase, op, got, buf, ret>>
<1>1. TypeOK /\ NotYet /\ Explained
  BY DEF IInv, Protocol
<1>2. CASE NoCredit(c)
  <2>1. Explains(c, "ENOBUFS")
    BY <1>1, <1>2 DEF NoCredit, Return, Goto, NotYet, Explains
  <2> QED
    BY <1>2, <2>1, ReturnCalls DEF NoCredit, TxnPCs, RuntimePCs, Errnos
<1>3. CASE Withdraw(c)
  BY <1>3, ReturnCalls DEF Withdraw, TxnPCs, RuntimePCs, Errnos
<1>4. CASE AnsweredEarly(c)
  <2>1. Explains(c, result) /\ result \in Errnos
    BY <1>1, <1>4 DEF AnsweredEarly, Return, Goto, Explained, WaitPCs, TypeOK
  <2> QED
    BY <1>4, <2>1, ReturnCalls DEF AnsweredEarly, TxnPCs, RuntimePCs
<1>5. CASE GiveUp(c) \/ Wake(c)
  <2>1. PICK from \in {"timedout", "woken"} : Return(c, from, result)
    BY <1>5 DEF GiveUp, Wake
  <2>2. pc[c] = from /\ pc[c] \in WaitPCs
    BY <2>1 DEF Return, Goto, WaitPCs
  <2>3. Explains(c, result)
    <3>1. CASE ~waiting
      BY <1>1, <2>2, <3>1 DEF Explained
    <3>2. CASE waiting
      BY <1>1, <2>2, <3>2
        DEF NotYet, Explains, IInv, Protocol, WaitIsLive
    <3> QED
      BY <3>1, <3>2
  <2>4. UNCHANGED <<op, got, buf>> /\ result \in Errnos
    BY <1>1, <1>5 DEF GiveUp, Wake, TypeOK
  <2> QED
    BY <2>1, <2>3, <2>4, ReturnCalls DEF TxnPCs, RuntimePCs
<1>6. CASE \/ Register(c) \/ LockF2(c) \/ HangOnF2(c) \/ WriteOk(c)
           \/ WriteFail(c) \/ Sleep(c) \/ TimerFires(c)
  <2>1. UNCHANGED <<op, got, buf, ret>>
    BY <1>6 DEF Register, LockF2, HangOnF2, WriteOk, WriteFail, Sleep, TimerFires
  <2>2. PICK to \in TxnPCs \ {"out"} :
          pc[c] \in TxnPCs \ {"out"} /\ pc' = [pc EXCEPT ![c] = to]
    BY <1>6 DEF Register, LockF2, HangOnF2, WriteOk, WriteFail, Sleep,
      TimerFires, Goto, TxnPCs, RuntimePCs
  <2>3. phase' = phase
    <3>1. \A d \in Callers : pc'[d] = IF d = c THEN to ELSE pc[d]
      BY <1>1, <2>2 DEF TypeOK
    <3> QED
      BY <2>2, <3>1, PhaseSame
  <2> QED
    BY <2>1, <2>3
<1> QED
  BY <1>2, <1>3, <1>4, <1>5, <1>6 DEF Runtime

\* The path that polls F2.
LEMMA BootCalls ==
  ASSUME IInv, NEW c \in Callers, Boot(c)
  PROVE  \/ Calls!Finish(c) \/ Calls!Collect(c)
         \/ UNCHANGED <<phase, op, got, buf, ret>>
<1>1. TypeOK /\ NotYet /\ Ages /\ Serialised /\ LocalId
  BY DEF IInv, Protocol
<1>2. CASE BootDrain(c) \/ PollSkip(c)
  BY <1>2, PhaseSame DEF BootDrain, PollSkip, callVars
<1>3. CASE BootSend(c)
  <2>1. UNCHANGED <<op, got, buf, ret>>
    BY <1>3 DEF BootSend
  <2>2. \A d \in Callers : \/ pc'[d] = pc[d]
                           \/ {pc[d], pc'[d]} \subseteq TxnPCs \ {"out"}
    BY <1>1, <1>3 DEF BootSend, Goto, TypeOK, TxnPCs, BootPCs
  <2> QED
    BY <2>1, <2>2, PhaseSame
<1>4. CASE BootFail(c) \/ PollEnd(c)
  <2>1. PICK from \in BootPCs, e \in {"ENOBUFS", "EIO", "ETIMEDOUT"} :
          Return(c, from, e)
    BY <1>4 DEF BootFail, PollEnd, BootPCs
  <2>2. Explains(c, e)
    BY <1>1, <2>1 DEF Return, Goto, NotYet, Explains
  <2>3. UNCHANGED <<op, got, buf>>
    BY <1>4 DEF BootFail, PollEnd
  <2> QED
    BY <2>1, <2>2, <2>3, ReturnCalls DEF TxnPCs, BootPCs, Errnos
<1>5. CASE PollAnswer(c)
  <2>1. PICK f \in pipe :
          /\ Answered(f) /\ f.id = id[c]
          /\ Return(c, "poll", IF f.st = "ok" THEN "OK" ELSE "EIO")
          /\ got' = [got EXCEPT ![c] = From(c, f)]
          /\ buf' = IF f.st = "ok" /\ op[c] = "GET"
                      THEN [buf EXCEPT ![c] = From(c, f)] ELSE buf
    BY <1>5 DEF PollAnswer
  <2>2. pc[c] = "poll" /\ pc' = [pc EXCEPT ![c] = "out"] /\ pc'[c] = "out"
    BY <1>1, <2>1 DEF Return, Goto, TypeOK
  <2>3. From(c, f) = "own"
    BY <1>1, <2>1, <2>2, FreshFrame
      DEF From, Serialised, LocalId, TxnPCs, BootPCs
  <2>4. Phase(c) = "active" /\ Phase(c)' = "done"
    BY <2>2 DEF Phase
  <2>5. Calls!Moves(c, "active", "done")
    BY <1>1, <2>2, <2>4, PhaseMoves DEF Calls!Moves, phase
  <2>6. got[c] = "none"
    BY <1>1, <2>2 DEF NotYet, BootPCs
  <2>7. Calls!Hear(c, f.st = "ok")
    BY <2>1, <2>3, <2>4, <2>6 DEF Calls!Hear
  <2>8. ret' = [ret EXCEPT ![c] = IF f.st = "ok" THEN "OK" ELSE "EIO"]
    BY <2>1 DEF Return
  <2>9. op' = op
    BY <1>5 DEF PollAnswer
  <2>10. (f.st = "ok") \in BOOLEAN
    OBVIOUS
  <2> QED
    BY <2>5, <2>7, <2>8, <2>9, <2>10 DEF Calls!Collect
<1> QED
  BY <1>2, <1>3, <1>4, <1>5 DEF Boot

\* A wake-up is within the transaction.
LEMMA SignalSame ==
  ASSUME Signal \/ pc' = pc
  PROVE  phase' = phase
<1>1. \A d \in Callers : \/ pc'[d] = pc[d]
                         \/ {pc[d], pc'[d]} \subseteq TxnPCs \ {"out"}
  BY DEF Signal, TxnPCs, RuntimePCs
<1> QED
  BY <1>1, PhaseSame

\* The receive task: its delivery is the answer to the one who waits.
LEMMA RxCalls ==
  ASSUME IInv, RxTask
  PROVE  \/ \E c \in Callers : Calls!Answer(c)
         \/ UNCHANGED <<phase, op, got, buf, ret>>
<1>1. /\ TypeOK /\ NotYet /\ Ages /\ Serialised /\ LocalId /\ WaitIsLive
      /\ WaitSlot
  BY DEF IInv, Protocol
<1>2. CASE RxDeliver
  <2>1. PICK f \in pipe :
          /\ Matches(f)
          /\ got' = [got EXCEPT ![resp_buf] = From(resp_buf, f)]
          /\ buf' = IF f.st = "ok" /\ get
                      THEN [buf EXCEPT ![resp_buf] = From(resp_buf, f)]
                      ELSE buf
    BY <1>2 DEF RxDeliver
  <2>2. /\ waiting /\ resp_buf \in Callers /\ pc[resp_buf] \in WaitPCs
        /\ f.id = wait_id
    BY <1>1, <2>1 DEF Matches, WaitIsLive
  <2>3. /\ wait_id = id[resp_buf] /\ get = (op[resp_buf] = "GET")
        /\ got[resp_buf] = "none"
    BY <1>1, <2>2 DEF WaitSlot, NotYet
  <2>4. pc[resp_buf] \in TxnPCs \ {"out"}
    BY <2>2 DEF WaitPCs, TxnPCs, RuntimePCs
  <2>5. From(resp_buf, f) = "own"
    BY <1>1, <2>2, <2>3, <2>4, FreshFrame DEF From, Serialised, LocalId
  <2>6. Phase(resp_buf) = "active"
    BY <2>4 DEF Phase, TxnPCs, RuntimePCs, BootPCs
  <2>7. Calls!Hear(resp_buf, f.st = "ok")
    BY <2>1, <2>2, <2>3, <2>5, <2>6 DEF Calls!Hear
  <2>8. phase' = phase /\ UNCHANGED <<op, ret>>
    BY <1>2, SignalSame DEF RxDeliver
  <2>9. (f.st = "ok") \in BOOLEAN
    OBVIOUS
  <2>10. Calls!Answer(resp_buf)
    BY <2>7, <2>8, <2>9 DEF Calls!Answer, phase
  <2> QED
    BY <2>2, <2>10
<1>3. CASE RxStart \/ RxDiscard \/ RxFail \/ RxDone
  BY <1>3, SignalSame DEF RxStart, RxDiscard, RxFail, RxDone, callVars
<1> QED
  BY <1>2, <1>3 DEF RxTask

\* The chip and the detach change nothing that a caller sees.
LEMMA OthersCall ==
  ASSUME Chip \/ Detach \/ UNCHANGED vars
  PROVE  UNCHANGED <<phase, op, got, buf, ret>>
<1>1. CASE Chip
  BY <1>1, SignalSame DEF Chip, FwAnswer, FwLose, callVars
<1>2. CASE Detach
  <2>1. CASE WakeWaiter
    BY <2>1, SignalSame DEF WakeWaiter
  <2>2. CASE \/ StopRunning \/ StopCallout \/ DrainRx \/ FreeScanTq \/ DestroyCv
             \/ FreeSysctls \/ Stopped
    BY <2>2, SignalSame DEF StopRunning, StopCallout, DrainRx, FreeScanTq,
      DestroyCv, FreeSysctls, Stopped, vars, callVars
  <2> QED
    BY <1>2, <2>1, <2>2 DEF Detach
<1>3. CASE UNCHANGED vars
  BY <1>3, SignalSame DEF vars, callVars
<1> QED
  BY <1>1, <1>2, <1>3

\* cyw_fil_txrx implements the remote call, for any number of callers and ids:
\* every step of a caller, the receive task, the chip and cyw_detach is a step
\* of RemoteCall or changes nothing in it.
THEOREM CallsKept == Spec => ImplementsCalls
<1>1. Init => Calls!Init
  BY DEF Init, Calls!Init, Phase
<1>2. IInv /\ [Next]_vars => [Calls!Next]_(Calls!vars)
  <2> SUFFICES ASSUME IInv, [Next]_vars
               PROVE  Calls!Next \/ UNCHANGED <<phase, op, got, buf, ret>>
    BY DEF Calls!vars, phase
  <2>1. CASE \E c \in Callers : Enter(c) \/ Runtime(c) \/ Boot(c)
    BY <2>1, EnterCalls, RuntimeCalls, BootCalls DEF Calls!Next
  <2>2. CASE RxTask
    BY <2>2, RxCalls DEF Calls!Next
  <2>3. CASE Chip \/ Detach \/ UNCHANGED vars
    BY <2>3, OthersCall
  <2> QED
    BY <2>1, <2>2, <2>3 DEF Next
<1> QED
  BY <1>1, <1>2, Invariance, PTL DEF Spec, ImplementsCalls, Calls!Spec

==============================================================================
