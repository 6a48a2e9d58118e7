---------------------------- MODULE GemIntrProofs ----------------------------
(***************************************************************************)
(* Proofs about GemIntr, for rings of any size, any number of transmitting *)
(* threads, with and without the shared interrupt, reception and kldunload. *)
(***************************************************************************)
EXTENDS GemIntr, TLAPS

\* The task has sc_mtx from TaskLock on, without the time in if_input.
Holds == mtx = "task" <=> task \in {"recv", "work", "enable", "rearm"}

\* Frames wait only on a running interface, with RX_COMPLETE still latched or
\* cgem_recv about to take them.
FramesLatched ==
  /\ ready > 0 => running /\ ("rx" \in stat \/ task = "recv")
  /\ task = "recv" => "rx" \in ist

\* Descriptors that are not sent are being sent, and when all are sent
\* TX_USED_READ is latched or the task about to reclaim them.
SendingOn == running /\ ~stale /\ done < txq => txgo

SentLatched ==
  running /\ ~stale /\ txq > 0 /\ done = txq =>
    "tx" \in stat \/ task \in {"recv", "input", "work"}

\* IFF_DRV_OACTIVE stands for a full ring, and a stopped interface has an empty one.
FullWhenActive == running /\ oactive => txq = TxLimit
EmptyWhenDown == ~running /\ ~stale => txq = 0

TxSound == SendingOn /\ SentLatched /\ FullWhenActive /\ EmptyWhenDown

\* From cgem_stop in rp1eth_detach on, if nothing interfered.
FilterThere == hook.filter => life \in {"attached", "stopped", "polldrained"}

Stopped ==
  life \in {"stopped", "polldrained", "filterclear", "argclear", "freed"}
    /\ ~raced =>
  /\ ~running /\ ~armed /\ posted = 0 /\ ready = 0
  /\ task \in {"idle", "start", "lock"}

PollGone ==
  life \in {"polldrained", "filterclear", "argclear", "freed"} /\ ~raced =>
    poll = "idle"

IsrGone ==
  life \in {"filterclear", "argclear", "freed"} /\ ~raced => isr = "idle"

TaskGone == life = "freed" => ~queued /\ task = "idle"

LifeSound == FilterThere /\ Stopped /\ PollGone /\ IsrGone /\ TaskGone

\* The inductive invariant.
IInv ==
  TypeOK /\ Holds /\ FramesLatched /\ NeverLeftMasked /\ TxSound /\ LifeSound

-----------------------------------------------------------------------------
\* The types, by what they are about.
RxTypes ==
  posted \in 0 .. RxBufs /\ ready \in 0 .. RxBufs /\ posted + ready <= RxBufs

TxTypes ==
  /\ sendq \in 0 .. MaxSend /\ kicks \in 0 .. Cpus
  /\ txq \in 0 .. TxLimit /\ done \in 0 .. txq

TxFlags == txgo \in BOOLEAN /\ oactive \in BOOLEAN /\ stale \in BOOLEAN

StepTypes ==
  /\ life \in Lives /\ mtx \in {"none", "task"} /\ task \in Tasks /\ isr \in Isrs
  /\ poll \in {"idle", "fired"} /\ hook \in [filter : BOOLEAN, arg : BOOLEAN]

FlagTypes ==
  /\ running \in BOOLEAN /\ masked \in BOOLEAN /\ queued \in BOOLEAN
  /\ armed \in BOOLEAN /\ raced \in BOOLEAN

EventTypes ==
  /\ stat \in SUBSET Events /\ pending \in SUBSET Events
  /\ ist \in SUBSET Events /\ fist \in SUBSET Events

\* Together they are the type invariant.
LEMMA TypeParts ==
  TypeOK <=>
    RxTypes /\ TxTypes /\ TxFlags /\ StepTypes /\ FlagTypes /\ EventTypes
BY DEF TypeOK, RxTypes, TxTypes, TxFlags, StepTypes, FlagTypes, EventTypes

\* sc_mtx is the task's exactly in the steps in which it works on the rings.
LEMMA HoldsStep == TypeOK /\ Holds /\ [Next]_vars => Holds'
<1> SUFFICES ASSUME TypeOK, Holds, [Next]_vars PROVE Holds'
  OBVIOUS
<1>1. CASE UNCHANGED <<mtx, task>>
  BY <1>1 DEF TypeOK, Holds, Tasks
<1>2. CASE TaskDequeue
  BY <1>2 DEF TaskDequeue, TypeOK, Holds, Tasks
<1>3. CASE TaskTake
  BY <1>3 DEF TaskTake, TypeOK, Holds, Tasks
<1>4. CASE TaskLock
  BY <1>4 DEF TaskLock, TypeOK, Holds, Tasks
<1>5. CASE TaskRecv
  BY <1>5 DEF TaskRecv, FillRqueue, TypeOK, Holds, Tasks
<1>6. CASE TaskRelock
  BY <1>6 DEF TaskRelock, TypeOK, Holds, Tasks
<1>7. CASE TaskWork
  BY <1>7 DEF TaskWork, FillRqueue, TxRing, TypeOK, Holds, Tasks
<1>8. CASE TaskEnable
  BY <1>8 DEF TaskEnable, TypeOK, Holds, Tasks
<1>9. CASE TaskRearm
  BY <1>9 DEF TaskRearm, TypeOK, Holds, Tasks
<1>10. CASE GemReceive \/ GemTransmit \/ Submit \/ Start \/ IfUp \/ IfDown
            \/ PollFires \/ PollRun \/ IsrEnter \/ IsrLoadArg \/ IsrRead
            \/ IsrMask
  <2> SUFFICES UNCHANGED <<mtx, task>>
    BY <1>1
  <2> QED
    BY <1>10 DEF GemReceive, GemTransmit, Submit, Start, IfUp, IfDown,
      PollFires, PollRun, IsrEnter, IsrLoadArg, IsrRead, IsrMask, taskVars
<1>11. CASE IsrStore \/ IsrEnqueue \/ IsrStopPoll \/ RegisterArg
            \/ RegisterFilter \/ DetachStop \/ DrainPoll \/ ClearFilter
            \/ ClearArg \/ DrainTaskAndFree \/ UNCHANGED vars
  <2> SUFFICES UNCHANGED <<mtx, task>>
    BY <1>1
  <2> QED
    BY <1>11 DEF IsrStore, IsrEnqueue, IsrStopPoll, RegisterArg,
      RegisterFilter, DetachStop, DrainPoll, ClearFilter, ClearArg,
      DrainTaskAndFree, vars, taskVars
<1> QED
  BY <1>2, <1>3, <1>4, <1>5, <1>6, <1>7, <1>8, <1>9, <1>10, <1>11 DEF Next,
    Gem, Stack, Poll, Isr, Task, Life, Over

\* The status is cleared before the ring is read, so that RX_COMPLETE stays
\* latched for what arrives later.
LEMMA FramesStep ==
  TypeOK /\ Holds /\ FramesLatched /\ [Next]_vars
    => FramesLatched'
<1> SUFFICES ASSUME TypeOK, Holds, FramesLatched, [Next]_vars
             PROVE  FramesLatched'
  OBVIOUS
<1> USE GemAssumption
<1>1. CASE UNCHANGED <<running, mtx, stat, posted, ready, task, ist>>
  BY <1>1 DEF TypeOK, Holds, FramesLatched, Events, Tasks
<1>2. CASE GemReceive
  BY <1>2 DEF GemReceive, taskVars, rxVars, TypeOK, Holds, FramesLatched,
    Events, Tasks
<1>3. CASE GemTransmit
  BY <1>3 DEF GemTransmit, rxVars, taskVars, TypeOK, Holds, FramesLatched,
    Events, Tasks
<1>4. CASE IfUp
  BY <1>4 DEF IfUp, FillRqueue, taskVars, TypeOK, Holds, FramesLatched, Events,
    Tasks
<1>5. CASE IfDown
  BY <1>5 DEF IfDown, Stop, taskVars, TypeOK, Holds, FramesLatched, Events,
    Tasks
<1>6. CASE TaskDequeue
  BY <1>6 DEF TaskDequeue, rxVars, TypeOK, Holds, FramesLatched, Events, Tasks
<1>7. CASE TaskTake
  BY <1>7 DEF TaskTake, rxVars, TypeOK, Holds, FramesLatched, Events, Tasks
<1>8. CASE TaskLock
  BY <1>8 DEF TaskLock, rxVars, TypeOK, Holds, FramesLatched, Events, Tasks
<1>9. CASE TaskRecv
  BY <1>9 DEF TaskRecv, FillRqueue, TypeOK, Holds, FramesLatched, Events, Tasks
<1>10. CASE TaskRelock
  BY <1>10 DEF TaskRelock, rxVars, TypeOK, Holds, FramesLatched, Events, Tasks
<1>11. CASE TaskWork
  BY <1>11 DEF TaskWork, FillRqueue, TxRing, rxVars, TypeOK, Holds,
    FramesLatched, Events, Tasks
<1>12. CASE TaskEnable
  BY <1>12 DEF TaskEnable, rxVars, TypeOK, Holds, FramesLatched, Events, Tasks
<1>13. CASE TaskRearm
  BY <1>13 DEF TaskRearm, rxVars, TypeOK, Holds, FramesLatched, Events, Tasks
<1>14. CASE DetachStop
  BY <1>14 DEF DetachStop, Stop, taskVars, TypeOK, Holds, FramesLatched,
    Events, Tasks
<1>15. CASE Submit \/ Start \/ PollFires \/ PollRun \/ IsrEnter
            \/ IsrLoadArg \/ IsrRead \/ IsrMask \/ IsrStore \/ IsrEnqueue
            \/ IsrStopPoll \/ RegisterArg
  <2> SUFFICES UNCHANGED <<running, mtx, stat, posted, ready, task, ist>>
    BY <1>1
  <2> QED
    BY <1>15 DEF Submit, Start, PollFires, PollRun, IsrEnter, IsrLoadArg,
      IsrRead, IsrMask, IsrStore, IsrEnqueue, IsrStopPoll, RegisterArg, rxVars,
      taskVars
<1>16. CASE RegisterFilter \/ DrainPoll \/ ClearFilter \/ ClearArg
            \/ DrainTaskAndFree \/ UNCHANGED vars
  <2> SUFFICES UNCHANGED <<running, mtx, stat, posted, ready, task, ist>>
    BY <1>1
  <2> QED
    BY <1>16 DEF RegisterFilter, DrainPoll, ClearFilter, ClearArg,
      DrainTaskAndFree, vars, rxVars, taskVars
<1> QED
  BY <1>2, <1>3, <1>4, <1>5, <1>6, <1>7, <1>8, <1>9, <1>10, <1>11, <1>12,
    <1>13, <1>14, <1>15, <1>16 DEF Next, Gem, Stack, Poll, Isr, Task, Life,
    Over

\* Who masks enqueues the task, and who is on the way to unmask stays so.
LEMMA MaskedStep == TypeOK /\ NeverLeftMasked /\ [Next]_vars => NeverLeftMasked'
<1> SUFFICES ASSUME TypeOK, NeverLeftMasked, [Next]_vars PROVE NeverLeftMasked'
  OBVIOUS
<1>1. CASE UNCHANGED <<running, masked, queued, task, isr>>
  BY <1>1 DEF TypeOK, NeverLeftMasked, Tasks
<1>2. CASE IfUp
  BY <1>2 DEF IfUp, FillRqueue, taskVars, isrVars, TypeOK, NeverLeftMasked,
    Tasks
<1>3. CASE IfDown
  BY <1>3 DEF IfDown, Stop, taskVars, isrVars, TypeOK, NeverLeftMasked, Tasks
<1>4. CASE PollRun
  BY <1>4 DEF PollRun, isrVars, TypeOK, NeverLeftMasked, Tasks
<1>5. CASE IsrEnter
  BY <1>5 DEF IsrEnter, taskVars, TypeOK, NeverLeftMasked, Tasks
<1>6. CASE IsrLoadArg
  BY <1>6 DEF IsrLoadArg, taskVars, TypeOK, NeverLeftMasked, Tasks
<1>7. CASE IsrRead
  BY <1>7 DEF IsrRead, taskVars, TypeOK, NeverLeftMasked, Tasks
<1>8. CASE IsrMask
  BY <1>8 DEF IsrMask, taskVars, TypeOK, NeverLeftMasked, Tasks
<1>9. CASE IsrStore
  BY <1>9 DEF IsrStore, taskVars, TypeOK, NeverLeftMasked, Tasks
<1>10. CASE IsrEnqueue
  BY <1>10 DEF IsrEnqueue, TypeOK, NeverLeftMasked, Tasks
<1>11. CASE IsrStopPoll
  BY <1>11 DEF IsrStopPoll, taskVars, TypeOK, NeverLeftMasked, Tasks
<1>12. CASE TaskDequeue
  BY <1>12 DEF TaskDequeue, isrVars, TypeOK, NeverLeftMasked, Tasks
<1>13. CASE TaskTake
  BY <1>13 DEF TaskTake, isrVars, TypeOK, NeverLeftMasked, Tasks
<1>14. CASE TaskLock
  BY <1>14 DEF TaskLock, isrVars, TypeOK, NeverLeftMasked, Tasks
<1>15. CASE TaskRecv
  BY <1>15 DEF TaskRecv, FillRqueue, isrVars, TypeOK, NeverLeftMasked, Tasks
<1>16. CASE TaskRelock
  BY <1>16 DEF TaskRelock, isrVars, TypeOK, NeverLeftMasked, Tasks
<1>17. CASE TaskWork
  BY <1>17 DEF TaskWork, FillRqueue, TxRing, isrVars, TypeOK, NeverLeftMasked,
    Tasks
<1>18. CASE TaskEnable
  BY <1>18 DEF TaskEnable, isrVars, TypeOK, NeverLeftMasked, Tasks
<1>19. CASE TaskRearm
  BY <1>19 DEF TaskRearm, isrVars, TypeOK, NeverLeftMasked, Tasks
<1>20. CASE DetachStop
  BY <1>20 DEF DetachStop, Stop, taskVars, isrVars, TypeOK, NeverLeftMasked,
    Tasks
<1>21. CASE GemReceive \/ GemTransmit \/ Submit \/ Start \/ PollFires
            \/ RegisterArg \/ RegisterFilter \/ DrainPoll \/ ClearFilter
            \/ ClearArg \/ DrainTaskAndFree \/ UNCHANGED vars
  <2> SUFFICES UNCHANGED <<running, masked, queued, task, isr>>
    BY <1>1
  <2> QED
    BY <1>21 DEF GemReceive, GemTransmit, Submit, Start, PollFires,
      RegisterArg, RegisterFilter, DrainPoll, ClearFilter, ClearArg,
      DrainTaskAndFree, vars, taskVars, isrVars
<1> QED
  BY <1>2, <1>3, <1>4, <1>5, <1>6, <1>7, <1>8, <1>9, <1>10, <1>11, <1>12,
    <1>13, <1>14, <1>15, <1>16, <1>17, <1>18, <1>19, <1>20, <1>21 DEF Next,
    Gem, Stack, Poll, Isr, Task, Life, Over

\* What rp1eth_detach has stopped stays stopped.
LEMMA LifeStep == TypeOK /\ Holds /\ LifeSound /\ [Next]_vars => LifeSound'
<1> SUFFICES ASSUME TypeOK, Holds, LifeSound, [Next]_vars PROVE LifeSound'
  OBVIOUS
<1>1. CASE UNCHANGED <<life, running, mtx, posted, ready, queued, task, armed,
                       poll, hook, isr, raced>>
  BY <1>1 DEF TypeOK, Holds, LifeSound, FilterThere, Stopped, PollGone,
    IsrGone, TaskGone
<1>2. CASE GemReceive
  BY <1>2 DEF GemReceive, taskVars, isrVars, rxVars, TypeOK, Holds, LifeSound,
    FilterThere, Stopped, PollGone, IsrGone, TaskGone
<1>3. CASE IfUp
  BY <1>3 DEF IfUp, FillRqueue, taskVars, isrVars, TypeOK, Holds, LifeSound,
    FilterThere, Stopped, PollGone, IsrGone, TaskGone
<1>4. CASE IfDown
  BY <1>4 DEF IfDown, Stop, taskVars, isrVars, TypeOK, Holds, LifeSound,
    FilterThere, Stopped, PollGone, IsrGone, TaskGone
<1>5. CASE PollFires
  BY <1>5 DEF PollFires, rxVars, taskVars, isrVars, TypeOK, Holds, LifeSound,
    FilterThere, Stopped, PollGone, IsrGone, TaskGone
<1>6. CASE life # "freed" /\ PollRun
  BY <1>6 DEF PollRun, rxVars, isrVars, TypeOK, Holds, LifeSound, FilterThere,
    Stopped, PollGone, IsrGone, TaskGone
<1>7. CASE IsrEnter
  BY <1>7 DEF IsrEnter, rxVars, taskVars, TypeOK, Holds, LifeSound,
    FilterThere, Stopped, PollGone, IsrGone, TaskGone
<1>8. CASE IsrLoadArg
  BY <1>8 DEF IsrLoadArg, rxVars, taskVars, TypeOK, Holds, LifeSound,
    FilterThere, Stopped, PollGone, IsrGone, TaskGone
<1>9. CASE IsrRead
  BY <1>9 DEF IsrRead, rxVars, taskVars, TypeOK, Holds, LifeSound, FilterThere,
    Stopped, PollGone, IsrGone, TaskGone
<1>10. CASE IsrMask
  BY <1>10 DEF IsrMask, rxVars, taskVars, TypeOK, Holds, LifeSound,
    FilterThere, Stopped, PollGone, IsrGone, TaskGone
<1>11. CASE IsrStore
  BY <1>11 DEF IsrStore, rxVars, taskVars, TypeOK, Holds, LifeSound,
    FilterThere, Stopped, PollGone, IsrGone, TaskGone
<1>12. CASE life # "freed" /\ IsrEnqueue
  BY <1>12 DEF IsrEnqueue, rxVars, TypeOK, Holds, LifeSound, FilterThere,
    Stopped, PollGone, IsrGone, TaskGone
<1>13. CASE IsrStopPoll
  BY <1>13 DEF IsrStopPoll, rxVars, taskVars, TypeOK, Holds, LifeSound,
    FilterThere, Stopped, PollGone, IsrGone, TaskGone
<1>14. CASE TaskDequeue
  BY <1>14 DEF TaskDequeue, rxVars, isrVars, TypeOK, Holds, LifeSound,
    FilterThere, Stopped, PollGone, IsrGone, TaskGone
<1>15. CASE TaskTake
  BY <1>15 DEF TaskTake, rxVars, isrVars, TypeOK, Holds, LifeSound,
    FilterThere, Stopped, PollGone, IsrGone, TaskGone
<1>16. CASE TaskLock
  BY <1>16 DEF TaskLock, rxVars, isrVars, TypeOK, Holds, LifeSound,
    FilterThere, Stopped, PollGone, IsrGone, TaskGone
<1>17. CASE TaskRecv
  BY <1>17 DEF TaskRecv, FillRqueue, isrVars, TypeOK, Holds, LifeSound,
    FilterThere, Stopped, PollGone, IsrGone, TaskGone
<1>18. CASE TaskRelock
  BY <1>18 DEF TaskRelock, rxVars, isrVars, TypeOK, Holds, LifeSound,
    FilterThere, Stopped, PollGone, IsrGone, TaskGone
<1>19. CASE TaskWork
  BY <1>19 DEF TaskWork, FillRqueue, TxRing, isrVars, rxVars, TypeOK, Holds,
    LifeSound, FilterThere, Stopped, PollGone, IsrGone, TaskGone
<1>20. CASE TaskEnable
  BY <1>20 DEF TaskEnable, rxVars, isrVars, TypeOK, Holds, LifeSound,
    FilterThere, Stopped, PollGone, IsrGone, TaskGone
<1>21. CASE TaskRearm
  BY <1>21 DEF TaskRearm, rxVars, isrVars, TypeOK, Holds, LifeSound,
    FilterThere, Stopped, PollGone, IsrGone, TaskGone
<1>22. CASE RegisterArg
  BY <1>22 DEF RegisterArg, rxVars, taskVars, isrVars, TypeOK, Holds,
    LifeSound, FilterThere, Stopped, PollGone, IsrGone, TaskGone
<1>23. CASE RegisterFilter
  BY <1>23 DEF RegisterFilter, rxVars, taskVars, isrVars, TypeOK, Holds,
    LifeSound, FilterThere, Stopped, PollGone, IsrGone, TaskGone
<1>24. CASE DetachStop
  <2>1. life' = "stopped" /\ hook' = hook
    BY <1>24 DEF DetachStop
  <2>2. ~raced' => task' \in {"idle", "start", "lock"}
    BY <1>24 DEF DetachStop, Stop, taskVars, TypeOK, Holds, Tasks
  <2>3. ~running' /\ ~armed' /\ posted' = 0 /\ ready' = 0
    BY <1>24 DEF DetachStop, Stop
  <2> QED
    BY <2>1, <2>2, <2>3 DEF LifeSound, FilterThere, Stopped, PollGone, IsrGone,
      TaskGone
<1>25. CASE DrainPoll
  BY <1>25 DEF DrainPoll, rxVars, taskVars, isrVars, TypeOK, Holds, LifeSound,
    FilterThere, Stopped, PollGone, IsrGone, TaskGone
<1>26. CASE ClearFilter
  BY <1>26 DEF ClearFilter, rxVars, taskVars, isrVars, TypeOK, Holds,
    LifeSound, FilterThere, Stopped, PollGone, IsrGone, TaskGone
<1>27. CASE ClearArg
  BY <1>27 DEF ClearArg, rxVars, taskVars, isrVars, TypeOK, Holds, LifeSound,
    FilterThere, Stopped, PollGone, IsrGone, TaskGone
<1>28. CASE DrainTaskAndFree
  BY <1>28 DEF DrainTaskAndFree, rxVars, taskVars, isrVars, TypeOK, Holds,
    LifeSound, FilterThere, Stopped, PollGone, IsrGone, TaskGone
<1>29. CASE GemTransmit \/ Submit \/ Start \/ UNCHANGED vars
  <2> SUFFICES UNCHANGED <<life, running, mtx, posted, ready, queued, task,
                           armed, poll, hook, isr, raced>>
    BY <1>1
  <2> QED
    BY <1>29 DEF GemTransmit, Submit, Start, vars, rxVars, taskVars, isrVars
<1> QED
  BY <1>2, <1>3, <1>4, <1>5, <1>6, <1>7, <1>8, <1>9, <1>10, <1>11, <1>12,
    <1>13, <1>14, <1>15, <1>16, <1>17, <1>18, <1>19, <1>20, <1>21, <1>22,
    <1>23, <1>24, <1>25, <1>26, <1>27, <1>28, <1>29 DEF Next, Gem, Stack, Poll,
    Isr, Task, Life, Over

\* What cgem_clean_tx and cgem_start_locked leave in the ring and the send queue:
\* nothing sent stays if the ring was full, and the GEM is started for what was
\* added.
LEMMA TxRingFacts ==
  ASSUME txq \in 0 .. TxLimit, done \in 0 .. txq,
         NEW clean \in BOOLEAN, NEW go, NEW n \in Nat, TxRing(clean, go, n)
  PROVE  /\ txq' \in 0 .. TxLimit /\ done' \in 0 .. txq'
         /\ sendq' \in 0 .. n
         /\ oactive' => (oactive /\ txq' = txq /\ done' = done) \/ txq' = TxLimit
         /\ stale => stale'
         /\ ~stale' /\ ~running /\ txq = 0 => txq' = 0
         /\ ~stale' /\ running /\ done' < txq' => txgo' \/ done < txq
         /\ txgo => txgo'
         /\ txq' > 0 /\ done' = txq' => txq' = txq /\ done' = done /\ ~clean
<1>1. TxLimit \in Nat \ {0}
  BY GemAssumption
<1> DEFINE t    == IF clean THEN txq - done ELSE txq
           d    == IF clean THEN 0 ELSE done
           oa   == oactive /\ ~(clean /\ done > 0)
           room == IF t + n < TxLimit THEN n ELSE TxLimit - t + d
           k    == IF n < room THEN n ELSE room
<1>2. /\ t \in 0 .. TxLimit /\ d \in 0 .. t
      /\ clean => d = 0 /\ t = txq - done
      /\ ~clean => d = done /\ t = txq
  BY <1>1
<1>3. oa => oactive /\ t = txq /\ d = done
  BY <1>1
<1>4. /\ t + n < TxLimit => k = n
      /\ ~(t + n < TxLimit) => k = (IF n < TxLimit - t + d THEN n ELSE TxLimit - t + d)
      /\ k \in 0 .. n
  BY <1>1, <1>2
<1>5. CASE ~go \/ oa
  <2>1. /\ txq' = t /\ done' = d /\ oactive' = oa /\ sendq' = n
        /\ txgo' = txgo /\ stale' = stale
    BY <1>5 DEF TxRing
  <2> HIDE DEF t, d, oa, room, k
  <2> QED
    BY <1>1, <1>2, <1>3, <2>1
<1>6. CASE go /\ ~oa
  <2>1. /\ txq' = IF t + n < TxLimit THEN t + n ELSE t - d + k
        /\ done' = IF t + n < TxLimit THEN d ELSE 0
        /\ oactive' = (txq' >= TxLimit)
        /\ sendq' = n - k
        /\ txgo' = (txgo \/ (running /\ k > 0))
        /\ stale' = (stale \/ (~running /\ k > 0))
    BY <1>6 DEF TxRing
  <2> HIDE DEF t, d, oa, room, k
  <2>2. /\ txgo => txgo'
        /\ stale => stale'
        /\ running /\ k > 0 => txgo'
        /\ ~stale' /\ ~running => ~(k > 0)
    BY <2>1
  <2>3. sendq' \in 0 .. n
    BY <1>4, <2>1
  <2>4. CASE t + n < TxLimit
    <3>1. txq' = t + n /\ done' = d /\ k = n
      BY <1>4, <2>1, <2>4
    <3>2. txq' \in 0 .. TxLimit /\ done' \in 0 .. txq' /\ ~(txq' >= TxLimit)
      BY <1>1, <1>2, <2>4, <3>1
    <3>5. ~oactive'
      BY <2>1, <3>2
    <3>3. k = 0 => txq' = t
      BY <1>2, <3>1
    <3>4. k > 0 => txq' > done'
      BY <1>2, <3>1
    <3> QED
      BY <1>1, <1>2, <1>4, <2>2, <2>3, <3>1, <3>2, <3>3, <3>4, <3>5
  <2>5. CASE ~(t + n < TxLimit)
    <3>1. txq' = t - d + k /\ done' = 0
          /\ k = (IF n < TxLimit - t + d THEN n ELSE TxLimit - t + d)
      BY <1>4, <2>1, <2>5
    <3>2. txq' \in 0 .. TxLimit /\ done' \in 0 .. txq'
      BY <1>1, <1>2, <1>4, <2>5, <3>1
    <3>3. oactive' => txq' = TxLimit
      <4>1. txq' >= TxLimit => txq' = TxLimit
        BY <1>1, <3>2
      <4> QED
        BY <2>1, <4>1
    <3>4. k = 0 => txq' = t - d
      BY <1>2, <3>1
    <3> QED
      BY <1>1, <1>2, <1>4, <2>2, <2>3, <3>1, <3>2, <3>3, <3>4
  <2> QED
    BY <2>4, <2>5
<1> QED
  BY <1>5, <1>6

\* They leave Boolean flags.
LEMMA TxRingFlags ==
  ASSUME TxFlags, NEW clean \in BOOLEAN, NEW go, NEW n, TxRing(clean, go, n)
  PROVE  TxFlags'
<1> DEFINE oa == oactive /\ ~(clean /\ done > 0)
<1>1. CASE ~go \/ oa
  <2>1. oactive' = oa /\ txgo' = txgo /\ stale' = stale
    BY <1>1 DEF TxRing
  <2> QED
    BY <2>1 DEF TxFlags
<1>2. CASE go /\ ~oa
  <2>1. PICK k : /\ oactive' = (txq' >= TxLimit)
                 /\ txgo' = (txgo \/ (running /\ k > 0))
                 /\ stale' = (stale \/ (~running /\ k > 0))
    BY <1>2 DEF TxRing
  <2> QED
    BY <2>1 DEF TxFlags
<1> QED
  BY <1>1, <1>2

\* A ring filled up from p, with r places taken, has room for what it holds.
LEMMA RangeFacts ==
  ASSUME NEW n \in Nat, NEW p \in 0 .. n, NEW r \in 0 .. n,
         NEW q \in p .. (n - r)
  PROVE  q \in 0 .. n /\ q + r <= n
OBVIOUS

\* No more buffers are in the receive ring than it has place for.
LEMMA RxTypesStep == RxTypes /\ [Next]_vars => RxTypes'
<1> SUFFICES ASSUME RxTypes, [Next]_vars PROVE RxTypes'
  OBVIOUS
<1> USE GemAssumption
<1>1. CASE UNCHANGED <<posted, ready>>
  BY <1>1 DEF RxTypes
<1>2. CASE GemReceive
  BY <1>2 DEF GemReceive, rxVars, RxTypes
<1>3. CASE IfUp
  <2>1. /\ posted \in 0 .. RxBufs /\ ready \in 0 .. RxBufs /\ RxBufs \in Nat
        /\ posted + ready <= RxBufs
    BY DEF RxTypes
  <2>2. ready' = ready /\ posted' \in posted .. (RxBufs - ready)
    BY <1>3 DEF IfUp, FillRqueue
  <2>3. ready \in 0 .. RxBufs
    BY <2>1
  <2>4. posted' \in 0 .. RxBufs /\ posted' + ready <= RxBufs
    BY <2>1, <2>2, <2>3, RangeFacts
  <2> QED
    BY <2>2, <2>3, <2>4 DEF RxTypes
<1>4. CASE IfDown
  BY <1>4 DEF IfDown, Stop, RxTypes
<1>5. CASE TaskRecv
  <2>1. /\ posted \in 0 .. RxBufs /\ ready \in 0 .. RxBufs /\ RxBufs \in Nat
        /\ posted + ready <= RxBufs
    BY DEF RxTypes
  <2>2. ready' = 0 /\ posted' \in posted .. (RxBufs - 0)
    BY <1>5 DEF TaskRecv, FillRqueue
  <2>3. 0 \in 0 .. RxBufs
    BY <2>1
  <2>4. posted' \in 0 .. RxBufs /\ posted' + 0 <= RxBufs
    BY <2>1, <2>2, <2>3, RangeFacts
  <2> QED
    BY <2>2, <2>3, <2>4 DEF RxTypes
<1>6. CASE TaskWork
  BY <1>6 DEF TaskWork, FillRqueue, TxRing, rxVars, RxTypes
<1>7. CASE DetachStop
  BY <1>7 DEF DetachStop, Stop, RxTypes
<1>8. CASE GemTransmit \/ Submit \/ Start \/ PollFires \/ PollRun
            \/ IsrEnter \/ IsrLoadArg \/ IsrRead \/ IsrMask \/ IsrStore
            \/ IsrEnqueue \/ IsrStopPoll
  <2> SUFFICES UNCHANGED <<posted, ready>>
    BY <1>1
  <2> QED
    BY <1>8 DEF GemTransmit, Submit, Start, PollFires, PollRun, IsrEnter,
      IsrLoadArg, IsrRead, IsrMask, IsrStore, IsrEnqueue, IsrStopPoll, rxVars
<1>9. CASE TaskDequeue \/ TaskTake \/ TaskLock \/ TaskRelock
            \/ TaskEnable \/ TaskRearm \/ RegisterArg \/ RegisterFilter
            \/ DrainPoll \/ ClearFilter \/ ClearArg \/ DrainTaskAndFree
            \/ UNCHANGED vars
  <2> SUFFICES UNCHANGED <<posted, ready>>
    BY <1>1
  <2> QED
    BY <1>9 DEF TaskDequeue, TaskTake, TaskLock, TaskRelock, TaskEnable,
      TaskRearm, RegisterArg, RegisterFilter, DrainPoll, ClearFilter, ClearArg,
      DrainTaskAndFree, vars, rxVars
<1> QED
  BY <1>2, <1>3, <1>4, <1>5, <1>6, <1>7, <1>8, <1>9 DEF Next, Gem, Stack, Poll,
    Isr, Task, Life, Over

\* No more descriptors are in use than the transmit ring has.
LEMMA TxTypesStep == TxTypes /\ [Next]_vars => TxTypes'
<1> SUFFICES ASSUME TxTypes, [Next]_vars PROVE TxTypes'
  OBVIOUS
<1> USE GemAssumption
<1>1. CASE UNCHANGED <<sendq, kicks, txq, done>>
  BY <1>1 DEF TxTypes
<1>2. CASE GemTransmit
  BY <1>2 DEF GemTransmit, TxTypes
<1>3. CASE Submit
  BY <1>3 DEF Submit, TxTypes
<1>4. CASE Start
  <2>1. sendq \in Nat /\ TxRing(FALSE, TRUE, sendq)
    <3>1. TxRing(FALSE, TRUE, sendq)
      BY <1>4 DEF Start
    <3>2. sendq \in Nat
      BY DEF TxTypes
    <3> QED
      BY <3>1, <3>2
  <2>2. txq' \in 0 .. TxLimit /\ done' \in 0 .. txq' /\ sendq' \in 0 .. sendq
    BY <2>1, TxRingFacts DEF TxTypes
  <2>3. kicks' \in 0 .. Cpus
    BY <1>4 DEF Start, TxTypes
  <2> QED
    BY <2>2, <2>3 DEF TxTypes
<1>5. CASE IfDown
  BY <1>5 DEF IfDown, Stop, TxTypes
<1>6. CASE TaskWork
  <2>1. sendq \in Nat /\ TxRing(TRUE, sendq > 0, sendq)
    <3>1. TxRing(TRUE, sendq > 0, sendq)
      BY <1>6 DEF TaskWork
    <3>2. sendq \in Nat
      BY DEF TxTypes
    <3> QED
      BY <3>1, <3>2
  <2>2. txq' \in 0 .. TxLimit /\ done' \in 0 .. txq' /\ sendq' \in 0 .. sendq
    BY <2>1, TxRingFacts DEF TxTypes
  <2>3. kicks' \in 0 .. Cpus
    BY <1>6 DEF TaskWork, TxTypes
  <2> QED
    BY <2>2, <2>3 DEF TxTypes
<1>7. CASE DetachStop
  BY <1>7 DEF DetachStop, Stop, TxTypes
<1>8. CASE GemReceive \/ IfUp \/ PollFires \/ PollRun \/ IsrEnter
            \/ IsrLoadArg \/ IsrRead \/ IsrMask \/ IsrStore \/ IsrEnqueue
            \/ IsrStopPoll \/ TaskDequeue
  <2> SUFFICES UNCHANGED <<sendq, kicks, txq, done>>
    BY <1>1
  <2> QED
    BY <1>8 DEF GemReceive, IfUp, PollFires, PollRun, IsrEnter, IsrLoadArg,
      IsrRead, IsrMask, IsrStore, IsrEnqueue, IsrStopPoll, TaskDequeue, txVars
<1>9. CASE TaskTake \/ TaskLock \/ TaskRecv \/ TaskRelock \/ TaskEnable
            \/ TaskRearm \/ RegisterArg \/ RegisterFilter \/ DrainPoll
            \/ ClearFilter \/ ClearArg \/ DrainTaskAndFree
            \/ UNCHANGED vars
  <2> SUFFICES UNCHANGED <<sendq, kicks, txq, done>>
    BY <1>1
  <2> QED
    BY <1>9 DEF TaskTake, TaskLock, TaskRecv, TaskRelock, TaskEnable,
      TaskRearm, RegisterArg, RegisterFilter, DrainPoll, ClearFilter, ClearArg,
      DrainTaskAndFree, vars, txVars
<1> QED
  BY <1>2, <1>3, <1>4, <1>5, <1>6, <1>7, <1>8, <1>9 DEF Next, Gem, Stack, Poll,
    Isr, Task, Life, Over

\* The flags of the transmitter are Boolean.
LEMMA TxFlagsStep == TxFlags /\ [Next]_vars => TxFlags'
<1> SUFFICES ASSUME TxFlags, [Next]_vars PROVE TxFlags'
  OBVIOUS
<1>1. CASE UNCHANGED <<txgo, oactive, stale>>
  BY <1>1 DEF TxFlags
<1>2. CASE GemTransmit
  BY <1>2 DEF GemTransmit, TxFlags
<1>3. CASE Start
  BY <1>3, TxRingFlags DEF Start
<1>4. CASE IfUp
  BY <1>4 DEF IfUp, FillRqueue, TxFlags
<1>5. CASE IfDown
  BY <1>5 DEF IfDown, Stop, TxFlags
<1>6. CASE TaskWork
  BY <1>6, TxRingFlags DEF TaskWork
<1>7. CASE DetachStop
  BY <1>7 DEF DetachStop, Stop, TxFlags
<1>8. CASE GemReceive \/ Submit \/ PollFires \/ PollRun \/ IsrEnter
            \/ IsrLoadArg \/ IsrRead \/ IsrMask \/ IsrStore \/ IsrEnqueue
            \/ IsrStopPoll \/ TaskDequeue
  <2> SUFFICES UNCHANGED <<txgo, oactive, stale>>
    BY <1>1
  <2> QED
    BY <1>8 DEF GemReceive, Submit, PollFires, PollRun, IsrEnter, IsrLoadArg,
      IsrRead, IsrMask, IsrStore, IsrEnqueue, IsrStopPoll, TaskDequeue, txVars
<1>9. CASE TaskTake \/ TaskLock \/ TaskRecv \/ TaskRelock \/ TaskEnable
            \/ TaskRearm \/ RegisterArg \/ RegisterFilter \/ DrainPoll
            \/ ClearFilter \/ ClearArg \/ DrainTaskAndFree
            \/ UNCHANGED vars
  <2> SUFFICES UNCHANGED <<txgo, oactive, stale>>
    BY <1>1
  <2> QED
    BY <1>9 DEF TaskTake, TaskLock, TaskRecv, TaskRelock, TaskEnable,
      TaskRearm, RegisterArg, RegisterFilter, DrainPoll, ClearFilter, ClearArg,
      DrainTaskAndFree, vars, txVars
<1> QED
  BY <1>2, <1>3, <1>4, <1>5, <1>6, <1>7, <1>8, <1>9 DEF Next, Gem, Stack, Poll,
    Isr, Task, Life, Over

\* Every thread goes to one of its steps.
LEMMA StepTypesStep == StepTypes /\ [Next]_vars => StepTypes'
<1> SUFFICES ASSUME StepTypes, [Next]_vars PROVE StepTypes'
  OBVIOUS
<1>1. CASE UNCHANGED <<life, mtx, task, poll, hook, isr>>
  BY <1>1 DEF StepTypes, Lives, Tasks, Isrs
<1>2. CASE PollFires
  BY <1>2 DEF PollFires, taskVars, isrVars, StepTypes, Lives, Tasks, Isrs
<1>3. CASE PollRun
  BY <1>3 DEF PollRun, isrVars, StepTypes, Lives, Tasks, Isrs
<1>4. CASE IsrEnter
  BY <1>4 DEF IsrEnter, taskVars, StepTypes, Lives, Tasks, Isrs
<1>5. CASE IsrLoadArg
  BY <1>5 DEF IsrLoadArg, taskVars, StepTypes, Lives, Tasks, Isrs
<1>6. CASE IsrRead
  BY <1>6 DEF IsrRead, taskVars, StepTypes, Lives, Tasks, Isrs
<1>7. CASE IsrMask
  BY <1>7 DEF IsrMask, taskVars, StepTypes, Lives, Tasks, Isrs
<1>8. CASE IsrStore
  BY <1>8 DEF IsrStore, taskVars, StepTypes, Lives, Tasks, Isrs
<1>9. CASE IsrEnqueue
  BY <1>9 DEF IsrEnqueue, StepTypes, Lives, Tasks, Isrs
<1>10. CASE IsrStopPoll
  BY <1>10 DEF IsrStopPoll, taskVars, StepTypes, Lives, Tasks, Isrs
<1>11. CASE TaskDequeue
  BY <1>11 DEF TaskDequeue, isrVars, StepTypes, Lives, Tasks, Isrs
<1>12. CASE TaskTake
  BY <1>12 DEF TaskTake, isrVars, StepTypes, Lives, Tasks, Isrs
<1>13. CASE TaskLock
  BY <1>13 DEF TaskLock, isrVars, StepTypes, Lives, Tasks, Isrs
<1>14. CASE TaskRecv
  BY <1>14 DEF TaskRecv, FillRqueue, isrVars, StepTypes, Lives, Tasks, Isrs
<1>15. CASE TaskRelock
  BY <1>15 DEF TaskRelock, isrVars, StepTypes, Lives, Tasks, Isrs
<1>16. CASE TaskWork
  BY <1>16 DEF TaskWork, FillRqueue, TxRing, isrVars, StepTypes, Lives, Tasks,
    Isrs
<1>17. CASE TaskEnable
  BY <1>17 DEF TaskEnable, isrVars, StepTypes, Lives, Tasks, Isrs
<1>18. CASE TaskRearm
  BY <1>18 DEF TaskRearm, isrVars, StepTypes, Lives, Tasks, Isrs
<1>19. CASE RegisterArg
  BY <1>19 DEF RegisterArg, taskVars, isrVars, StepTypes, Lives, Tasks, Isrs
<1>20. CASE RegisterFilter
  BY <1>20 DEF RegisterFilter, taskVars, isrVars, StepTypes, Lives, Tasks, Isrs
<1>21. CASE DetachStop
  BY <1>21 DEF DetachStop, Stop, taskVars, isrVars, StepTypes, Lives, Tasks,
    Isrs
<1>22. CASE DrainPoll
  BY <1>22 DEF DrainPoll, taskVars, isrVars, StepTypes, Lives, Tasks, Isrs
<1>23. CASE ClearFilter
  BY <1>23 DEF ClearFilter, taskVars, isrVars, StepTypes, Lives, Tasks, Isrs
<1>24. CASE ClearArg
  BY <1>24 DEF ClearArg, taskVars, isrVars, StepTypes, Lives, Tasks, Isrs
<1>25. CASE DrainTaskAndFree
  BY <1>25 DEF DrainTaskAndFree, taskVars, isrVars, StepTypes, Lives, Tasks,
    Isrs
<1>26. CASE GemReceive \/ GemTransmit \/ Submit \/ Start \/ IfUp \/ IfDown
            \/ UNCHANGED vars
  <2> SUFFICES UNCHANGED <<life, mtx, task, poll, hook, isr>>
    BY <1>1
  <2> QED
    BY <1>26 DEF GemReceive, GemTransmit, Submit, Start, IfUp, IfDown, vars,
      taskVars, isrVars
<1> QED
  BY <1>2, <1>3, <1>4, <1>5, <1>6, <1>7, <1>8, <1>9, <1>10, <1>11, <1>12,
    <1>13, <1>14, <1>15, <1>16, <1>17, <1>18, <1>19, <1>20, <1>21, <1>22,
    <1>23, <1>24, <1>25, <1>26 DEF Next, Gem, Stack, Poll, Isr, Task, Life,
    Over

\* The flags of the driver are Boolean.
LEMMA FlagTypesStep == FlagTypes /\ [Next]_vars => FlagTypes'
<1> SUFFICES ASSUME FlagTypes, [Next]_vars PROVE FlagTypes'
  OBVIOUS
<1>1. CASE UNCHANGED <<running, masked, queued, armed, raced>>
  BY <1>1 DEF FlagTypes
<1>2. CASE IfUp
  BY <1>2 DEF IfUp, FillRqueue, taskVars, FlagTypes
<1>3. CASE IfDown
  BY <1>3 DEF IfDown, Stop, taskVars, FlagTypes
<1>4. CASE PollFires
  BY <1>4 DEF PollFires, taskVars, FlagTypes
<1>5. CASE PollRun
  BY <1>5 DEF PollRun, FlagTypes
<1>6. CASE IsrMask
  BY <1>6 DEF IsrMask, taskVars, FlagTypes
<1>7. CASE IsrEnqueue
  BY <1>7 DEF IsrEnqueue, FlagTypes
<1>8. CASE IsrStopPoll
  BY <1>8 DEF IsrStopPoll, taskVars, FlagTypes
<1>9. CASE TaskDequeue
  BY <1>9 DEF TaskDequeue, FlagTypes
<1>10. CASE TaskEnable
  BY <1>10 DEF TaskEnable, FlagTypes
<1>11. CASE TaskRearm
  BY <1>11 DEF TaskRearm, FlagTypes
<1>12. CASE DetachStop
  BY <1>12 DEF DetachStop, Stop, taskVars, FlagTypes
<1>13. CASE DrainPoll
  BY <1>13 DEF DrainPoll, taskVars, FlagTypes
<1>14. CASE ClearFilter
  BY <1>14 DEF ClearFilter, taskVars, FlagTypes
<1>15. CASE GemReceive \/ GemTransmit \/ Submit \/ Start \/ IsrEnter
            \/ IsrLoadArg \/ IsrRead \/ IsrStore \/ TaskTake \/ TaskLock
            \/ TaskRecv \/ TaskRelock
  <2> SUFFICES UNCHANGED <<running, masked, queued, armed, raced>>
    BY <1>1
  <2> QED
    BY <1>15 DEF GemReceive, GemTransmit, Submit, Start, IsrEnter, IsrLoadArg,
      IsrRead, IsrStore, TaskTake, TaskLock, TaskRecv, TaskRelock, taskVars
<1>16. CASE TaskWork \/ RegisterArg \/ RegisterFilter \/ ClearArg
            \/ DrainTaskAndFree \/ UNCHANGED vars
  <2> SUFFICES UNCHANGED <<running, masked, queued, armed, raced>>
    BY <1>1
  <2> QED
    BY <1>16 DEF TaskWork, RegisterArg, RegisterFilter, ClearArg,
      DrainTaskAndFree, vars, taskVars
<1> QED
  BY <1>2, <1>3, <1>4, <1>5, <1>6, <1>7, <1>8, <1>9, <1>10, <1>11, <1>12,
    <1>13, <1>14, <1>15, <1>16 DEF Next, Gem, Stack, Poll, Isr, Task, Life,
    Over

\* The status and its copies are sets of events.
LEMMA EventTypesStep == EventTypes /\ [Next]_vars => EventTypes'
<1> SUFFICES ASSUME EventTypes, [Next]_vars PROVE EventTypes'
  OBVIOUS
<1>1. CASE UNCHANGED <<stat, pending, ist, fist>>
  BY <1>1 DEF EventTypes, Events
<1>2. CASE GemReceive
  BY <1>2 DEF GemReceive, taskVars, isrVars, EventTypes, Events
<1>3. CASE GemTransmit
  BY <1>3 DEF GemTransmit, taskVars, isrVars, EventTypes, Events
<1>4. CASE PollRun
  BY <1>4 DEF PollRun, isrVars, EventTypes, Events
<1>5. CASE IsrRead
  BY <1>5 DEF IsrRead, taskVars, EventTypes, Events
<1>6. CASE IsrStore
  BY <1>6 DEF IsrStore, taskVars, EventTypes, Events
<1>7. CASE TaskTake
  BY <1>7 DEF TaskTake, isrVars, EventTypes, Events
<1>8. CASE TaskLock
  BY <1>8 DEF TaskLock, isrVars, EventTypes, Events
<1>9. CASE TaskWork
  BY <1>9 DEF TaskWork, FillRqueue, TxRing, isrVars, EventTypes, Events
<1>10. CASE Submit \/ Start \/ IfUp \/ IfDown \/ PollFires \/ IsrEnter
            \/ IsrLoadArg \/ IsrMask \/ IsrEnqueue \/ IsrStopPoll
            \/ TaskDequeue \/ TaskRecv
  <2> SUFFICES UNCHANGED <<stat, pending, ist, fist>>
    BY <1>1
  <2> QED
    BY <1>10 DEF Submit, Start, IfUp, IfDown, PollFires, IsrEnter, IsrLoadArg,
      IsrMask, IsrEnqueue, IsrStopPoll, TaskDequeue, TaskRecv, taskVars,
      isrVars
<1>11. CASE TaskRelock \/ TaskEnable \/ TaskRearm \/ RegisterArg
            \/ RegisterFilter \/ DetachStop \/ DrainPoll \/ ClearFilter
            \/ ClearArg \/ DrainTaskAndFree \/ UNCHANGED vars
  <2> SUFFICES UNCHANGED <<stat, pending, ist, fist>>
    BY <1>1
  <2> QED
    BY <1>11 DEF TaskRelock, TaskEnable, TaskRearm, RegisterArg,
      RegisterFilter, DetachStop, DrainPoll, ClearFilter, ClearArg,
      DrainTaskAndFree, vars, isrVars, taskVars
<1> QED
  BY <1>2, <1>3, <1>4, <1>5, <1>6, <1>7, <1>8, <1>9, <1>10, <1>11 DEF Next,
    Gem, Stack, Poll, Isr, Task, Life, Over

\* Every action keeps the types.
LEMMA TypeStep == TypeOK /\ [Next]_vars => TypeOK'
<1> SUFFICES ASSUME TypeOK, [Next]_vars PROVE TypeOK'
  OBVIOUS
<1>1. RxTypes /\ TxTypes /\ TxFlags /\ StepTypes /\ FlagTypes /\ EventTypes
  BY TypeParts
<1>2. (RxTypes /\ TxTypes /\ TxFlags /\ StepTypes /\ FlagTypes /\ EventTypes)'
  BY <1>1, RxTypesStep, TxTypesStep, TxFlagsStep, StepTypesStep, FlagTypesStep,
    EventTypesStep
<1> QED
  BY <1>2 DEF TypeOK, RxTypes, TxTypes, TxFlags, StepTypes, FlagTypes,
    EventTypes

\* The transmit ring of a running interface is on its way, for as long as no
\* frame was put in it while the interface was down.
LEMMA TxStep == TypeOK /\ Holds /\ TxSound /\ [Next]_vars => TxSound'
<1> SUFFICES ASSUME TypeOK, Holds, TxSound, [Next]_vars PROVE TxSound'
  OBVIOUS
<1> USE GemAssumption
<1>1. CASE UNCHANGED <<running, mtx, stat, txq, done, txgo, oactive, stale,
                       task>>
  BY <1>1 DEF TypeOK, Holds, TxSound, SendingOn, SentLatched, FullWhenActive,
    EmptyWhenDown
<1>2. CASE GemReceive
  BY <1>2 DEF GemReceive, txVars, taskVars, TypeOK, Holds, TxSound, SendingOn,
    SentLatched, FullWhenActive, EmptyWhenDown
<1>3. CASE GemTransmit
  BY <1>3 DEF GemTransmit, taskVars, TypeOK, Holds, TxSound, SendingOn,
    SentLatched, FullWhenActive, EmptyWhenDown
<1>4. CASE Start
  <2>1. sendq \in Nat /\ TxRing(FALSE, TRUE, sendq)
    <3>1. TxRing(FALSE, TRUE, sendq)
      BY <1>4 DEF Start
    <3>2. sendq \in Nat
      BY DEF TypeOK
    <3> QED
      BY <3>1, <3>2
  <2>2. UNCHANGED <<running, stat, task>>
    BY <1>4 DEF Start, taskVars
  <2> QED
    BY <2>1, <2>2, TxRingFacts DEF TypeOK, TxSound, SendingOn, SentLatched,
      FullWhenActive, EmptyWhenDown
<1>5. CASE IfUp
  BY <1>5 DEF IfUp, FillRqueue, taskVars, TypeOK, Holds, TxSound, SendingOn,
    SentLatched, FullWhenActive, EmptyWhenDown
<1>6. CASE IfDown
  BY <1>6 DEF IfDown, Stop, taskVars, TypeOK, Holds, TxSound, SendingOn,
    SentLatched, FullWhenActive, EmptyWhenDown
<1>7. CASE TaskDequeue
  BY <1>7 DEF TaskDequeue, txVars, TypeOK, Holds, TxSound, SendingOn,
    SentLatched, FullWhenActive, EmptyWhenDown
<1>8. CASE TaskTake
  BY <1>8 DEF TaskTake, txVars, TypeOK, Holds, TxSound, SendingOn, SentLatched,
    FullWhenActive, EmptyWhenDown
<1>9. CASE TaskLock
  BY <1>9 DEF TaskLock, txVars, TypeOK, Holds, TxSound, SendingOn, SentLatched,
    FullWhenActive, EmptyWhenDown
<1>10. CASE TaskRecv
  BY <1>10 DEF TaskRecv, FillRqueue, txVars, TypeOK, Holds, TxSound, SendingOn,
    SentLatched, FullWhenActive, EmptyWhenDown
<1>11. CASE TaskRelock
  BY <1>11 DEF TaskRelock, txVars, TypeOK, Holds, TxSound, SendingOn,
    SentLatched, FullWhenActive, EmptyWhenDown
<1>12. CASE TaskWork
  <2>1. sendq \in Nat /\ TxRing(TRUE, sendq > 0, sendq)
    <3>1. TxRing(TRUE, sendq > 0, sendq)
      BY <1>12 DEF TaskWork
    <3>2. sendq \in Nat
      BY DEF TypeOK
    <3> QED
      BY <3>1, <3>2
  <2>2. UNCHANGED <<running, stat>>
    BY <1>12 DEF TaskWork
  <2> QED
    BY <2>1, <2>2, TxRingFacts DEF TypeOK, TxSound, SendingOn, SentLatched,
      FullWhenActive, EmptyWhenDown
<1>13. CASE TaskEnable
  BY <1>13 DEF TaskEnable, txVars, TypeOK, Holds, TxSound, SendingOn,
    SentLatched, FullWhenActive, EmptyWhenDown
<1>14. CASE TaskRearm
  BY <1>14 DEF TaskRearm, txVars, TypeOK, Holds, TxSound, SendingOn,
    SentLatched, FullWhenActive, EmptyWhenDown
<1>15. CASE DetachStop
  BY <1>15 DEF DetachStop, Stop, taskVars, TypeOK, Holds, TxSound, SendingOn,
    SentLatched, FullWhenActive, EmptyWhenDown
<1>16. CASE Submit \/ PollFires \/ PollRun \/ IsrEnter \/ IsrLoadArg
            \/ IsrRead \/ IsrMask \/ IsrStore \/ IsrEnqueue \/ IsrStopPoll
            \/ RegisterArg \/ RegisterFilter
  <2> SUFFICES UNCHANGED <<running, mtx, stat, txq, done, txgo, oactive, stale,
                           task>>
    BY <1>1
  <2> QED
    BY <1>16 DEF Submit, PollFires, PollRun, IsrEnter, IsrLoadArg, IsrRead,
      IsrMask, IsrStore, IsrEnqueue, IsrStopPoll, RegisterArg, RegisterFilter,
      taskVars, txVars
<1>17. CASE DrainPoll \/ ClearFilter \/ ClearArg \/ DrainTaskAndFree
            \/ UNCHANGED vars
  <2> SUFFICES UNCHANGED <<running, mtx, stat, txq, done, txgo, oactive, stale,
                           task>>
    BY <1>1
  <2> QED
    BY <1>17 DEF DrainPoll, ClearFilter, ClearArg, DrainTaskAndFree, vars,
      txVars, taskVars
<1> QED
  BY <1>2, <1>3, <1>4, <1>5, <1>6, <1>7, <1>8, <1>9, <1>10, <1>11, <1>12,
    <1>13, <1>14, <1>15, <1>16, <1>17 DEF Next, Gem, Stack, Poll, Isr, Task,
    Life, Over

-----------------------------------------------------------------------------
(* The invariant and what follows from it.                                 *)

\* The inductive invariant holds to begin with.
LEMMA InitInv == Init => IInv
<1> SUFFICES ASSUME Init PROVE IInv
  OBVIOUS
<1> USE GemAssumption DEF Init
<1>1. RxTypes /\ TxTypes
  BY DEF RxTypes, TxTypes
<1>2. TxFlags /\ FlagTypes
  BY DEF TxFlags, FlagTypes
<1>3. StepTypes
  BY DEF StepTypes, Lives, Tasks, Isrs
<1>4. EventTypes
  BY DEF EventTypes
<1>5. TypeOK
  BY <1>1, <1>2, <1>3, <1>4, TypeParts
<1>6. Holds /\ FramesLatched /\ NeverLeftMasked
  BY DEF Holds, FramesLatched, NeverLeftMasked
<1>7. TxSound
  BY DEF TxSound, SendingOn, SentLatched, FullWhenActive, EmptyWhenDown
<1>8. LifeSound
  BY DEF LifeSound, FilterThere, Stopped, PollGone, IsrGone, TaskGone
<1> QED
  BY <1>5, <1>6, <1>7, <1>8 DEF IInv

\* It is inductive, for rings and queues of any size.
LEMMA Invariant == Spec => []IInv
<1>1. IInv /\ [Next]_vars => IInv'
  BY TypeStep, HoldsStep, FramesStep, MaskedStep, TxStep, LifeStep DEF IInv
<1> QED
  BY <1>1, InitInv, PTL DEF Spec

\* No event is lost between cgem_intr_filter, cgem_gem_poll and cgem_intr_task: a
\* frame in the ring of a running interface has an RX_COMPLETE that leads to it, and
\* a masked GEM someone who unmasks it.
THEOREM NoEventLost == Spec => []EventsKept
<1>1. IInv => EventsKept
  <2> SUFFICES ASSUME IInv PROVE EventsKept
    OBVIOUS
  <2>1. NoFrameForgotten
    BY DEF IInv, FramesLatched, NoFrameForgotten, Noticed
  <2> QED
    BY <2>1 DEF IInv, EventsKept
<1> QED
  BY <1>1, Invariant, PTL

\* When nothing ran that rp1eth_detach does not wait for, everything is at rest when
\* the softc is freed.
THEOREM FreedAtRest == Spec => []QuietAtFree
<1>1. IInv => QuietAtFree
  BY DEF IInv, LifeSound, Stopped, PollGone, IsrGone, TaskGone, QuietAtFree
<1> QED
  BY <1>1, Invariant, PTL

\* OACTIVE is never left without an event that will clear it, unless frames were
\* put in the ring of a stopped interface.
THEOREM OactiveCleared == Spec => []OactiveWakes
<1>1. IInv => OactiveWakes
  <2> SUFFICES ASSUME IInv, running, oactive, ~stale PROVE OactiveWakes
    BY DEF OactiveWakes
  <2>1. /\ txq = TxLimit /\ TxLimit \in Nat \ {0} /\ done \in 0 .. txq
    BY GemAssumption DEF IInv, TypeOK, TxSound, FullWhenActive
  <2>2. CASE done < txq
    BY <2>2 DEF IInv, TxSound, SendingOn, OactiveWakes
  <2>3. CASE done = txq
    <3>1. "tx" \in stat \/ task \in {"recv", "input", "work"}
      BY <2>1, <2>3 DEF IInv, TxSound, SentLatched
    <3>2. done > 0
      BY <2>1, <2>3
    <3> QED
      BY <3>1, <3>2 DEF OactiveWakes, Noticed
  <2> QED
    BY <2>1, <2>2, <2>3
<1> QED
  BY <1>1, Invariant, PTL
==============================================================================
