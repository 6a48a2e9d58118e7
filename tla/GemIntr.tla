------------------------------- MODULE GemIntr -------------------------------
(***************************************************************************)
(* Interrupts of the rp1_eth driver.  The shared interrupt of the RP1 is   *)
(* taken by bcm2712_pcie_filter, which calls cgem_intr_filter through a    *)
(* pointer that rp1_eth registers; the filter, or the callout cgem_gem_poll *)
(* in its place, masks the GEM and enqueues cgem_intr_task, which moves    *)
(* the frames, unmasks the GEM and re-arms the callout.  ifconfig takes    *)
(* the interface up and down meanwhile, and kldunload takes it away.       *)
(*                                                                         *)
(* A section under sc_mtx is one action unless the filter, which takes no  *)
(* lock, or the GEM can tell its parts from each other.  Rings are counts. *)
(* A frame that cannot be mapped for DMA may as well not have been sent,   *)
(* and the link poll rp1eth_tick shares nothing with the rest.             *)
(***************************************************************************)
EXTENDS Integers, FiniteSets

CONSTANTS
  RxBufs,   \* rxbufs, the receive buffers to be posted
  TxLimit,  \* descriptors that may be in use, the ring without its reserve
  MaxSend,  \* length of the send queue
  Cpus,     \* threads that transmit at a time
  Hooked,   \* bcm2712_pcie0 has attached: there is an interrupt at all
  Receives, \* frames arrive
  Unloads,  \* kldunload may be called
  BootStat  \* events that may be latched from before

\* RX_COMPLETE, RX_USED_READ and TX_USED_READ of CGEM_INTR_STAT.
Events == {"rx", "nobuf", "tx"}

ASSUME GemAssumption ==
  /\ RxBufs \in Nat \ {0}
  /\ TxLimit \in Nat \ {0}
  /\ MaxSend \in Nat
  /\ Cpus \in Nat
  /\ Hooked \in BOOLEAN
  /\ Receives \in BOOLEAN
  /\ Unloads \in BOOLEAN
  /\ BootStat \subseteq Events

VARIABLES
  life,      \* progress of rp1eth_attach and rp1eth_detach
  running,   \* IFF_DRV_RUNNING
  mtx,       \* sc_mtx is held across actions by the task
  stat,      \* CGEM_INTR_STAT
  masked,    \* the sources are disabled
  posted,    \* empty receive buffers in the ring
  ready,     \* received frames in the ring
  sendq,     \* frames in the send queue
  kicks,     \* threads that have queued one and not yet called cgem_start
  txq,       \* txring_queued
  done,      \* the ones among them the GEM has sent
  txgo,      \* the GEM transmits
  oactive,   \* IFF_DRV_OACTIVE
  stale,     \* history: frames were put in the ring of a stopped interface
  pending,   \* intr_pending
  queued,    \* intr_task is enqueued on taskqueue_fast
  task,      \* where cgem_intr_task is
  ist,       \* its ist
  armed,     \* gem_poll is scheduled
  poll,      \* cgem_gem_poll: "idle", or "fired" and about to take sc_mtx
  hook,      \* g_rp1_filter and g_rp1_arg
  isr,       \* where the interrupt filters are
  fist,      \* ist of cgem_intr_filter
  raced      \* history: something ran that rp1eth_detach does not wait for

rxVars   == <<posted, ready>>
txVars   == <<sendq, kicks, txq, done, txgo, oactive, stale>>
taskVars == <<queued, task, ist>>
isrVars  == <<isr, fist>>
vars == <<life, running, mtx, stat, masked, rxVars, txVars, pending, taskVars,
          armed, poll, hook, isrVars, raced>>

Lives  == {"new", "argset", "attached", "stopped", "polldrained",
           "filterclear", "argclear", "freed"}
Tasks  == {"idle", "start", "lock", "recv", "input", "work", "enable", "rearm"}
Isrs   == {"idle", "arg", "called", "mask", "store", "enqueue", "stop",
           "fault"}

TypeOK ==
  /\ life \in Lives
  /\ running \in BOOLEAN
  /\ mtx \in {"none", "task"}
  /\ stat \in SUBSET Events
  /\ masked \in BOOLEAN
  /\ posted \in 0 .. RxBufs
  /\ ready \in 0 .. RxBufs
  /\ posted + ready <= RxBufs
  /\ sendq \in 0 .. MaxSend
  /\ kicks \in 0 .. Cpus
  /\ txq \in 0 .. TxLimit
  /\ done \in 0 .. txq
  /\ txgo \in BOOLEAN
  /\ oactive \in BOOLEAN
  /\ stale \in BOOLEAN
  /\ pending \in SUBSET Events
  /\ queued \in BOOLEAN
  /\ task \in Tasks
  /\ ist \in SUBSET Events
  /\ armed \in BOOLEAN
  /\ poll \in {"idle", "fired"}
  /\ hook \in [filter : BOOLEAN, arg : BOOLEAN]
  /\ isr \in Isrs
  /\ fist \in SUBSET Events
  /\ raced \in BOOLEAN

\* After cgem_reset, which leaves CGEM_INTR_STAT as it is, and before the
\* filter is registered.
Init ==
  /\ life = "new"
  /\ running = FALSE
  /\ mtx = "none"
  /\ stat \in SUBSET BootStat
  /\ masked = TRUE
  /\ posted = 0 /\ ready = 0
  /\ sendq = 0 /\ kicks = 0 /\ txq = 0 /\ done = 0
  /\ txgo = FALSE
  /\ oactive = FALSE
  /\ stale = FALSE
  /\ pending = {}
  /\ queued = FALSE /\ task = "idle" /\ ist = {}
  /\ armed = FALSE /\ poll = "idle"
  /\ hook = [filter |-> FALSE, arg |-> FALSE]
  /\ isr = "idle" /\ fist = {}
  /\ raced = FALSE

-----------------------------------------------------------------------------
(* The GEM.                                                                *)

\* A frame arrives, for a buffer or for none.
GemReceive ==
  /\ Receives
  /\ running
  /\ IF posted > 0
       THEN /\ posted' = posted - 1
            /\ ready' = ready + 1
            /\ stat' = stat \cup {"rx"}
       ELSE stat' = stat \cup {"nobuf"} /\ UNCHANGED rxVars
  /\ UNCHANGED <<life, running, mtx, masked, txVars, pending, taskVars, armed,
                 poll, hook, isrVars, raced>>

\* A frame leaves; after the last one a used descriptor is read.
GemTransmit ==
  /\ txgo
  /\ done < txq
  /\ done' = done + 1
  /\ txgo' = (done' < txq)
  /\ stat' = IF done' = txq THEN stat \cup {"tx"} ELSE stat
  /\ UNCHANGED <<life, running, mtx, masked, rxVars, sendq, kicks, txq,
                 oactive, stale, pending, taskVars, armed, poll, hook, isrVars, raced>>

-----------------------------------------------------------------------------
(* The rings, under sc_mtx.                                                *)

\* cgem_fill_rqueue stops early when there is no mbuf.
FillRqueue(empty, full) ==
  /\ ready' = full
  /\ posted' \in empty .. (RxBufs - full)

\* cgem_clean_tx, and cgem_start_locked when go, from a send queue of n.
\* At the limit the ring is cleaned once more; if that does not help, OACTIVE.
TxRing(clean, go, n) ==
  LET t    == IF clean THEN txq - done ELSE txq
      d    == IF clean THEN 0 ELSE done
      oa   == oactive /\ ~(clean /\ done > 0)
      room == IF t + n < TxLimit THEN n ELSE TxLimit - t + d
      k    == IF n < room THEN n ELSE room
  IN IF ~go \/ oa
       THEN /\ txq' = t /\ done' = d /\ oactive' = oa
            /\ sendq' = n
            /\ UNCHANGED <<txgo, stale>>
       ELSE /\ txq' = IF t + n < TxLimit THEN t + n ELSE t - d + k
            /\ done' = IF t + n < TxLimit THEN d ELSE 0
            /\ oactive' = (txq' >= TxLimit)
            /\ sendq' = n - k
            /\ txgo' = (txgo \/ (running /\ k > 0))
            /\ stale' = (stale \/ (~running /\ k > 0))

-----------------------------------------------------------------------------
(* The network stack.                                                      *)

\* The stack queues a frame on a running interface ...
Submit ==
  /\ running
  /\ sendq < MaxSend
  /\ kicks < Cpus
  /\ sendq' = sendq + 1
  /\ kicks' = kicks + 1
  /\ UNCHANGED <<life, running, mtx, stat, masked, rxVars, txq, done, txgo,
                 oactive, stale, pending, taskVars, armed, poll, hook, isrVars,
                 raced>>

\* ... and calls cgem_start, which does not look at IFF_DRV_RUNNING.
Start ==
  /\ kicks > 0
  /\ mtx = "none"
  /\ kicks' = kicks - 1
  /\ TxRing(FALSE, TRUE, sendq)
  /\ UNCHANGED <<life, running, mtx, stat, masked, rxVars, pending, taskVars,
                 armed, poll, hook, isrVars, raced>>

\* Slip: cgem_config leaves the interrupts disabled, as its header says.
IfUpPolled ==
  /\ life \in Lives \ {"new", "argset", "freed"}
  /\ ~running
  /\ mtx = "none"
  /\ FillRqueue(posted, ready)
  /\ running' = TRUE
  /\ oactive' = FALSE
  /\ raced' = (raced \/ life # "attached")
  /\ UNCHANGED <<life, mtx, stat, masked, sendq, kicks, txq, done, txgo, stale,
                 pending, taskVars, armed, poll, hook, isrVars>>

\* cgem_init_locked; ether_ifdetach comes last in rp1eth_detach.
IfUp ==
  /\ life \in Lives \ {"new", "argset", "freed"}
  /\ ~running
  /\ mtx = "none"
  /\ masked' = FALSE
  /\ FillRqueue(posted, ready)
  /\ running' = TRUE
  /\ oactive' = FALSE
  /\ raced' = (raced \/ life # "attached")
  /\ UNCHANGED <<life, mtx, stat, sendq, kicks, txq, done, txgo, stale, pending,
                 taskVars, armed, poll, hook, isrVars>>

\* cgem_stop: the callout, the interrupts, the rings.
Stop ==
  /\ mtx = "none"
  /\ running' = FALSE
  /\ masked' = TRUE
  /\ armed' = FALSE
  /\ posted' = 0 /\ ready' = 0
  /\ txq' = 0 /\ done' = 0 /\ txgo' = FALSE /\ stale' = FALSE

IfDown ==
  /\ life \in Lives \ {"new", "argset", "freed"}
  /\ running
  /\ Stop
  /\ UNCHANGED <<life, mtx, stat, sendq, kicks, oactive, pending, taskVars,
                 poll, hook, isrVars, raced>>

-----------------------------------------------------------------------------
(* cgem_gem_poll.                                                          *)

PollFires ==
  /\ armed
  /\ armed' = FALSE
  /\ poll' = "fired"
  /\ UNCHANGED <<life, running, mtx, stat, masked, rxVars, txVars, pending,
                 taskVars, hook, isrVars, raced>>

\* Under sc_mtx: mask and enqueue the task, or re-arm.
PollRun ==
  /\ poll = "fired"
  /\ mtx = "none"
  /\ poll' = "idle"
  /\ IF running /\ stat # {}
       THEN /\ masked' = TRUE
            /\ pending' = pending \cup stat
            /\ queued' = TRUE
       ELSE UNCHANGED <<masked, pending, queued>>
  /\ armed' = IF running /\ stat = {} THEN TRUE ELSE armed
  /\ UNCHANGED <<life, running, mtx, stat, rxVars, txVars, task, ist, hook,
                 isrVars, raced>>

-----------------------------------------------------------------------------
(* The interrupt: bcm2712_pcie_filter, then cgem_intr_filter.              *)

\* The line is shared: the USB controllers call the filter at any time.
IsrEnter ==
  /\ Hooked
  /\ isr = "idle"
  /\ stat # {}
  /\ hook.filter
  /\ isr' = "arg"
  /\ UNCHANGED <<life, running, mtx, stat, masked, rxVars, txVars, pending,
                 taskVars, armed, poll, hook, fist, raced>>

\* The argument is loaded after the pointer; a NULL one is a fault, and so is
\* one that points to freed memory.
IsrLoadArg ==
  /\ isr = "arg"
  /\ isr' = IF hook.arg THEN "called" ELSE "fault"
  /\ UNCHANGED <<life, running, mtx, stat, masked, rxVars, txVars, pending,
                 taskVars, armed, poll, hook, fist, raced>>

\* Slip: the status is cleared as it is read.
IsrReadClears ==
  /\ isr = "called"
  /\ fist' = stat
  /\ stat' = {}
  /\ isr' = IF stat = {} THEN "idle" ELSE "mask"
  /\ UNCHANGED <<life, running, mtx, masked, rxVars, txVars, pending,
                 taskVars, armed, poll, hook, raced>>

IsrRead ==
  /\ isr = "called"
  /\ fist' = stat
  /\ isr' = IF stat = {} THEN "idle" ELSE "mask"
  /\ UNCHANGED <<life, running, mtx, stat, masked, rxVars, txVars, pending,
                 taskVars, armed, poll, hook, raced>>

IsrMask ==
  /\ isr = "mask"
  /\ masked' = TRUE
  /\ isr' = "store"
  /\ UNCHANGED <<life, running, mtx, stat, rxVars, txVars, pending, taskVars,
                 armed, poll, hook, fist, raced>>

\* A store, over what the poll may have set.
IsrStore ==
  /\ isr = "store"
  /\ pending' = fist
  /\ fist' = {}
  /\ isr' = "enqueue"
  /\ UNCHANGED <<life, running, mtx, stat, masked, rxVars, txVars, taskVars,
                 armed, poll, hook, raced>>

IsrEnqueue ==
  /\ isr = "enqueue"
  /\ queued' = TRUE
  /\ isr' = "stop"
  /\ UNCHANGED <<life, running, mtx, stat, masked, rxVars, txVars, pending,
                 task, ist, armed, poll, hook, fist, raced>>

IsrStopPoll ==
  /\ isr = "stop"
  /\ armed' = FALSE
  /\ isr' = "idle"
  /\ UNCHANGED <<life, running, mtx, stat, masked, rxVars, txVars, pending,
                 taskVars, poll, hook, fist, raced>>

-----------------------------------------------------------------------------
(* cgem_intr_task.                                                         *)

TaskDequeue ==
  /\ queued
  /\ task = "idle"
  /\ queued' = FALSE
  /\ task' = "start"
  /\ UNCHANGED <<life, running, mtx, stat, masked, rxVars, txVars, pending,
                 ist, armed, poll, hook, isrVars, raced>>

\* atomic_readandclear_32.
TaskTake ==
  /\ task = "start"
  /\ ist' = pending
  /\ pending' = {}
  /\ task' = "lock"
  /\ UNCHANGED <<life, running, mtx, stat, masked, rxVars, txVars, queued,
                 armed, poll, hook, isrVars, raced>>

\* Under sc_mtx: return when the interface is down; clear the latched bits.
TaskLock ==
  /\ task = "lock"
  /\ mtx = "none"
  /\ IF running
       THEN /\ mtx' = "task"
            /\ stat' = stat \ ist
            /\ task' = IF "rx" \in ist THEN "recv" ELSE "work"
            /\ UNCHANGED ist
       ELSE task' = "idle" /\ ist' = {} /\ UNCHANGED <<mtx, stat>>
  /\ UNCHANGED <<life, running, masked, rxVars, txVars, pending, queued, armed,
                 poll, hook, isrVars, raced>>

\* cgem_recv: take the frames, refill, and drop sc_mtx for if_input ...
TaskRecv ==
  /\ task = "recv"
  /\ FillRqueue(posted, 0)
  /\ mtx' = "none"
  /\ task' = "input"
  /\ UNCHANGED <<life, running, stat, masked, txVars, pending, queued, ist,
                 armed, poll, hook, isrVars, raced>>

\* ... and take it again, without another look at IFF_DRV_RUNNING.
TaskRelock ==
  /\ task = "input"
  /\ mtx = "none"
  /\ mtx' = "task"
  /\ task' = "work"
  /\ UNCHANGED <<life, running, stat, masked, rxVars, txVars, pending, queued,
                 ist, armed, poll, hook, isrVars, raced>>

\* Slip: the reclaimed descriptors do not clear OACTIVE.
TaskWorkStaysActive ==
  /\ task = "work"
  /\ txq' = txq - done
  /\ done' = 0
  /\ IF "nobuf" \in ist THEN FillRqueue(posted, ready) ELSE UNCHANGED rxVars
  /\ task' = "enable"
  /\ ist' = {}
  /\ UNCHANGED <<life, running, mtx, stat, masked, sendq, kicks, txgo, oactive,
                 stale, pending, queued, armed, poll, hook, isrVars, raced>>

\* Reclaim, refill after RX_USED_READ, send what is queued.
TaskWork ==
  /\ task = "work"
  /\ TxRing(TRUE, sendq > 0, sendq)
  /\ IF "nobuf" \in ist THEN FillRqueue(posted, ready) ELSE UNCHANGED rxVars
  /\ task' = "enable"
  /\ ist' = {}
  /\ UNCHANGED <<life, running, mtx, stat, masked, kicks, pending, queued,
                 armed, poll, hook, isrVars, raced>>

TaskEnable ==
  /\ task = "enable"
  /\ masked' = FALSE
  /\ task' = "rearm"
  /\ UNCHANGED <<life, running, mtx, stat, rxVars, txVars, pending, queued,
                 ist, armed, poll, hook, isrVars, raced>>

TaskRearm ==
  /\ task = "rearm"
  /\ armed' = TRUE
  /\ mtx' = "none"
  /\ task' = "idle"
  /\ UNCHANGED <<life, running, stat, masked, rxVars, txVars, pending, queued,
                 ist, poll, hook, isrVars, raced>>

-----------------------------------------------------------------------------
(* rp1eth_attach and rp1eth_detach.                                        *)

\* bcm2712_pcie_register_rp1_intr: the argument first.
RegisterArg ==
  /\ life = "new"
  /\ life' = "argset"
  /\ hook' = [hook EXCEPT !.arg = TRUE]
  /\ UNCHANGED <<running, mtx, stat, masked, rxVars, txVars, pending, taskVars,
                 armed, poll, isrVars, raced>>

RegisterFilter ==
  /\ life = "argset"
  /\ life' = "attached"
  /\ hook' = [hook EXCEPT !.filter = TRUE]
  /\ UNCHANGED <<running, mtx, stat, masked, rxVars, txVars, pending, taskVars,
                 armed, poll, isrVars, raced>>

\* cgem_stop, while the task may be in if_input.
DetachStop ==
  /\ Unloads
  /\ life = "attached"
  /\ Stop
  /\ life' = "stopped"
  /\ raced' = (task = "input")
  /\ UNCHANGED <<mtx, stat, sendq, kicks, oactive, pending, taskVars, poll,
                 hook, isrVars>>

\* Slip: callout_stop in place of callout_drain.
DrainPollNoWait ==
  /\ life = "stopped"
  /\ armed' = FALSE
  /\ life' = "polldrained"
  /\ UNCHANGED <<running, mtx, stat, masked, rxVars, txVars, pending, taskVars,
                 poll, hook, isrVars, raced>>

\* callout_drain(&gem_poll).
DrainPoll ==
  /\ life = "stopped"
  /\ poll = "idle"
  /\ armed' = FALSE
  /\ life' = "polldrained"
  /\ UNCHANGED <<running, mtx, stat, masked, rxVars, txVars, pending, taskVars,
                 poll, hook, isrVars, raced>>

\* bcm2712_pcie_deregister_rp1_intr: the pointer first; nothing waits for an
\* interrupt that has already loaded it.
ClearFilter ==
  /\ life = "polldrained"
  /\ life' = "filterclear"
  /\ hook' = [hook EXCEPT !.filter = FALSE]
  /\ raced' = (raced \/ isr # "idle")
  /\ UNCHANGED <<running, mtx, stat, masked, rxVars, txVars, pending, taskVars,
                 armed, poll, isrVars>>

ClearArg ==
  /\ life = "filterclear"
  /\ life' = "argclear"
  /\ hook' = [hook EXCEPT !.arg = FALSE]
  /\ UNCHANGED <<running, mtx, stat, masked, rxVars, txVars, pending, taskVars,
                 armed, poll, isrVars, raced>>

\* taskqueue_drain(&intr_task), ether_ifdetach, free(sc).
DrainTaskAndFree ==
  /\ life = "argclear"
  /\ ~queued
  /\ task = "idle"
  /\ kicks = 0
  /\ life' = "freed"
  /\ UNCHANGED <<running, mtx, stat, masked, rxVars, txVars, pending, taskVars,
                 armed, poll, hook, isrVars, raced>>

\* The end: the driver is gone, or the kernel has taken a fault.
Over == (life = "freed" \/ isr = "fault") /\ UNCHANGED vars

-----------------------------------------------------------------------------
Gem   == GemReceive \/ GemTransmit
Stack == Submit \/ Start \/ IfUp \/ IfDown
Poll  == PollFires \/ PollRun
Isr   ==
  \/ IsrEnter \/ IsrLoadArg \/ IsrRead \/ IsrMask \/ IsrStore \/ IsrEnqueue
  \/ IsrStopPoll
Task  ==
  \/ TaskDequeue \/ TaskTake \/ TaskLock \/ TaskRecv \/ TaskRelock \/ TaskWork
  \/ TaskEnable \/ TaskRearm
Life  ==
  \/ RegisterArg \/ RegisterFilter \/ DetachStop \/ DrainPoll \/ ClearFilter
  \/ ClearArg \/ DrainTaskAndFree

\* Nothing is said of what happens after free(sc).
Next ==
  \/ life # "freed" /\ (Gem \/ Stack \/ Poll \/ Isr \/ Task \/ Life)
  \/ Over

Spec == Init /\ [][Next]_vars

\* Threads and callouts run, sc_mtx is had by those who wait for it, and the
\* shared interrupt keeps coming as long as there is one.
Fairness ==
  /\ WF_vars(PollFires) /\ SF_vars(PollRun)
  /\ WF_vars(Isr)
  /\ WF_vars(TaskDequeue) /\ WF_vars(TaskTake) /\ SF_vars(TaskLock)
  /\ WF_vars(TaskRecv) /\ SF_vars(TaskRelock) /\ WF_vars(TaskWork)
  /\ WF_vars(TaskEnable) /\ WF_vars(TaskRearm)
  /\ WF_vars(GemTransmit)

FairSpec == Spec /\ Fairness
-----------------------------------------------------------------------------
(* Properties.                                                             *)

\* Events that someone knows of or can still read.
Noticed ==
  stat \cup pending \cup fist \cup (IF task \in {"lock", "recv"} THEN ist ELSE {})

\* The status is cleared before the ring is read, and the plain store of
\* cgem_intr_filter only overwrites bits that are still latched: a received
\* frame never waits in the ring without an RX_COMPLETE that leads to it.
NoFrameForgotten == (running /\ ready > 0) => "rx" \in Noticed

\* Interrupts are never left masked on a running interface without a task to
\* unmask them, whatever filter, poll, task, up and down do to each other.
NeverLeftMasked ==
  (running /\ masked) =>
    \/ isr \in {"store", "enqueue"}
    \/ queued
    \/ task \in Tasks \ {"idle", "rearm"}

\* No event gets lost between cgem_intr_filter, cgem_gem_poll and cgem_intr_task:
\* not the one of a frame, and not the end of the masking.
EventsKept == TypeOK /\ NoFrameForgotten /\ NeverLeftMasked

\* OACTIVE, which only cgem_clean_tx clears, never stays set for want of an
\* event: the GEM is still sending, or its TX_USED_READ is on its way to the
\* task.  It does stay set when frames were queued while the interface was
\* down and fill the ring: cgem_init_locked neither resets the ring nor starts
\* the transmitter.
OactiveWakes ==
  (running /\ oactive /\ ~stale) =>
    \/ txgo /\ done < txq
    \/ "tx" \in Noticed
    \/ task \in {"recv", "input", "work"} /\ done > 0

\* When nothing ran that rp1eth_detach does not wait for, then at free(sc) the
\* callout, the task, the interrupt and the GEM are all at rest.
QuietAtFree ==
  (life = "freed" /\ ~raced) =>
    /\ ~armed /\ poll = "idle"
    /\ ~queued /\ task = "idle"
    /\ isr = "idle"
    /\ ~running /\ posted = 0 /\ ready = 0

\* Frames in the ring are handed to the stack, unless the interface goes down
\* or away: the ring of polls, tasks and filters does not come to rest.
FramesDelivered ==
  (running /\ ready > 0) ~> (~running \/ ready = 0 \/ life # "attached")

\* The claim of README.md: without bcm2712_pcie "link and traffic still
\* function via gem_poll".
TrafficViaPoll == (running /\ ready > 0) ~> (~running \/ ready = 0)

\* The claim of bcm2712_pcie.c: "clear filter first, then arg (filter == NULL
\* => arg never read)", "so the ISR never fires with a stale arg".
ArgReadOnlyWithFilter == isr # "fault"

==============================================================================
