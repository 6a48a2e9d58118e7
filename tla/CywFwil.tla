------------------------------- MODULE CywFwil -------------------------------
(***************************************************************************)
(* IOVAR/IOCTL transactions of the CYW43455 driver: cyw_fil_txrx (both the *)
(* runtime path, which sleeps on ioctl_cv, and the boot-time path, which   *)
(* polls F2 itself), the receive task of rx_tq that delivers the answers,  *)
(* and cyw_detach, which stops the layer under the callers' feet.          *)
(*                                                                         *)
(* A section under sc->mtx never sleeps, so it is one action.  Sections    *)
(* under ioctl_sx and f2_sx span several actions.  The chip is external:   *)
(* it may answer a command late, in any order, with an error, or never.    *)
(* Credits are not counted here: the credit wait succeeds or gives up.     *)
(***************************************************************************)
EXTENDS Integers, FiniteSets

CONSTANTS
  Callers,    \* threads that call cyw_fil_txrx
  Sysctls,    \* the ones that come from cyw_sysctl_fw_iovar
  ScanTasks,  \* the ones that are tasks of scan_tq; the rest is net80211's
  IdMod,      \* number of transaction ids (65536 for the uint16_t ioctl_id)
  MaxLag,     \* a command is answered at most this many transactions late
  RxTq,       \* the thread of rx_tq
  NoOne       \* holder of a free lock

ASSUME CallersAssumption ==
  /\ Sysctls \subseteq Callers
  /\ ScanTasks \subseteq Callers
  /\ RxTq \notin Callers
  /\ NoOne \notin Callers
  /\ RxTq # NoOne

ASSUME IdAssumption ==
  /\ IdMod \in Nat \ {0}
  /\ MaxLag \in 0 .. (IdMod - 1)

VARIABLES
  sdpcm_running,  \* callers take the runtime path
  ioctl_sx,       \* holder of the transaction lock
  f2_sx,          \* holder of the F2 lock
  ioctl_id,       \* id of the latest transaction
  waiting,        \* ioctl_waiting
  wait_id,        \* ioctl_wait_id
  resp_buf,       \* whose buffer ioctl_resp_buf points into
  get,            \* ioctl_get
  result,         \* ioctl_result
  pc,             \* where each caller is in cyw_fil_txrx
  op,             \* GET or SET
  id,             \* the caller's local id
  ret,            \* the caller's local err, its return value once at "out"
  buf,            \* whose answer was copied into the caller's buffer
  got,            \* history: whose answer ended the caller's transaction
  rx,             \* the receive task
  pipe,           \* commands and answers inside the chip and its F2 FIFO
  detach          \* progress of cyw_detach

txnVars  == <<waiting, wait_id, resp_buf, get, result>>
callVars == <<pc, op, id, ret, buf, got>>
vars == <<sdpcm_running, ioctl_sx, f2_sx, ioctl_id, txnVars, callVars,
          rx, pipe, detach>>

Ids     == 0 .. (IdMod - 1)
Errnos  == {"OK", "EIO", "ETIMEDOUT", "ENOBUFS", "ENXIO"}
Whose   == {"none", "own", "other"}

\* Inside the transaction lock, by path.
RuntimePCs == {"credit", "send", "hung", "write", "wfail", "wait", "sleep",
               "woken", "timedout"}
BootPCs    == {"boot", "poll"}
TxnPCs     == RuntimePCs \cup BootPCs \cup {"out"}
PCs        == {"idle", "enter"} \cup TxnPCs

\* age counts the transactions begun since the command's own one (history).
Frames  == [id : Ids, age : 0 .. MaxLag, st : {"cmd", "ok", "err"}]

DetachPCs == {"up", "drain", "rx", "scan", "wake", "destroy", "sdio", "down"}

TypeOK ==
  /\ sdpcm_running \in BOOLEAN
  /\ ioctl_sx \in Callers \cup {NoOne}
  /\ f2_sx \in Callers \cup {RxTq, NoOne}
  /\ ioctl_id \in Ids
  /\ waiting \in BOOLEAN
  /\ wait_id \in Ids
  /\ resp_buf \in Callers \cup {NoOne}
  /\ get \in BOOLEAN
  /\ result \in Errnos
  /\ pc \in [Callers -> PCs]
  /\ op \in [Callers -> {"GET", "SET"}]
  /\ id \in [Callers -> Ids]
  /\ ret \in [Callers -> Errnos]
  /\ buf \in [Callers -> Whose]
  /\ got \in [Callers -> Whose]
  /\ rx \in {"idle", "drain", "gone"}
  /\ pipe \in SUBSET Frames
  /\ detach \in DetachPCs

\* The state cyw_sdpcm_attach leaves; boot has used any number of ids.
Init ==
  /\ sdpcm_running = TRUE
  /\ ioctl_sx = NoOne
  /\ f2_sx = NoOne
  /\ ioctl_id \in Ids
  /\ waiting = FALSE
  /\ wait_id = 0
  /\ resp_buf = NoOne
  /\ get = FALSE
  /\ result = "OK"
  /\ pc = [c \in Callers |-> "idle"]
  /\ op = [c \in Callers |-> "GET"]
  /\ id = [c \in Callers |-> 0]
  /\ ret = [c \in Callers |-> "OK"]
  /\ buf = [c \in Callers |-> "none"]
  /\ got = [c \in Callers |-> "none"]
  /\ rx = "idle"
  /\ pipe = {}
  /\ detach = "up"

Goto(c, from, to) == pc[c] = from /\ pc' = [pc EXCEPT ![c] = to]
Return(c, from, e) == Goto(c, from, "out") /\ ret' = [ret EXCEPT ![c] = e]

-----------------------------------------------------------------------------
(* Entering and leaving cyw_fil_txrx.                                      *)

\* Who may call: a sysctl tests sdpcm_running; net80211 and the scan tasks it
\* enqueues stop once ieee80211_ifdetach has returned.
MayCall(c) == IF c \in Sysctls THEN sdpcm_running ELSE detach = "up"

\* The public cyw_fil_* wrappers: a GET or a SET into the caller's buffer.
Call(c) ==
  /\ MayCall(c)
  /\ Goto(c, "idle", "enter")
  /\ \E o \in {"GET", "SET"} : op' = [op EXCEPT ![c] = o]
  /\ UNCHANGED <<sdpcm_running, ioctl_sx, f2_sx, ioctl_id, txnVars, id, ret,
                 buf, got, rx, pipe, detach>>

NextId(i) == (i + 1) % IdMod

\* A new transaction makes every command in the chip one transaction older;
\* the chip does not hold on to one for more than MaxLag transactions.
Older(frames) ==
  {[f EXCEPT !.age = @ + 1] : f \in {g \in frames : g.age < MaxLag}}

\* sx_xlock(&ioctl_sx), id = ++ioctl_id, and the choice of the path.
Acquire(c) ==
  /\ ioctl_sx = NoOne
  /\ Goto(c, "enter", IF sdpcm_running THEN "credit" ELSE "boot")
  /\ ioctl_sx' = c
  /\ ioctl_id' = NextId(ioctl_id)
  /\ id' = [id EXCEPT ![c] = NextId(ioctl_id)]
  /\ pipe' = Older(pipe)
  /\ UNCHANGED <<sdpcm_running, f2_sx, txnVars, op, ret, buf, got, rx, detach>>

\* out: sx_xunlock(&ioctl_sx), return err.  The locals die with the call; a
\* later write through resp_buf would show in buf.
Leave(c) ==
  /\ Goto(c, "out", "idle")
  /\ ioctl_sx' = NoOne
  /\ op' = [op EXCEPT ![c] = "GET"]
  /\ id' = [id EXCEPT ![c] = 0]
  /\ ret' = [ret EXCEPT ![c] = "OK"]
  /\ buf' = [buf EXCEPT ![c] = "none"]
  /\ got' = [got EXCEPT ![c] = "none"]
  /\ UNCHANGED <<sdpcm_running, f2_sx, ioctl_id, txnVars, rx, pipe, detach>>

-----------------------------------------------------------------------------
(* The runtime path.                                                       *)

\* No credit after 200 polls.
NoCredit(c) ==
  /\ Return(c, "credit", "ENOBUFS")
  /\ UNCHANGED <<sdpcm_running, ioctl_sx, f2_sx, ioctl_id, txnVars, op, id,
                 buf, got, rx, pipe, detach>>

\* A credit: register the wait under mtx.
Register(c) ==
  /\ Goto(c, "credit", "send")
  /\ waiting' = TRUE
  /\ wait_id' = id[c]
  /\ resp_buf' = c
  /\ get' = (op[c] = "GET")
  /\ result' = "ETIMEDOUT"
  /\ UNCHANGED <<sdpcm_running, ioctl_sx, f2_sx, ioctl_id, op, id, ret, buf,
                 got, rx, pipe, detach>>

\* Slip: F2 is written without waiting for its lock.
LockF2Barges(c) ==
  /\ Goto(c, "send", "write")
  /\ f2_sx' = c
  /\ UNCHANGED <<sdpcm_running, ioctl_sx, ioctl_id, txnVars, op, id, ret, buf,
                 got, rx, pipe, detach>>

LockF2(c) ==
  /\ f2_sx = NoOne
  /\ Goto(c, "send", "write")
  /\ f2_sx' = c
  /\ UNCHANGED <<sdpcm_running, ioctl_sx, ioctl_id, txnVars, op, id, ret, buf,
                 got, rx, pipe, detach>>

\* sx_xlock of the f2_sx that cyw_sdpcm_detach has destroyed: undefined.  The
\* caller may get it all the same; or it blocks for ever, or the kernel stops.
HangOnF2(c) ==
  /\ detach \in {"sdio", "down"}
  /\ Goto(c, "send", "hung")
  /\ UNCHANGED <<sdpcm_running, ioctl_sx, f2_sx, ioctl_id, txnVars, op, id,
                 ret, buf, got, rx, pipe, detach>>

Command(c) == [id |-> id[c], age |-> 0, st |-> "cmd"]

\* cyw_f2_write_block and the doorbell succeed.
WriteOk(c) ==
  /\ Goto(c, "write", "wait")
  /\ pipe' = pipe \cup {Command(c)}
  /\ f2_sx' = NoOne
  /\ UNCHANGED <<sdpcm_running, ioctl_sx, ioctl_id, txnVars, op, id, ret, buf,
                 got, rx, detach>>

\* Slip: the error path forgets sx_xunlock(&f2_sx).
WriteFailKeepsLock(c) ==
  /\ Goto(c, "write", "wfail")
  /\ UNCHANGED <<sdpcm_running, ioctl_sx, f2_sx, ioctl_id, txnVars, op, id,
                 ret, buf, got, rx, pipe, detach>>

\* The write fails, with the frame in the chip or not.
WriteFail(c) ==
  /\ Goto(c, "write", "wfail")
  /\ \E sent \in {{}, {Command(c)}} : pipe' = pipe \cup sent
  /\ f2_sx' = NoOne
  /\ UNCHANGED <<sdpcm_running, ioctl_sx, ioctl_id, txnVars, op, id, ret, buf,
                 got, rx, detach>>

\* ... and the wait is withdrawn, under mtx again.
Withdraw(c) ==
  /\ Return(c, "wfail", "EIO")
  /\ waiting' = FALSE
  /\ UNCHANGED <<sdpcm_running, ioctl_sx, f2_sx, ioctl_id, wait_id, resp_buf,
                 get, result, op, id, buf, got, rx, pipe, detach>>

\* Under mtx: the answer has already come.
AnsweredEarly(c) ==
  /\ ~waiting
  /\ Return(c, "wait", result)
  /\ UNCHANGED <<sdpcm_running, ioctl_sx, f2_sx, ioctl_id, txnVars, op, id,
                 buf, got, rx, pipe, detach>>

\* Under mtx: go to sleep in cv_timedwait, which releases mtx.
Sleep(c) ==
  /\ waiting
  /\ Goto(c, "wait", "sleep")
  /\ UNCHANGED <<sdpcm_running, ioctl_sx, f2_sx, ioctl_id, txnVars, op, id,
                 ret, buf, got, rx, pipe, detach>>

\* The three seconds are over; mtx is not held again yet.
TimerFires(c) ==
  /\ Goto(c, "sleep", "timedout")
  /\ UNCHANGED <<sdpcm_running, ioctl_sx, f2_sx, ioctl_id, txnVars, op, id,
                 ret, buf, got, rx, pipe, detach>>

\* Slip: the wait is not withdrawn when it times out.
GiveUpKeepsWaiting(c) ==
  /\ Return(c, "timedout", result)
  /\ UNCHANGED <<sdpcm_running, ioctl_sx, f2_sx, ioctl_id, txnVars, op, id,
                 buf, got, rx, pipe, detach>>

\* Slip: the error of cv_timedwait is returned instead of ioctl_result.
GiveUpIgnoresResult(c) ==
  /\ Return(c, "timedout", "ETIMEDOUT")
  /\ waiting' = FALSE
  /\ UNCHANGED <<sdpcm_running, ioctl_sx, f2_sx, ioctl_id, wait_id, resp_buf,
                 get, result, op, id, buf, got, rx, pipe, detach>>

\* cv_timedwait returns EWOULDBLOCK with mtx held.
GiveUp(c) ==
  /\ Return(c, "timedout", result)
  /\ waiting' = FALSE
  /\ UNCHANGED <<sdpcm_running, ioctl_sx, f2_sx, ioctl_id, wait_id, resp_buf,
                 get, result, op, id, buf, got, rx, pipe, detach>>

\* cv_timedwait returns 0 with mtx held.
Wake(c) ==
  /\ Return(c, "woken", result)
  /\ UNCHANGED <<sdpcm_running, ioctl_sx, f2_sx, ioctl_id, txnVars, op, id,
                 buf, got, rx, pipe, detach>>

\* cv_signal(&ioctl_cv): one thread at most sleeps on it.
Signal == pc' = [c \in Callers |-> IF pc[c] = "sleep" THEN "woken" ELSE pc[c]]

-----------------------------------------------------------------------------
(* The boot-time path: no f2_sx, the caller reads F2 itself.               *)

Answered(f) == f.st # "cmd"

\* Whose answer f is, to caller c.
From(c, f) == IF f.age = 0 /\ ioctl_sx = c THEN "own" ELSE "other"

\* Draining RX for a credit throws the frame away.
BootDrain(c) ==
  /\ pc[c] = "boot"
  /\ \E f \in pipe : Answered(f) /\ pipe' = pipe \ {f}
  /\ UNCHANGED <<sdpcm_running, ioctl_sx, f2_sx, ioctl_id, txnVars, callVars,
                 rx, detach>>

BootSend(c) ==
  /\ Goto(c, "boot", "poll")
  /\ pipe' = pipe \cup {Command(c)}
  /\ UNCHANGED <<sdpcm_running, ioctl_sx, f2_sx, ioctl_id, txnVars, op, id,
                 ret, buf, got, rx, detach>>

\* No credit, a read error, or a failed write.
BootFail(c) ==
  /\ \/ Return(c, "boot", "ENOBUFS") /\ pipe' = pipe
     \/ /\ Return(c, "boot", "EIO")
        /\ \E sent \in {{}, {Command(c)}} : pipe' = pipe \cup sent
  /\ UNCHANGED <<sdpcm_running, ioctl_sx, f2_sx, ioctl_id, txnVars, op, id,
                 buf, got, rx, detach>>

\* A frame that is not the answer is skipped.
PollSkip(c) ==
  /\ pc[c] = "poll"
  /\ \E f \in pipe : Answered(f) /\ f.id # id[c] /\ pipe' = pipe \ {f}
  /\ UNCHANGED <<sdpcm_running, ioctl_sx, f2_sx, ioctl_id, txnVars, callVars,
                 rx, detach>>

\* The answer: its error, or its payload for a GET.
PollAnswer(c) ==
  /\ \E f \in pipe :
       /\ Answered(f) /\ f.id = id[c]
       /\ pipe' = pipe \ {f}
       /\ Return(c, "poll", IF f.st = "ok" THEN "OK" ELSE "EIO")
       /\ got' = [got EXCEPT ![c] = From(c, f)]
       /\ buf' = IF f.st = "ok" /\ op[c] = "GET"
                   THEN [buf EXCEPT ![c] = From(c, f)] ELSE buf
  /\ UNCHANGED <<sdpcm_running, ioctl_sx, f2_sx, ioctl_id, txnVars, op, id,
                 rx, detach>>

\* 300 polls without it, or a read error.
PollEnd(c) ==
  /\ \E e \in {"ETIMEDOUT", "EIO"} : Return(c, "poll", e)
  /\ UNCHANGED <<sdpcm_running, ioctl_sx, f2_sx, ioctl_id, txnVars, op, id,
                 buf, got, rx, pipe, detach>>

-----------------------------------------------------------------------------
(* cyw_sdpcm_task on rx_tq, enqueued by the 50 ms callout.                 *)

RxStart ==
  /\ rx = "idle"
  /\ detach \in {"up", "drain"}
  /\ f2_sx = NoOne
  /\ rx' = "drain"
  /\ f2_sx' = RxTq
  /\ UNCHANGED <<sdpcm_running, ioctl_sx, ioctl_id, txnVars, callVars, pipe,
                 detach>>

\* Slips: the id, or the wait, is not tested.
MatchesAnyId(f) == waiting
MatchesAnyTime(f) == f.id = wait_id /\ resp_buf # NoOne

\* cyw_sdpcm_deliver_ctrl discards an answer nobody waits for.
Matches(f) == waiting /\ f.id = wait_id

RxDiscard ==
  /\ rx = "drain"
  /\ \E f \in pipe : Answered(f) /\ ~Matches(f) /\ pipe' = pipe \ {f}
  /\ UNCHANGED <<sdpcm_running, ioctl_sx, f2_sx, ioctl_id, txnVars, callVars,
                 rx, detach>>

\* ... and hands the awaited one to the waiter, all under mtx.
RxDeliver ==
  /\ rx = "drain"
  /\ \E f \in pipe :
       /\ Answered(f) /\ Matches(f)
       /\ pipe' = pipe \ {f}
       /\ result' = IF f.st = "ok" THEN "OK" ELSE "EIO"
       /\ got' = [got EXCEPT ![resp_buf] = From(resp_buf, f)]
       /\ buf' = IF f.st = "ok" /\ get
                   THEN [buf EXCEPT ![resp_buf] = From(resp_buf, f)] ELSE buf
  /\ waiting' = FALSE
  /\ Signal
  /\ UNCHANGED <<sdpcm_running, ioctl_sx, f2_sx, ioctl_id, wait_id, resp_buf,
                 get, op, id, ret, rx, detach>>

\* A read error: cyw_rxfail terminates the frame and the pass ends.
RxFail ==
  /\ rx = "drain"
  /\ \E f \in pipe : Answered(f) /\ pipe' = pipe \ {f}
  /\ rx' = "idle"
  /\ f2_sx' = NoOne
  /\ UNCHANGED <<sdpcm_running, ioctl_sx, ioctl_id, txnVars, callVars, detach>>

\* Slip: the pass ends without sx_xunlock(&f2_sx).
RxDoneKeepsLock ==
  /\ rx = "drain"
  /\ rx' = "idle"
  /\ UNCHANGED <<sdpcm_running, ioctl_sx, f2_sx, ioctl_id, txnVars, callVars,
                 pipe, detach>>

\* EAGAIN: nothing, or nothing announced, in the FIFO.
RxDone ==
  /\ rx = "drain"
  /\ rx' = "idle"
  /\ f2_sx' = NoOne
  /\ UNCHANGED <<sdpcm_running, ioctl_sx, ioctl_id, txnVars, callVars, pipe,
                 detach>>

-----------------------------------------------------------------------------
(* The chip.                                                               *)

FwAnswer ==
  /\ \E f \in pipe, s \in {"ok", "err"} :
       f.st = "cmd" /\ pipe' = (pipe \ {f}) \cup {[f EXCEPT !.st = s]}
  /\ UNCHANGED <<sdpcm_running, ioctl_sx, f2_sx, ioctl_id, txnVars, callVars,
                 rx, detach>>

FwLose ==
  /\ \E f \in pipe : pipe' = pipe \ {f}
  /\ UNCHANGED <<sdpcm_running, ioctl_sx, f2_sx, ioctl_id, txnVars, callVars,
                 rx, detach>>

-----------------------------------------------------------------------------
(* cyw_detach.                                                             *)

IdleAll(S) == \A c \in S : pc[c] = "idle"

\* cyw_cfg_detach has drained net80211; cyw_sdpcm_detach clears the flag.
StopRunning ==
  /\ detach = "up"
  /\ IdleAll(Callers \ (Sysctls \cup ScanTasks))
  /\ detach' = "drain"
  /\ sdpcm_running' = FALSE
  /\ UNCHANGED <<ioctl_sx, f2_sx, ioctl_id, txnVars, callVars, rx, pipe>>

\* callout_drain: no pass is enqueued any more.  One that is still pending
\* may as well have started before, as nothing else sees this step.
StopCallout ==
  /\ detach = "drain"
  /\ detach' = "rx"
  /\ UNCHANGED <<sdpcm_running, ioctl_sx, f2_sx, ioctl_id, txnVars, callVars,
                 rx, pipe>>

\* taskqueue_drain and taskqueue_free of rx_tq.
DrainRx ==
  /\ detach = "rx"
  /\ rx = "idle"
  /\ rx' = "gone"
  /\ detach' = "scan"
  /\ UNCHANGED <<sdpcm_running, ioctl_sx, f2_sx, ioctl_id, txnVars, callVars,
                 pipe>>

\* taskqueue_free(scan_tq) waits for the tasks it runs.
FreeScanTq ==
  /\ detach = "scan"
  /\ IdleAll(ScanTasks)
  /\ detach' = "wake"
  /\ UNCHANGED <<sdpcm_running, ioctl_sx, f2_sx, ioctl_id, txnVars, callVars,
                 rx, pipe>>

\* Wake any fwil caller that might be sleeping, under mtx.
WakeWaiter ==
  /\ detach = "wake"
  /\ detach' = "destroy"
  /\ waiting' = FALSE
  /\ IF waiting THEN result' = "ENXIO" /\ Signal ELSE UNCHANGED <<result, pc>>
  /\ UNCHANGED <<sdpcm_running, ioctl_sx, f2_sx, ioctl_id, wait_id, resp_buf,
                 get, op, id, ret, buf, got, rx, pipe>>

\* cv_destroy(&ioctl_cv), sx_destroy(&f2_sx).
DestroyCv ==
  /\ detach = "destroy"
  /\ detach' = "sdio"
  /\ UNCHANGED <<sdpcm_running, ioctl_sx, f2_sx, ioctl_id, txnVars, callVars,
                 rx, pipe>>

\* Slip: the locks are destroyed before the sysctls are gone.
FreeSysctlsLate ==
  /\ detach = "sdio"
  /\ detach' = "down"
  /\ UNCHANGED <<sdpcm_running, ioctl_sx, f2_sx, ioctl_id, txnVars, callVars,
                 rx, pipe>>

\* cyw_sdio_detach; sysctl_ctx_free waits for running handlers; then
\* sx_destroy(&ioctl_sx), mtx_destroy(&mtx).
FreeSysctls ==
  /\ detach = "sdio"
  /\ IdleAll(Sysctls)
  /\ detach' = "down"
  /\ UNCHANGED <<sdpcm_running, ioctl_sx, f2_sx, ioctl_id, txnVars, callVars,
                 rx, pipe>>

\* A caller is stuck on the lock that detach destroyed.
Hung == \E c \in Callers : pc[c] = "hung"

Stopped == (detach = "down" \/ Hung) /\ UNCHANGED vars

-----------------------------------------------------------------------------
Enter(c) == Call(c) \/ Acquire(c) \/ Leave(c)

Runtime(c) ==
  \/ NoCredit(c) \/ Register(c) \/ LockF2(c) \/ HangOnF2(c) \/ WriteOk(c)
  \/ WriteFail(c) \/ Withdraw(c) \/ AnsweredEarly(c) \/ Sleep(c) \/ TimerFires(c)
  \/ GiveUp(c) \/ Wake(c)

Boot(c) ==
  \/ BootDrain(c) \/ BootSend(c) \/ BootFail(c)
  \/ PollSkip(c) \/ PollAnswer(c) \/ PollEnd(c)

RxTask == RxStart \/ RxDiscard \/ RxDeliver \/ RxFail \/ RxDone
Chip   == FwAnswer \/ FwLose
Detach ==
  \/ StopRunning \/ StopCallout \/ DrainRx \/ FreeScanTq \/ WakeWaiter
  \/ DestroyCv \/ FreeSysctls \/ Stopped

Next ==
  \/ \E c \in Callers : Enter(c) \/ Runtime(c) \/ Boot(c)
  \/ RxTask
  \/ Chip
  \/ Detach

Spec == Init /\ [][Next]_vars

\* A caller keeps running, its timer and its poll budgets run out, a receive
\* pass ends; f2_sx is free for most of every 50 ms, so a caller that waits
\* for it gets it (strong fairness).  The chip and the callers owe nothing.
Fairness ==
  /\ \A c \in Callers :
       /\ WF_vars(Acquire(c))
       /\ WF_vars(Leave(c))
       /\ WF_vars(NoCredit(c) \/ Register(c))
       /\ SF_vars(LockF2(c))
       /\ WF_vars(WriteOk(c) \/ WriteFail(c))
       /\ WF_vars(Withdraw(c) \/ AnsweredEarly(c) \/ Sleep(c))
       /\ WF_vars(TimerFires(c) \/ GiveUp(c) \/ Wake(c))
       /\ WF_vars(BootSend(c) \/ BootFail(c))
       /\ WF_vars(PollAnswer(c) \/ PollEnd(c))
  /\ WF_vars(RxDone)
  /\ WF_vars(StopCallout) /\ WF_vars(DrainRx) /\ WF_vars(FreeScanTq)
  /\ WF_vars(WakeWaiter) /\ WF_vars(DestroyCv) /\ WF_vars(FreeSysctls)

FairSpec == Spec /\ Fairness
-----------------------------------------------------------------------------
(* Properties.                                                             *)

\* The KASSERT of cyw_fil_txrx: whoever is about to register a wait finds no
\* other transaction waiting, whatever timeouts, failed writes, late answers
\* and detach did to the previous one.
OneTransaction == \A c \in Callers : pc[c] = "credit" => ~waiting

\* A transaction only ever takes the answer to its own command, never a late
\* one to an earlier command, and success means that answer came and, for a
\* GET, is in the caller's buffer (ioctl_wait_id matching, both paths).
OwnAnswer ==
  \A c \in Callers :
    /\ got[c] # "other"
    /\ buf[c] # "other"
    /\ (pc[c] = "out" /\ ret[c] = "OK") =>
         got[c] = "own" /\ (op[c] = "GET" => buf[c] = "own")

\* A caller that is told of a timeout, of missing credits or of the detach has
\* an untouched buffer: an answer that slips in between the timer and the
\* relock of mtx is reported as the answer it is.
FailureLeavesBuffer ==
  \A c \in Callers :
    (pc[c] = "out" /\ ret[c] \in {"ETIMEDOUT", "ENOBUFS", "ENXIO"}) =>
      buf[c] = "none" /\ got[c] = "none"

\* A step that writes into the buffer of c.
WritesInto(c) == buf'[c] # buf[c] /\ buf'[c] # "none"
WritesLiveBuffer == \A c \in Callers : WritesInto(c) => pc[c] \in TxnPCs

\* The receive task never writes through ioctl_resp_buf once the caller that
\* owns the buffer has left the transaction: the pointer is never cleared.
NoDanglingWrite == [][WritesLiveBuffer]_vars

\* What a caller of cyw_fil_* sees of its call.
Phase(c) ==
  CASE pc[c] = "idle"  -> "idle"
    [] pc[c] = "enter" -> "asked"
    [] pc[c] = "out"   -> "done"
    [] OTHER           -> "active"

Calls == INSTANCE RemoteCall WITH phase <- [c \in Callers |-> Phase(c)],
                                  answer <- got, data <- buf

\* Both paths of cyw_fil_txrx, with the receive task, a chip that answers late
\* or not at all, and cyw_detach, are the remote call that the wrappers promise:
\* one answer at most per call, never after the call has its return value, and a
\* return value that agrees with it (FailureLeavesBuffer is the half for errors).
ImplementsCalls == Calls!Spec

\* Threads with an F2 transfer in progress.
F2Users ==
  {c \in Callers : pc[c] \in {"write"} \cup BootPCs}
    \cup (IF rx = "drain" THEN {RxTq} ELSE {})

\* While the layer runs, F2 has one user at a time (the CAM queue panic that
\* f2_sx is there to prevent).
F2ExclusiveWhileRunning ==
  sdpcm_running => \A t, u \in F2Users : t = u

\* ioctl_sx and mtx are destroyed only after the last caller is out.
LocksOutliveCallers == detach = "down" => IdleAll(Callers)

\* Every transaction ends: answered, refused, timed out, or cut by detach;
\* nothing but the use of the destroyed f2_sx can keep ioctl_sx held.
TransactionEnds ==
  \A c \in Callers : ioctl_sx = c ~> ioctl_sx # c \/ Hung

\* cyw_detach does not hang on a caller, a scan task or the receive task,
\* unless a sysctl went for f2_sx after its destruction.
DetachCompletes == detach = "drain" ~> detach = "down" \/ Hung

\* The claim of var.h on f2_sx, "serializes all SDIO F2 reads and writes",
\* with no restriction to the time the layer runs.
F2Exclusive == \A t, u \in F2Users : t = u

==============================================================================
