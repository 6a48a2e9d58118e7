-------------------------------- MODULE CywTx --------------------------------
(***************************************************************************)
(* Transmission of the CYW43455 driver: cyw_vap_transmit queues a frame,   *)
(* cyw_tx_task (on rx_tq) writes it to F2 when there is a credit, and      *)
(* cyw_fil_txrx writes its commands next to it.  Both take a sequence      *)
(* number from sdpcm_tx_seq, the one under mtx, the other under f2_sx; the *)
(* receive task, on the thread of cyw_tx_task, updates sdpcm_rx_max.       *)
(*                                                                         *)
(* Frames are numbered in the order of their submission.  The transaction  *)
(* around a command is in CywFwil; here it is a sender that comes back.    *)
(***************************************************************************)
EXTENDS Integers, Sequences, SequencesExt, FiniteSets

CONSTANTS
  NFrames,    \* data frames the stack submits
  Eapol,      \* the ones that are EAPOL
  NCommands,  \* commands that are sent
  Wrap,       \* sequence numbers, 256 for the uint8_t
  Seed,       \* the credits of cyw_sdpcm_attach, 4
  Window,     \* buffers of the chip
  BootSeqs    \* where sdpcm_tx_seq may stand when the layer starts

ASSUME TxAssumption ==
  /\ NFrames \in Nat
  /\ NCommands \in Nat
  /\ Wrap \in Nat \ {0, 1}
  /\ Seed \in 0 .. (Wrap - 1)
  /\ Window \in 1 .. (Wrap - 1)
  /\ BootSeqs \subseteq 0 .. (Wrap - 1)

VARIABLES
  running,   \* the VAP is in S_RUN
  next,      \* number of the next frame of the stack
  queue,     \* tx_queue
  kicks,     \* senders between the insertion and the enqueue of the task
  pending,   \* tx_task is enqueued on rx_tq
  list,      \* tx_list, what cyw_tx_task has taken from the queue
  tx,        \* cyw_tx_task: its step, the frame in hand, the number it read
  cmd,       \* cyw_fil_txrx: its step and the number it read
  commands,  \* commands begun
  f2_sx,     \* holder: "none", "tx", "cmd"
  tx_seq,    \* sdpcm_tx_seq
  rx_max,    \* sdpcm_rx_max
  wire,      \* what the chip got: data frames by number, commands as 0
  dropped,   \* frames freed unsent
  base,      \* history: sdpcm_tx_seq at attach
  consumed,  \* frames whose buffer the chip has freed
  overrun,   \* history: a frame was sent beyond the credit ceiling
  attached

queueVars  == <<next, queue, kicks, pending, dropped>>
creditVars == <<tx_seq, rx_max, base, consumed>>
vars == <<running, queueVars, list, tx, cmd, commands, f2_sx, creditVars,
          wire, overrun, attached>>

Seqs   == 0 .. (Wrap - 1)
Data   == 1 .. NFrames
TxPCs  == {"idle", "pick", "check", "lock", "load", "store", "write"}
CmdPCs == {"idle", "credit", "load", "store", "lock", "write"}

TypeOK ==
  /\ running \in BOOLEAN
  /\ next \in 1 .. (NFrames + 1)
  /\ queue \in Seq(Data)
  /\ kicks \in 0 .. NFrames
  /\ pending \in BOOLEAN
  /\ list \in Seq(Data)
  /\ tx \in [pc : TxPCs, m : 0 .. NFrames, seq : Seqs]
  /\ cmd \in [pc : CmdPCs, seq : Seqs]
  /\ commands \in 0 .. NCommands
  /\ f2_sx \in {"none", "tx", "cmd"}
  /\ tx_seq \in Seqs
  /\ rx_max \in Seqs
  /\ wire \in Seq(0 .. NFrames)
  /\ dropped \in SUBSET Data
  /\ base \in Seqs
  /\ consumed \in 0 .. Len(wire)
  /\ overrun \in BOOLEAN
  /\ attached \in BOOLEAN

\* cyw_sdpcm_attach: the ceiling is seeded, the number is where boot left it.
Init ==
  /\ running = FALSE
  /\ next = 1
  /\ queue = << >>
  /\ kicks = 0
  /\ pending = FALSE
  /\ list = << >>
  /\ tx = [pc |-> "idle", m |-> 0, seq |-> 0]
  /\ cmd = [pc |-> "idle", seq |-> 0]
  /\ commands = 0
  /\ f2_sx = "none"
  /\ base \in BootSeqs
  /\ tx_seq = base
  /\ rx_max = Seed
  /\ wire = << >>
  /\ dropped = {}
  /\ consumed = 0
  /\ overrun = FALSE
  /\ attached = TRUE

\* The uint8_t test of both senders.
HasCredit == (rx_max - tx_seq) % Wrap > 0

\* A frame with number s goes to the chip.
Send(f, s) ==
  /\ wire' = Append(wire, f)
  /\ overrun' = (overrun \/ (rx_max - s) % Wrap = 0)

-----------------------------------------------------------------------------
(* The stack.                                                              *)

NewState ==
  /\ attached
  /\ running' = ~running
  /\ UNCHANGED <<queueVars, list, tx, cmd, commands, f2_sx, creditVars, wire,
                 overrun, attached>>

\* cyw_vap_transmit: before S_RUN only EAPOL passes; insert at the tail under
\* tx_queue_mtx ...
VapTransmit ==
  /\ attached
  /\ next <= NFrames
  /\ next' = next + 1
  /\ IF running \/ next \in Eapol
       THEN queue' = Append(queue, next) /\ kicks' = kicks + 1
            /\ UNCHANGED dropped
       ELSE dropped' = dropped \cup {next} /\ UNCHANGED <<queue, kicks>>
  /\ UNCHANGED <<running, pending, list, tx, cmd, commands, f2_sx, creditVars,
                 wire, overrun, attached>>

\* ... and, after the unlock, taskqueue_enqueue; other senders and the task
\* may come in between.
VapEnqueue ==
  /\ kicks > 0
  /\ kicks' = kicks - 1
  /\ pending' = TRUE
  /\ UNCHANGED <<running, next, queue, dropped, list, tx, cmd, commands, f2_sx,
                 creditVars, wire, overrun, attached>>

-----------------------------------------------------------------------------
(* The thread of rx_tq.                                                    *)

\* Slip: only the head is taken, and the rest waits for another enqueue.
TxStartTakesOne ==
  /\ attached
  /\ tx.pc = "idle"
  /\ pending
  /\ pending' = FALSE
  /\ list' = SubSeq(queue, 1, 1)
  /\ queue' = SubSeq(queue, 2, Len(queue))
  /\ tx' = [tx EXCEPT !.pc = "pick"]
  /\ UNCHANGED <<running, next, kicks, cmd, commands, f2_sx, creditVars, wire,
                 dropped, overrun, attached>>

\* cyw_tx_task takes the whole queue, under tx_queue_mtx.
TxStart ==
  /\ attached
  /\ tx.pc = "idle"
  /\ pending
  /\ pending' = FALSE
  /\ list' = queue
  /\ queue' = << >>
  /\ tx' = [tx EXCEPT !.pc = "pick"]
  /\ UNCHANGED <<running, next, kicks, cmd, commands, f2_sx, creditVars, wire,
                 dropped, overrun, attached>>

\* Slip: the list is unlinked from its end.
TxPickLast ==
  /\ tx.pc = "pick"
  /\ IF list = << >>
       THEN tx' = [pc |-> "idle", m |-> 0, seq |-> 0] /\ UNCHANGED list
       ELSE /\ tx' = [pc |-> "check", m |-> Last(list), seq |-> 0]
            /\ list' = Front(list)
  /\ UNCHANGED <<running, queueVars, cmd, commands, f2_sx, creditVars, wire,
                 overrun, attached>>

\* The next frame of the list, or the end of the task.
TxPick ==
  /\ tx.pc = "pick"
  /\ IF list = << >>
       THEN tx' = [pc |-> "idle", m |-> 0, seq |-> 0] /\ UNCHANGED list
       ELSE /\ tx' = [pc |-> "check", m |-> Head(list), seq |-> 0]
            /\ list' = Tail(list)
  /\ UNCHANGED <<running, queueVars, cmd, commands, f2_sx, creditVars, wire,
                 overrun, attached>>

\* cyw_tx_data_frame drops the frame when there is no credit or no memory.
TxDrop ==
  /\ tx.pc = "check"
  /\ tx' = [pc |-> "pick", m |-> 0, seq |-> 0]
  /\ dropped' = dropped \cup {tx.m}
  /\ UNCHANGED <<running, next, queue, kicks, pending, list, cmd, commands,
                 f2_sx, creditVars, wire, overrun, attached>>

TxCheck ==
  /\ tx.pc = "check"
  /\ HasCredit
  /\ tx' = [tx EXCEPT !.pc = "lock"]
  /\ UNCHANGED <<running, queueVars, list, cmd, commands, f2_sx, creditVars,
                 wire, overrun, attached>>

TxLock ==
  /\ tx.pc = "lock"
  /\ f2_sx = "none"
  /\ f2_sx' = "tx"
  /\ tx' = [tx EXCEPT !.pc = "load"]
  /\ UNCHANGED <<running, queueVars, list, cmd, commands, creditVars, wire,
                 overrun, attached>>

\* sph->seq = sc->sdpcm_tx_seq++, a load ...
TxLoad ==
  /\ tx.pc = "load"
  /\ tx' = [tx EXCEPT !.pc = "store", !.seq = tx_seq]
  /\ UNCHANGED <<running, queueVars, list, cmd, commands, f2_sx, creditVars,
                 wire, overrun, attached>>

\* ... and a store, under f2_sx but not under mtx.
TxStore ==
  /\ tx.pc = "store"
  /\ tx_seq' = (tx.seq + 1) % Wrap
  /\ tx' = [tx EXCEPT !.pc = "write"]
  /\ UNCHANGED <<running, queueVars, list, cmd, commands, f2_sx, rx_max, base,
                 consumed, wire, overrun, attached>>

\* Slip: the error path forgets sx_xunlock(&f2_sx).
TxWriteKeepsLock ==
  /\ tx.pc = "write"
  /\ tx' = [pc |-> "pick", m |-> 0, seq |-> 0]
  /\ \/ Send(tx.m, tx.seq) /\ f2_sx' = "none" /\ UNCHANGED dropped
     \/ dropped' = dropped \cup {tx.m} /\ UNCHANGED <<wire, overrun, f2_sx>>
  /\ UNCHANGED <<running, next, queue, kicks, pending, list, cmd, commands,
                 creditVars, attached>>

\* cyw_f2_write_block succeeds, or fails and the frame is gone all the same.
TxWrite ==
  /\ tx.pc = "write"
  /\ f2_sx' = "none"
  /\ tx' = [pc |-> "pick", m |-> 0, seq |-> 0]
  /\ \/ Send(tx.m, tx.seq) /\ UNCHANGED dropped
     \/ dropped' = dropped \cup {tx.m} /\ UNCHANGED <<wire, overrun>>
  /\ UNCHANGED <<running, next, queue, kicks, pending, list, cmd, commands,
                 creditVars, attached>>

\* The receive task: one thread runs it and cyw_tx_task.  A frame from the
\* chip carries the highest number it may be sent.
Receive ==
  /\ attached
  /\ tx.pc = "idle"
  /\ f2_sx = "none"
  /\ rx_max' = (base + consumed + Window) % Wrap
  /\ UNCHANGED <<running, queueVars, list, tx, cmd, commands, f2_sx, tx_seq,
                 base, consumed, wire, overrun, attached>>

-----------------------------------------------------------------------------
(* cyw_fil_txrx, runtime path.                                             *)

CmdBegin ==
  /\ attached
  /\ cmd.pc = "idle"
  /\ commands < NCommands
  /\ commands' = commands + 1
  /\ cmd' = [cmd EXCEPT !.pc = "credit"]
  /\ UNCHANGED <<running, queueVars, list, tx, f2_sx, creditVars, wire,
                 overrun, attached>>

\* 200 polls without a credit: ENOBUFS.
CmdNoCredit ==
  /\ cmd.pc = "credit"
  /\ ~HasCredit
  /\ cmd' = [pc |-> "idle", seq |-> 0]
  /\ UNCHANGED <<running, queueVars, list, tx, commands, f2_sx, creditVars,
                 wire, overrun, attached>>

CmdCheck ==
  /\ cmd.pc = "credit"
  /\ HasCredit
  /\ cmd' = [cmd EXCEPT !.pc = "load"]
  /\ UNCHANGED <<running, queueVars, list, tx, commands, f2_sx, creditVars,
                 wire, overrun, attached>>

\* sph->seq = sc->sdpcm_tx_seq++, under mtx but not under f2_sx.
CmdLoad ==
  /\ cmd.pc = "load"
  /\ cmd' = [pc |-> "store", seq |-> tx_seq]
  /\ UNCHANGED <<running, queueVars, list, tx, commands, f2_sx, creditVars,
                 wire, overrun, attached>>

CmdStore ==
  /\ cmd.pc = "store"
  /\ tx_seq' = (cmd.seq + 1) % Wrap
  /\ cmd' = [cmd EXCEPT !.pc = "lock"]
  /\ UNCHANGED <<running, queueVars, list, tx, commands, f2_sx, rx_max, base,
                 consumed, wire, overrun, attached>>

CmdLock ==
  /\ cmd.pc = "lock"
  /\ f2_sx = "none"
  /\ f2_sx' = "cmd"
  /\ cmd' = [cmd EXCEPT !.pc = "write"]
  /\ UNCHANGED <<running, queueVars, list, tx, commands, creditVars, wire,
                 overrun, attached>>

CmdWrite ==
  /\ cmd.pc = "write"
  /\ f2_sx' = "none"
  /\ cmd' = [pc |-> "idle", seq |-> 0]
  /\ Send(0, cmd.seq) \/ UNCHANGED <<wire, overrun>>
  /\ UNCHANGED <<running, queueVars, list, tx, commands, creditVars,
                 attached>>

-----------------------------------------------------------------------------
(* The chip, and the detach.                                               *)

ChipConsume ==
  /\ consumed < Len(wire)
  /\ consumed' = consumed + 1
  /\ UNCHANGED <<running, queueVars, list, tx, cmd, commands, f2_sx, tx_seq,
                 rx_max, base, wire, overrun, attached>>

\* cyw_cfg_detach has taken the VAPs down; cyw_sdpcm_detach drains rx_tq and
\* frees what is left on the queue.
Detach ==
  /\ attached
  /\ tx.pc = "idle"
  /\ kicks = 0
  /\ ~pending
  /\ attached' = FALSE
  /\ queue' = << >>
  /\ dropped' = dropped \cup ToSet(queue)
  /\ UNCHANGED <<running, next, kicks, pending, list, tx, cmd, commands, f2_sx,
                 creditVars, wire, overrun>>

Detached == ~attached /\ cmd.pc = "idle" /\ UNCHANGED vars

-----------------------------------------------------------------------------
TxTask  == TxStart \/ TxPick \/ TxDrop \/ TxCheck \/ TxLock \/ TxLoad
             \/ TxStore \/ TxWrite
Command == CmdBegin \/ CmdNoCredit \/ CmdCheck \/ CmdLoad \/ CmdStore
             \/ CmdLock \/ CmdWrite

Next ==
  \/ NewState \/ VapTransmit \/ VapEnqueue \/ TxTask \/ Receive \/ Command
  \/ ChipConsume \/ Detach \/ Detached

Spec == Init /\ [][Next]_vars

\* The thread of rx_tq and a sender with the lock keep running, and a lock
\* that is released again and again is had in the end.
Fairness ==
  /\ WF_vars(VapEnqueue)
  /\ WF_vars(TxTask)
  /\ SF_vars(TxLock)
  /\ WF_vars(CmdWrite)

FairSpec == Spec /\ Fairness
-----------------------------------------------------------------------------
(* Properties.                                                             *)

\* Data frames reach the chip in the order the stack submitted them, none
\* twice, whatever is queued while cyw_tx_task works on its list.
DataInOrder ==
  \A i, j \in DOMAIN wire :
    i < j /\ wire[i] # 0 /\ wire[j] # 0 => wire[i] < wire[j]

\* Where the frames are: queued, taken, in hand, sent, freed.
Places ==
  <<ToSet(queue), ToSet(list), {tx.m} \ {0}, ToSet(wire) \ {0}, dropped>>

\* An mbuf is in exactly one place from cyw_vap_transmit until it is sent or
\* freed: none leaks and none is freed while it is still in use.
EveryMbufInOnePlace ==
  /\ UNION Range(Places) = 1 .. (next - 1)
  /\ \A i, j \in DOMAIN Places : i # j => Places[i] \cap Places[j] = {}

\* A frame cannot be stranded on the queue: a tx_task is enqueued, or a sender
\* is about to enqueue one.
QueueHasTask == (attached /\ queue # << >>) => pending \/ kicks > 0

\* No mbuf is lost on its way from cyw_vap_transmit to the chip: each is in one
\* place, and a place where it waits has a task that will look there.
NoneLost == TypeOK /\ EveryMbufInOnePlace /\ QueueHasTask

\* Every frame of the stack is sent or freed in the end.
FramesLeave ==
  \A f \in Data : next > f ~> f \in dropped \cup ToSet(wire)

\* The claim of doc/cyw43455.md: the host "may only send while (uint8_t)(rx_max
\* - tx_seq) > 0".
SendsWithinCredit == ~overrun

==============================================================================
