------------------------------- MODULE GemRing -------------------------------
(***************************************************************************)
(* The descriptor rings of rp1_eth.  cgem_start_locked maps a frame to up   *)
(* to TX_MAX_DMA_SEGS descriptors, cgem_clean_tx takes back what the GEM    *)
(* has sent; cgem_fill_rqueue posts empty buffers, cgem_recv takes them     *)
(* back full; cgem_stop empties both rings.  All of them run under sc_mtx,  *)
(* and the GEM reads and writes the descriptors meanwhile, so every write   *)
(* of a descriptor it can see is an action.                                 *)
(*                                                                         *)
(* The address of a descriptor is the frame it points at.  Of a descriptor  *)
(* that is not queued only USED or OWN is ever read, and the rest of it is  *)
(* forgotten.  A DMA map lives and dies with its mbuf.  The two rings have  *)
(* nothing in common but the lock and cgem_stop, so a behaviour has traffic *)
(* in one direction.                                                        *)
(***************************************************************************)
EXTENDS Integers, SequencesExt, FiniteSets

CONSTANTS
  NumTx,    \* RP1ETH_NUM_TX_DESCS
  NumRx,    \* RP1ETH_NUM_RX_DESCS
  Segs,     \* TX_MAX_DMA_SEGS
  RxBufs,   \* the values hw.rp1_eth.mac_drv.rxbufs is given
  SendQ,    \* length of the send queue
  Ids,      \* frames are told apart by the names 0 .. Ids - 1
  None

ASSUME RingAssumption ==
  /\ NumTx \in Nat /\ NumRx \in Nat \ {0} /\ Segs \in Nat \ {0}
  /\ 2 * Segs < NumTx
  /\ RxBufs \subseteq 0 .. NumRx
  /\ SendQ \in Nat \ {0}
  /\ Ids \in Nat /\ Ids > NumTx + SendQ /\ Ids > 2 * NumRx
  /\ None \notin 0 .. Ids - 1

VARIABLES
  flow,     \* the direction of the traffic: "tx" or "rx"
  running,  \* IFF_DRV_RUNNING, and TX_EN and RX_EN of net_ctl_shadow
  oactive,  \* IFF_DRV_OACTIVE
  pc,       \* what the holder of sc_mtx is doing
  ret,      \* where cgem_clean_tx returns to
  task,     \* cgem_intr_task is in if_input, without sc_mtx
  sendq,    \* the send queue
  live,     \* mbufs of frames to be sent that are not freed
  txring,   \* the transmit descriptors
  txm,      \* txring_m
  txhd, txtl, txqueued,
  nsegs,    \* segments of the frame that is being written
  seg,      \* i + 1, the segment that is written next
  go,       \* the GEM transmits
  txgem,    \* the GEM's transmit queue pointer
  first,    \* where the frame it is reading begins
  got,      \* the segments it has read of that frame
  sent,     \* what it put on the wire last
  rxring,   \* the receive descriptors
  rxm,      \* rxring_m: there is an mbuf
  rxhd, rxtl, rxqueued,
  rxbufs,
  rxgem,    \* the GEM's receive queue pointer
  chain,    \* m_hd, the frames to be passed to if_input
  input     \* the frame if_input was called with last

drvVars == <<flow, running, oactive, pc, ret, task>>
mapVars == <<txring, txm, txhd, txtl, txqueued, nsegs, seg>>
gemVars == <<go, txgem, first, got, sent>>
txVars  == <<sendq, live, mapVars, gemVars>>
rxVars  == <<rxring, rxm, rxhd, rxtl, rxqueued, rxbufs, rxgem, chain,
             input>>
vars == <<drvVars, txVars, rxVars>>

Names == 0 .. Ids - 1
Torn  == Ids    \* on the wire, a frame that nobody sent

\* A name for a new frame, when the ones in used are taken.
Fresh(used) == CHOOSE f \in Names \ used : \A g \in Names \ used : f <= g

\* CGEM_TXDESC_USED and nothing else.
UsedDesc == [used |-> TRUE, last |-> FALSE, wrap |-> FALSE, frame |-> None,
             seg |-> 0]

TxReset == [d \in 0 .. NumTx - 1 |->
              [UsedDesc EXCEPT !.wrap = (d = NumTx - 1)]]

\* OWN: the driver's.
OwnDesc == [own |-> TRUE, frame |-> None, good |-> FALSE]

RxReset == [d \in 0 .. NumRx - 1 |-> OwnDesc]

Init ==
  /\ flow \in {"tx", "rx"}
  /\ running = FALSE /\ oactive = FALSE
  /\ pc = "idle" /\ ret = "idle" /\ task = FALSE
  /\ sendq = <<>> /\ live = {}
  /\ txring = TxReset
  /\ txm = [d \in 0 .. NumTx - 1 |-> None]
  /\ txhd = 0 /\ txtl = 0 /\ txqueued = 0 /\ nsegs = 0 /\ seg = 0
  /\ go = FALSE /\ txgem = 0 /\ first = 0 /\ got = 0 /\ sent = None
  /\ rxring = RxReset
  /\ rxm = [d \in 0 .. NumRx - 1 |-> FALSE]
  /\ rxhd = 0 /\ rxtl = 0 /\ rxqueued = 0
  /\ rxbufs \in IF flow = "rx" THEN RxBufs ELSE {0}
  /\ rxgem = 0 /\ chain = <<>> /\ input = None

-----------------------------------------------------------------------------
(* Transmission.                                                           *)

\* ether_output sends to a running interface only.
Submit ==
  /\ flow = "tx"
  /\ running
  /\ Len(sendq) < SendQ
  /\ LET f == Fresh(live \cup {txring[d].frame : d \in 0 .. NumTx - 1}) IN
       /\ sendq' = Append(sendq, f)
       /\ live' = live \cup {f}
  /\ UNCHANGED <<drvVars, mapVars, gemVars, rxVars>>

\* cgem_start, at any time after a frame was queued.
Start ==
  /\ pc = "idle"
  /\ ~oactive
  /\ pc' = "start"
  /\ UNCHANGED <<flow, running, oactive, ret, task, txVars, rxVars>>

\* Slip: room is kept for a frame only.
FullLate == txqueued > NumTx - Segs

\* Room is kept for a frame and for the descriptors behind an early WRAP.
Full == txqueued >= NumTx - Segs * 2

StartClean ==
  /\ pc = "start"
  /\ Full
  /\ pc' = "clean"
  /\ ret' = "retest"
  /\ UNCHANGED <<flow, running, oactive, task, txVars, rxVars>>

StartFull ==
  /\ pc = "retest"
  /\ Full
  /\ oactive' = TRUE
  /\ pc' = "idle"
  /\ UNCHANGED <<flow, running, ret, task, txVars, rxVars>>

StartEmpty ==
  /\ pc \in {"start", "retest"}
  /\ ~Full
  /\ sendq = <<>>
  /\ pc' = "idle"
  /\ UNCHANGED <<flow, running, oactive, ret, task, txVars, rxVars>>

\* The map cannot be made or loaded, or the frame not defragmented.
StartDrop ==
  /\ pc \in {"start", "retest"}
  /\ ~Full
  /\ sendq # <<>>
  /\ sendq' = Tail(sendq)
  /\ live' = live \ {Head(sendq)}
  /\ pc' = "start"
  /\ UNCHANGED <<flow, running, oactive, ret, task, mapVars, gemVars, rxVars>>

StartMap ==
  /\ pc \in {"start", "retest"}
  /\ ~Full
  /\ sendq # <<>>
  /\ sendq' = Tail(sendq)
  /\ txm' = [txm EXCEPT ![txhd] = Head(sendq)]
  /\ nsegs' \in 1 .. Segs
  /\ seg' = nsegs'
  /\ pc' = "write"
  /\ UNCHANGED <<flow, running, oactive, ret, task, live, txring, txhd, txtl,
                 txqueued, gemVars, rxVars>>

Wraps == txhd + nsegs + Segs >= NumTx

\* The descriptor of segment s.
NewDesc(s) ==
  [used |-> FALSE, last |-> (s = nsegs), wrap |-> (s = nsegs /\ Wraps),
   frame |-> txm[txhd], seg |-> s]

\* Slip: the first descriptor is written first.
WriteDescForward ==
  /\ pc = "write"
  /\ txring' = [txring EXCEPT ![txhd + nsegs - seg] = NewDesc(nsegs - seg + 1)]
  /\ IF seg > 1
       THEN /\ txm' = [txm EXCEPT ![txhd + seg - 1] = None]
            /\ seg' = seg - 1
            /\ UNCHANGED <<pc, txhd, txqueued, nsegs, go>>
       ELSE /\ txhd' = IF Wraps THEN 0 ELSE txhd + nsegs
            /\ txqueued' = txqueued + nsegs
            /\ nsegs' = 0 /\ seg' = 0
            /\ go' = running
            /\ pc' = "start"
            /\ UNCHANGED txm
  /\ UNCHANGED <<flow, running, oactive, ret, task, sendq, live, txtl, txgem,
                 first, got, sent, rxVars>>

\* One descriptor, the last first; with the first one the frame is the GEM's,
\* and it is told to transmit.
WriteDesc ==
  /\ pc = "write"
  /\ txring' = [txring EXCEPT ![txhd + seg - 1] = NewDesc(seg)]
  /\ IF seg > 1
       THEN /\ txm' = [txm EXCEPT ![txhd + seg - 1] = None]
            /\ seg' = seg - 1
            /\ UNCHANGED <<pc, txhd, txqueued, nsegs, go>>
       ELSE /\ txhd' = IF Wraps THEN 0 ELSE txhd + nsegs
            /\ txqueued' = txqueued + nsegs
            /\ nsegs' = 0 /\ seg' = 0
            /\ go' = running
            /\ pc' = "start"
            /\ UNCHANGED txm
  /\ UNCHANGED <<flow, running, oactive, ret, task, sendq, live, txtl, txgem,
                 first, got, sent, rxVars>>

\* cgem_clean_tx: the first descriptor of a frame that was sent.
CleanFrame ==
  /\ pc = "clean"
  /\ txqueued > 0
  /\ txring[txtl].used
  /\ live' = live \ {txm[txtl]}
  /\ txm' = [txm EXCEPT ![txtl] = None]
  /\ pc' = "seg"
  /\ UNCHANGED <<flow, running, oactive, ret, task, sendq, txring, txhd, txtl,
                 txqueued, nsegs, seg, gemVars, rxVars>>

After(d) == IF txring[d].wrap THEN 0 ELSE d + 1

\* Past one of its descriptors; the ones behind the first are marked here.
CleanSeg ==
  /\ pc = "seg"
  /\ txtl' = After(txtl)
  /\ txqueued' = txqueued - 1
  /\ IF txring[txtl].last
       THEN /\ txring' = [txring EXCEPT ![txtl] = UsedDesc]
            /\ oactive' = FALSE
            /\ pc' = "clean"
       ELSE /\ txring' = [txring EXCEPT ![txtl] = UsedDesc,
                                        ![After(txtl)].used = TRUE]
            /\ UNCHANGED <<oactive, pc>>
  /\ UNCHANGED <<flow, running, ret, task, sendq, live, txm, txhd, nsegs, seg,
                 gemVars, rxVars>>

CleanDone ==
  /\ pc = "clean"
  /\ ~(txqueued > 0 /\ txring[txtl].used)
  /\ pc' = ret
  /\ UNCHANGED <<flow, running, oactive, ret, task, txVars, rxVars>>

\* The GEM reads a descriptor.  Behind the last one of a frame it marks the
\* first one used; a used one ends the transmission.
GemFetch ==
  /\ go
  /\ LET d  == txring[txgem]
         ok == /\ d.frame \in live
               /\ d.seg = got + 1
               /\ got > 0 => d.frame = txring[first].frame
     IN
     IF d.used
       THEN /\ go' = FALSE
            /\ sent' = IF got = 0 THEN sent ELSE Torn
            /\ UNCHANGED <<txring, txgem, first, got>>
       ELSE /\ txgem' = After(txgem)
            /\ first' = IF d.last THEN 0 ELSE IF got = 0 THEN txgem ELSE first
            /\ got' = IF d.last THEN 0 ELSE got + 1
            /\ txring' =
                 IF d.last
                   THEN [txring EXCEPT
                           ![IF got = 0 THEN txgem ELSE first].used = TRUE]
                   ELSE txring
            /\ sent' = IF ~ok THEN Torn ELSE IF d.last THEN d.frame ELSE sent
            /\ UNCHANGED go
  /\ UNCHANGED <<drvVars, sendq, live, txm, txhd, txtl, txqueued, nsegs,
                 seg, rxVars>>

-----------------------------------------------------------------------------
(* Reception.                                                              *)

\* The ring with n more buffers.
Posted(n) ==
  LET at == {(rxhd + i) % NumRx : i \in 0 .. n - 1} IN
  /\ rxring' = [d \in 0 .. NumRx - 1 |->
       IF d \in at THEN [own |-> FALSE, frame |-> None, good |-> FALSE]
                   ELSE rxring[d]]
  /\ rxm' = [d \in 0 .. NumRx - 1 |-> rxm[d] \/ d \in at]
  /\ rxhd' = (rxhd + n) % NumRx
  /\ rxqueued' = rxqueued + n

\* Up to rxbufs, or fewer when there is no mbuf or no map.
FillRqueue ==
  IF rxqueued < rxbufs THEN \E n \in 0 .. rxbufs - rxqueued : Posted(n)
                       ELSE UNCHANGED <<rxring, rxm, rxhd, rxqueued>>

\* A frame arrives, and is lost when there is no buffer for it.
GemStore ==
  /\ flow = "rx"
  /\ running
  /\ ~rxring[rxgem].own
  /\ LET f == Fresh(ToSet(chain) \cup
                      {rxring[d].frame : d \in 0 .. NumRx - 1})
     IN \E good \in BOOLEAN :
          rxring' = [rxring EXCEPT
                       ![rxgem] = [own |-> TRUE, frame |-> f, good |-> good]]
  /\ rxgem' = (rxgem + 1) % NumRx
  /\ UNCHANGED <<drvVars, txVars, rxm, rxhd, rxtl, rxqueued, rxbufs, chain,
                 input>>

\* cgem_intr_task of a running interface, with or without RX_COMPLETE.
TaskStart ==
  /\ pc = "idle"
  /\ ~task
  /\ running
  /\ \/ pc' = "recv" /\ UNCHANGED ret
     \/ pc' = "clean" /\ ret' = "taskend"
  /\ UNCHANGED <<flow, running, oactive, task, txVars, rxVars>>

\* Slip: the frame is put before the others.
RecvOnePrepends ==
  /\ pc = "recv"
  /\ rxqueued > 0
  /\ rxring[rxtl].own
  /\ rxm' = [rxm EXCEPT ![rxtl] = FALSE]
  /\ rxring' = [rxring EXCEPT ![rxtl] = OwnDesc]
  /\ rxtl' = (rxtl + 1) % NumRx
  /\ rxqueued' = rxqueued - 1
  /\ chain' = IF rxring[rxtl].good THEN <<rxring[rxtl].frame>> \o chain
                                   ELSE chain
  /\ UNCHANGED <<drvVars, txVars, rxhd, rxbufs, rxgem, input>>

RecvOne ==
  /\ pc = "recv"
  /\ rxqueued > 0
  /\ rxring[rxtl].own
  /\ rxm' = [rxm EXCEPT ![rxtl] = FALSE]
  /\ rxring' = [rxring EXCEPT ![rxtl] = OwnDesc]
  /\ rxtl' = (rxtl + 1) % NumRx
  /\ rxqueued' = rxqueued - 1
  /\ chain' = IF rxring[rxtl].good THEN Append(chain, rxring[rxtl].frame)
                                   ELSE chain
  /\ UNCHANGED <<drvVars, txVars, rxhd, rxbufs, rxgem, input>>

\* The ring is filled again and sc_mtx released.
RecvEnd ==
  /\ pc = "recv"
  /\ ~(rxqueued > 0 /\ rxring[rxtl].own)
  /\ FillRqueue
  /\ pc' = "idle"
  /\ task' = TRUE
  /\ UNCHANGED <<flow, running, oactive, ret, txVars, rxtl, rxbufs, rxgem,
                 chain, input>>

Input ==
  /\ task
  /\ chain # <<>>
  /\ input' = Head(chain)
  /\ chain' = Tail(chain)
  /\ UNCHANGED <<drvVars, txVars, rxring, rxm, rxhd, rxtl, rxqueued, rxbufs,
                 rxgem>>

\* sc_mtx again, whether the interface still runs or not.
InputEnd ==
  /\ task
  /\ chain = <<>>
  /\ pc = "idle"
  /\ task' = FALSE
  /\ pc' = "clean"
  /\ ret' = "taskend"
  /\ UNCHANGED <<flow, running, oactive, txVars, rxVars>>

\* RX_USED_READ or not, then the send queue.
TaskEnd ==
  /\ pc = "taskend"
  /\ FillRqueue \/ UNCHANGED <<rxring, rxm, rxhd, rxqueued>>
  /\ pc' = IF sendq # <<>> /\ ~oactive THEN "start" ELSE "idle"
  /\ UNCHANGED <<flow, running, oactive, ret, task, txVars, rxtl, rxbufs, rxgem,
                 chain, input>>

SysctlRxbufs ==
  /\ flow = "rx"
  /\ rxbufs' \in RxBufs
  /\ UNCHANGED <<drvVars, txVars, rxring, rxm, rxhd, rxtl, rxqueued, rxgem,
                 chain, input>>

-----------------------------------------------------------------------------
(* Up and down.                                                            *)

\* cgem_config, which gives the GEM the rings, and cgem_fill_rqueue.
InitLocked ==
  /\ pc = "idle"
  /\ ~running
  /\ running' = TRUE
  /\ oactive' = FALSE
  /\ txgem' = 0 /\ got' = 0
  /\ rxgem' = 0
  /\ FillRqueue
  /\ UNCHANGED <<flow, pc, ret, task, sendq, live, mapVars, go, first, sent,
                 rxtl, rxbufs, chain, input>>

\* cgem_reset, and both rings emptied; rp1eth_detach calls it of an interface that
\* is down, too.
Stop ==
  /\ pc = "idle"
  /\ running' = FALSE
  /\ go' = FALSE
  /\ live' = live \ {txm[d] : d \in 0 .. NumTx - 1}
  /\ txring' = TxReset
  /\ txm' = [d \in 0 .. NumTx - 1 |-> None]
  /\ txhd' = 0 /\ txtl' = 0 /\ txqueued' = 0
  /\ rxring' = RxReset
  /\ rxm' = [d \in 0 .. NumRx - 1 |-> FALSE]
  /\ rxhd' = 0 /\ rxtl' = 0 /\ rxqueued' = 0
  /\ UNCHANGED <<flow, oactive, pc, ret, task, sendq, nsegs, seg, txgem, first,
                 got, sent, rxbufs, rxgem, chain, input>>

Next ==
  \/ Submit \/ Start \/ StartClean \/ StartFull \/ StartEmpty \/ StartDrop
  \/ StartMap \/ WriteDesc \/ CleanFrame \/ CleanSeg \/ CleanDone \/ GemFetch
  \/ GemStore \/ TaskStart \/ RecvOne \/ RecvEnd \/ Input \/ InputEnd
  \/ TaskEnd \/ SysctlRxbufs \/ InitLocked \/ Stop

Spec == Init /\ [][Next]_vars

-----------------------------------------------------------------------------
(* Properties.                                                             *)

\* The variables have their types, and the driver's pointers stay in the
\* rings: the descriptors of a frame that is mapped end before the ring does.
TypeOK ==
  /\ flow \in {"tx", "rx"}
  /\ running \in BOOLEAN /\ oactive \in BOOLEAN /\ task \in BOOLEAN
  /\ pc \in {"idle", "start", "retest", "write", "clean", "seg", "recv",
             "taskend"}
  /\ ret \in {"idle", "retest", "taskend"}
  /\ sendq \in Seq(Names) /\ live \subseteq Names
  /\ txring \in [0 .. NumTx - 1 ->
       [used : BOOLEAN, last : BOOLEAN, wrap : BOOLEAN,
        frame : Names \cup {None}, seg : 0 .. Segs]]
  /\ txm \in [0 .. NumTx - 1 -> Names \cup {None}]
  /\ txhd \in 0 .. NumTx - Segs - 1
  /\ txtl \in 0 .. NumTx - 1
  /\ txqueued \in 0 .. NumTx - Segs
  /\ nsegs \in 0 .. Segs /\ seg \in 0 .. nsegs
  /\ go \in BOOLEAN /\ txgem \in 0 .. NumTx - 1 /\ first \in 0 .. NumTx - 1
  /\ got \in 0 .. Segs - 1
  /\ sent \in Names \cup {None, Torn}
  /\ rxring \in [0 .. NumRx - 1 ->
       [own : BOOLEAN, frame : Names \cup {None}, good : BOOLEAN]]
  /\ rxm \in [0 .. NumRx - 1 -> BOOLEAN]
  /\ rxhd \in 0 .. NumRx - 1 /\ rxtl \in 0 .. NumRx - 1
  /\ rxqueued \in 0 .. NumRx
  /\ rxbufs \in RxBufs \cup {0}
  /\ rxgem \in 0 .. NumRx - 1
  /\ chain \in Seq(Names) /\ input \in Names \cup {None}

\* The descriptors that are queued, in order.
Queued ==
  LET at[i \in 0 .. txqueued] == IF i = 0 THEN txtl ELSE After(at[i - 1])
  IN [i \in 1 .. txqueued |-> at[i - 1]]

\* The frames in the ring that the GEM has not sent.
InRing ==
  LET Waits(d) == txm[d] # None /\ ~txring[d].used
      s == SelectSeq(Queued, Waits)
  IN [i \in DOMAIN s |-> txm[s[i]]]

TxFrames ==
  InRing \o (IF pc = "write" THEN <<txm[txhd]>> ELSE <<>>) \o sendq

RxFrames ==
  LET ring == [i \in 1 .. rxqueued |-> rxring[(rxtl + i - 1) % NumRx]]
      Arrived(d) == d.own
      s == SelectSeq(ring, Arrived)
  IN chain \o [i \in DOMAIN s |-> s[i].frame]

TxFifo == INSTANCE Fifo WITH Frames <- Names, q <- TxFrames, out <- sent,
                             up <- running
RxFifo == INSTANCE Fifo WITH Frames <- Names, q <- RxFrames, out <- input,
                             up <- running

\* The transmit ring is a queue: whatever the GEM reads between two writes of
\* cgem_start_locked and cgem_clean_tx, over the early WRAP and through a
\* down and up, it sends the frames whole, in order and once.
TransmitsInOrder == TxFifo!Spec

\* The receive ring is a queue: cgem_recv passes the good frames up in the
\* order the GEM stored them, with a cgem_stop in the middle of it too.
ReceivesInOrder == RxFifo!Spec

\* No mbuf leaks and none is freed early: the ones that are not freed are in
\* the send queue or have one place in txring_m.
MbufsOwned ==
  /\ live = (ToSet(sendq) \cup {txm[d] : d \in 0 .. NumTx - 1}) \ {None}
  /\ \A c, d \in 0 .. NumTx - 1 : txm[c] = txm[d] /\ txm[c] # None => c = d

\* cgem_start_locked writes no descriptor that is still queued, and the GEM
\* finds a used one behind the last frame, where it stops.
HeadIsFree ==
  /\ pc = "write" =>
       \A s \in 1 .. nsegs : (txhd + s - 1) \notin ToSet(Queued)
  /\ pc # "write" => txring[txhd].used
  /\ Cardinality(ToSet(Queued)) = txqueued

\* Every posted buffer has its mbuf, and no other descriptor has one.
RxRingOwned ==
  /\ rxqueued <= NumRx
  /\ \A d \in 0 .. NumRx - 1 :
       rxm[d] <=> \E i \in 0 .. rxqueued - 1 : d = (rxtl + i) % NumRx

\* The rings and their mbufs belong to one side at a time, and every mbuf to one
\* descriptor, through full rings, wraps, cgem_stop and changes of rxbufs.
RingsOwned == TypeOK /\ MbufsOwned /\ HeadIsFree /\ RxRingOwned
=============================================================================
