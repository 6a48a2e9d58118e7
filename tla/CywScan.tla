------------------------------- MODULE CywScan -------------------------------
(***************************************************************************)
(* Scanning with the CYW43455: net80211 starts and ends scans by enqueuing *)
(* two tasks on scan_tq; the tasks send the "escan" command; the firmware  *)
(* answers with events, which cyw_sdpcm_task dispatches, f2_sx held, to    *)
(* cyw_escan_result_handler.  A transition to S_AUTH aborts the scan from  *)
(* the thread of net80211 and joins with the chanspec that the handler has *)
(* cached for the BSSID.                                                   *)
(*                                                                         *)
(* Scans are numbered in the order in which the firmware accepts them (the *)
(* driver's escan_sync_id is sent and never compared).  The transaction    *)
(* around a command is in CywFwil; here it is one step that needs f2_sx,   *)
(* free unless the receive task is in a handler.                           *)
(***************************************************************************)
EXTENDS Integers, Sequences, SequencesExt, FiniteSets

CONSTANTS
  Beacons,     \* what the access points send: records [bssid, band, bw, chan, pos]
  Channels,    \* the channels in ic_channels
  CacheSize,   \* CYW_BSS_CS_CACHE_SIZE
  MaxScans,    \* bound: scans the firmware accepts
  MaxEvents,   \* bound: events in the chip before it reports more
  MaxReports,  \* bound: partial events
  Faults,      \* commands and events may get lost
  NoBss        \* an empty slot of the cache

ASSUME ScanAssumption ==
  /\ CacheSize \in Nat \ {0}
  /\ MaxScans \in Nat
  /\ MaxEvents \in Nat \ {0}
  /\ MaxReports \in Nat
  /\ Faults \in BOOLEAN
  /\ \A b \in Beacons : b.bssid # NoBss

VARIABLES
  net,         \* the scan of net80211
  vap,         \* ic_vaps is not empty
  tasks,       \* what is pending on scan_tq
  pc,          \* the thread of scan_tq and the one in cyw_newstate
  failed,      \* the answer of the start command is an error
  scan_active,
  fw,          \* number of the scan the firmware runs, 0 for none
  scans,       \* scans the firmware has accepted
  events,      \* events in the chip
  reports,     \* partial events so far
  rx,          \* the event whose handler runs, << >> if none
  cache,       \* bss_cs_cache
  cache_next,  \* bss_cs_cache_next
  table,       \* the channel of each BSS in the scan table of net80211, or 0
  latest,      \* history: the beacon last reported for each BSSID
  lost         \* history: an event was lost in the F2 read

cacheVars == <<cache, cache_next, table, latest>>
fwVars    == <<fw, scans, events, reports>>
vars == <<net, vap, tasks, pc, failed, scan_active, fwVars, rx, cacheVars,
          lost>>

Bssids  == {b.bssid : b \in Beacons}
Threads == {"scan_tq", "newstate"}
Steps   == {"idle", "start", "started", "test", "clear", "abort", "join"}
Slots   == 0 .. (CacheSize - 1)

-----------------------------------------------------------------------------
(* Chanspecs.                                                              *)

Bits(x, mask, low) == (x \div low) % (mask \div low + 1)

Band5G(cs) == Bits(cs, \hC000, \h4000) = 3

\* cyw_chanspec_to_channel
ChanspecToChannel(cs) ==
  LET ch   == cs % \h100
      bw   == Bits(cs, \h3800, \h800)
      sb   == Bits(cs, \h700, \h100)
      nbw  == Bits(cs, \hC00, \h400)
      nsb  == Bits(cs, \h300, \h100)
  IN  IF Band5G(cs)
      THEN CASE bw = 4 /\ sb \in 0 .. 3 -> ch + <<-6, -2, 2, 6>>[sb + 1]
             [] bw = 3 /\ sb \in 0 .. 1 -> ch + <<-2, 2>>[sb + 1]
             [] OTHER -> ch
      ELSE IF nbw = 3 /\ nsb \in 1 .. 2 THEN ch + <<-2, 2>>[nsb] ELSE ch

\* The chanspec the firmware reports for a primary channel, the same form in both
\* bands ("CYW43455 firmware uses D11AC chanspec encoding", cyw43455_cfg.c:283):
\* the centre, and the position of the primary in the block of 20 MHz channels.
Width(bw) == CASE bw = 20 -> \h1000 [] bw = 40 -> \h1800 [] bw = 80 -> \h2000
Above(bw, pos) ==
  CASE bw = 20 -> 0 [] bw = 40 -> 2 - 4 * pos [] bw = 80 -> 6 - 4 * pos

Encode(b) ==
  (IF b.band = 5 THEN \hC000 ELSE 0) + Width(b.bw) + \h100 * b.pos
    + b.chan + Above(b.bw, b.pos)

\* A chanspec is a uint16_t.
Chanspecs == 0 .. \hFFFF

ASSUME ChanspecAssumption == \A b \in Beacons : Encode(b) \in Chanspecs

\* The primary channel the firmware takes from a chanspec.
FwPrimary(cs) ==
  LET bw == Bits(cs, \h3800, \h800)
  IN  (cs % \h100) - Above(CASE bw = 2 -> 20 [] bw = 3 -> 40 [] bw = 4 -> 80,
                           Bits(cs, \h700, \h100))

\* The simple form for a channel number that cyw_chanspec_for_join falls back to.
SimpleChanspec(chan) ==
  IF chan <= 0 THEN 0 ELSE IF chan <= 14 THEN \h1000 + chan ELSE \hD000 + chan

\* The slots with an entry for the BSSID.
SlotsOf(bssid) == {i \in Slots : cache[i].bssid = bssid}

\* The first slot that matches, as the loop finds it.
FirstSlot(bssid) == CHOOSE i \in SlotsOf(bssid) : \A j \in SlotsOf(bssid) : i <= j

ChanspecForJoin(bssid, chan) ==
  IF SlotsOf(bssid) # {} THEN cache[FirstSlot(bssid)].cs ELSE SimpleChanspec(chan)

\* Slip: every result gets a slot of its own.
CacheAddAlways(bssid, cs) ==
  /\ cache' = [cache EXCEPT ![cache_next] = [bssid |-> bssid, cs |-> cs]]
  /\ cache_next' = (cache_next + 1) % CacheSize

\* cyw_bss_cs_cache_add; no chanspec of Encode is 0.
CacheAdd(bssid, cs) ==
  IF SlotsOf(bssid) # {}
  THEN /\ cache' = [cache EXCEPT ![FirstSlot(bssid)].cs = cs]
       /\ UNCHANGED cache_next
  ELSE /\ cache' = [cache EXCEPT ![cache_next] = [bssid |-> bssid, cs |-> cs]]
       /\ cache_next' = (cache_next + 1) % CacheSize

-----------------------------------------------------------------------------

\* E_ESCAN_RESULT: a terminal event, or a partial one with the results in it.
Done         == [kind |-> "done", bss |-> {}]
Partial(bss) == [kind |-> "partial", bss |-> bss]

Init ==
  /\ net = "idle"
  /\ vap = TRUE
  /\ tasks = << >>
  /\ pc = [t \in Threads |-> "idle"]
  /\ failed = FALSE
  /\ scan_active = FALSE
  /\ fw = 0
  /\ scans = 0
  /\ events = << >>
  /\ reports = 0
  /\ rx = << >>
  /\ cache = [i \in Slots |-> [bssid |-> NoBss, cs |-> 0]]
  /\ cache_next = 0
  /\ table = [b \in Bssids |-> 0]
  /\ latest = [b \in Bssids |-> << >>]
  /\ lost = FALSE

\* taskqueue_enqueue: a task that is pending is not queued again.
Enqueue(task) ==
  tasks' = IF task \in ToSet(tasks) THEN tasks ELSE Append(tasks, task)

Goto(t, step) == pc' = [pc EXCEPT ![t] = step]

-----------------------------------------------------------------------------
(* net80211.                                                               *)

\* cyw_scan_start
ScanStart ==
  /\ vap
  /\ net = "idle"
  /\ scans < MaxScans
  /\ net' = "scanning"
  /\ Enqueue("start")
  /\ UNCHANGED <<vap, pc, failed, scan_active, fwVars, rx, cacheVars, lost>>

\* cyw_scan_end: net80211 has cancelled the scan, has waited long enough, or was
\* told by ieee80211_scan_done.
ScanEnd ==
  /\ net # "idle"
  /\ net' = "idle"
  /\ Enqueue("end")
  /\ UNCHANGED <<vap, pc, failed, scan_active, fwVars, rx, cacheVars, lost>>

\* cyw_vap_create and cyw_vap_delete: net80211 has ended the scan of the VAP.
VapChange ==
  /\ net = "idle"
  /\ pc["newstate"] = "idle"
  /\ vap' = ~vap
  /\ UNCHANGED <<net, tasks, pc, failed, scan_active, fwVars, rx, cacheVars,
                 lost>>

\* cyw_newstate, S_AUTH, calls cyw_abort_escan.
Auth ==
  /\ vap
  /\ pc["newstate"] = "idle"
  /\ Goto("newstate", "test")
  /\ UNCHANGED <<net, vap, tasks, failed, scan_active, fwVars, rx, cacheVars,
                 lost>>

\* ... and goes on to join with the chanspec of ChanspecForJoin.
Join ==
  /\ pc["newstate"] = "join"
  /\ Goto("newstate", "idle")
  /\ UNCHANGED <<net, vap, tasks, failed, scan_active, fwVars, rx, cacheVars,
                 lost>>

-----------------------------------------------------------------------------
(* The tasks.  A command is written with f2_sx held, so never while the    *)
(* receive task is in a handler.                                           *)

\* cyw_scan_start_task, up to the unlock in cyw_do_escan.
StartTask ==
  /\ pc["scan_tq"] = "idle"
  /\ tasks # << >> /\ Head(tasks) = "start"
  /\ tasks' = Tail(tasks)
  /\ scan_active' = TRUE
  /\ Goto("scan_tq", "start")
  /\ UNCHANGED <<net, vap, failed, fwVars, rx, cacheVars, lost>>

\* The start command reaches a firmware that is idle, or that ends its scan for
\* the new one; its answer may get lost.
StartAccepted ==
  /\ pc["scan_tq"] = "start"
  /\ rx = << >>
  /\ scans < MaxScans
  /\ scans' = scans + 1
  /\ fw' = scans + 1
  /\ events' = IF fw = 0 THEN events ELSE Append(events, Done)
  /\ failed' \in {FALSE, Faults}
  /\ Goto("scan_tq", "started")
  /\ UNCHANGED <<net, vap, tasks, scan_active, reports, rx, cacheVars, lost>>

\* The firmware refuses the command, or it is not sent at all.
StartRefused ==
  /\ pc["scan_tq"] = "start"
  /\ rx = << >>
  /\ failed' = TRUE
  /\ Goto("scan_tq", "started")
  /\ UNCHANGED <<net, vap, tasks, scan_active, fwVars, rx, cacheVars, lost>>

\* Slip: the error of the command does not clear the flag.
StartReturnKeepsFlag ==
  /\ pc["scan_tq"] = "started"
  /\ failed' = FALSE
  /\ Goto("scan_tq", "idle")
  /\ UNCHANGED <<net, vap, tasks, scan_active, fwVars, rx, cacheVars, lost>>

\* cyw_do_escan after the command; the task ignores the error.
StartReturn ==
  /\ pc["scan_tq"] = "started"
  /\ scan_active' = IF failed THEN FALSE ELSE scan_active
  /\ failed' = FALSE
  /\ Goto("scan_tq", "idle")
  /\ UNCHANGED <<net, vap, tasks, fwVars, rx, cacheVars, lost>>

\* cyw_scan_end_task
EndTask ==
  /\ pc["scan_tq"] = "idle"
  /\ tasks # << >> /\ Head(tasks) = "end"
  /\ tasks' = Tail(tasks)
  /\ Goto("scan_tq", "test")
  /\ UNCHANGED <<net, vap, failed, scan_active, fwVars, rx, cacheVars, lost>>

\* Where a thread goes on after cyw_abort_escan.
AfterAbort(t) == IF t = "newstate" THEN "join" ELSE "idle"

\* cyw_abort_escan, the first section under mtx ...
AbortTest(t) ==
  /\ pc[t] = "test"
  /\ Goto(t, IF scan_active THEN "clear" ELSE AfterAbort(t))
  /\ UNCHANGED <<net, vap, tasks, failed, scan_active, fwVars, rx, cacheVars,
                 lost>>

\* ... the second ...
AbortClear(t) ==
  /\ pc[t] = "clear"
  /\ scan_active' = FALSE
  /\ Goto(t, "abort")
  /\ UNCHANGED <<net, vap, tasks, failed, fwVars, rx, cacheVars, lost>>

\* ... and the command, whose error is ignored: the firmware ends the scan it
\* runs, or the command does not reach it.
AbortSend(t) ==
  /\ pc[t] = "abort"
  /\ rx = << >>
  /\ \/ /\ fw # 0
        /\ events' = Append(events, Done)
        /\ fw' = 0
     \/ /\ fw = 0 \/ Faults
        /\ UNCHANGED <<events, fw>>
  /\ Goto(t, AfterAbort(t))
  /\ UNCHANGED <<net, vap, tasks, failed, scan_active, scans, reports, rx,
                 cacheVars, lost>>

-----------------------------------------------------------------------------
(* The firmware.                                                           *)

\* One event with a result, or without: it is too short, or the length of its
\* first entry is wrong.  (A second entry is handled as another event would be.)
FwReport ==
  /\ fw # 0
  /\ Len(events) < MaxEvents
  /\ reports < MaxReports
  /\ \E bss \in {{}} \union {{b} : b \in Beacons} :
       events' = Append(events, Partial(bss))
  /\ reports' = reports + 1
  /\ UNCHANGED <<net, vap, tasks, pc, failed, scan_active, fw, scans, rx,
                 cacheVars, lost>>

FwFinish ==
  /\ fw # 0
  /\ events' = Append(events, Done)
  /\ fw' = 0
  /\ UNCHANGED <<net, vap, tasks, pc, failed, scan_active, scans, reports, rx,
                 cacheVars, lost>>

-----------------------------------------------------------------------------
(* The receive task.                                                       *)

\* cyw_sdpcm_task reads an event and cyw_event_dispatch calls the handler.
RxDispatch ==
  /\ rx = << >>
  /\ events # << >>
  /\ rx' = Head(events)
  /\ events' = Tail(events)
  /\ UNCHANGED <<net, vap, tasks, pc, failed, scan_active, fw, scans, reports,
                 cacheVars, lost>>

\* The read fails and the frame is gone.
RxLose ==
  /\ Faults
  /\ rx = << >>
  /\ events # << >>
  /\ events' = Tail(events)
  /\ lost' = TRUE
  /\ UNCHANGED <<net, vap, tasks, pc, failed, scan_active, fw, scans, reports,
                 rx, cacheVars>>

\* Slip: only net80211 is told of the end.
HandleFlagKeeps ==
  /\ rx # << >> /\ rx.kind = "done"
  /\ rx' = [rx EXCEPT !.kind = "notify"]
  /\ UNCHANGED <<net, vap, tasks, pc, failed, scan_active, fwVars, cacheVars,
                 lost>>

\* cyw_escan_result_handler, a terminal event: the flag ...
HandleFlag ==
  /\ rx # << >> /\ rx.kind = "done"
  /\ scan_active' = FALSE
  /\ rx' = [rx EXCEPT !.kind = "notify"]
  /\ UNCHANGED <<net, vap, tasks, pc, failed, fwVars, cacheVars, lost>>

\* ... and ieee80211_scan_done for the first VAP, whichever scan has ended.
HandleDone ==
  /\ rx # << >> /\ rx.kind = "notify"
  /\ net' = IF vap /\ net = "scanning" THEN "ending" ELSE net
  /\ rx' = << >>
  /\ UNCHANGED <<vap, tasks, pc, failed, scan_active, fwVars, cacheVars, lost>>

\* cyw_add_bss: the chanspec is cached first; without a VAP, or for a channel
\* that is not in the table, that is all.
AddBss(b) ==
  LET chan == ChanspecToChannel(Encode(b)) IN
  /\ CacheAdd(b.bssid, Encode(b))
  /\ latest' = [latest EXCEPT ![b.bssid] = b]
  /\ table' = IF vap /\ chan \in Channels
              THEN [table EXCEPT ![b.bssid] = chan]
              ELSE table

\* The body of the loop over the results of a partial event.
HandleBss ==
  /\ rx # << >> /\ rx.kind = "partial"
  /\ rx' = << >>
  /\ \/ rx.bss = {} /\ UNCHANGED cacheVars
     \/ \E b \in rx.bss : AddBss(b)
  /\ UNCHANGED <<net, vap, tasks, pc, failed, scan_active, fwVars, lost>>

-----------------------------------------------------------------------------

ScanTq == StartTask \/ StartAccepted \/ StartRefused \/ StartReturn \/ EndTask

Abort(t) == AbortTest(t) \/ AbortClear(t) \/ AbortSend(t)

Handle == HandleFlag \/ HandleDone \/ HandleBss

Next ==
  \/ ScanStart \/ ScanEnd \/ VapChange \/ Auth \/ Join
  \/ ScanTq
  \/ \E t \in Threads : Abort(t)
  \/ FwReport \/ FwFinish
  \/ RxDispatch \/ RxLose \/ Handle

Spec == Init /\ [][Next]_vars

\* The threads run, the firmware finishes what it scans, and net80211 ends a scan
\* after its dwell time at the latest.
Fairness ==
  /\ WF_vars(ScanTq)
  /\ \A t \in Threads : WF_vars(Abort(t))
  /\ WF_vars(RxDispatch \/ Handle)
  /\ WF_vars(FwFinish)
  /\ WF_vars(ScanEnd)

FairSpec == Spec /\ Fairness

-----------------------------------------------------------------------------
(* Properties.                                                             *)

Slot == [bssid : Bssids \union {NoBss}, cs : Chanspecs]

TypeOK ==
  /\ net \in {"idle", "scanning", "ending"}
  /\ vap \in BOOLEAN
  /\ tasks \in Seq({"start", "end"})
  /\ pc \in [Threads -> Steps]
  /\ failed \in BOOLEAN
  /\ scan_active \in BOOLEAN
  /\ fw \in 0 .. scans
  /\ scans \in 0 .. MaxScans
  /\ events \in Seq([kind : {"done", "partial"}, bss : SUBSET Beacons])
  /\ reports \in 0 .. MaxReports
  /\ rx \in {<< >>} \union [kind : {"done", "notify", "partial"},
                            bss : SUBSET Beacons]
  /\ cache \in [Slots -> Slot]
  /\ cache_next \in Slots
  /\ table \in [Bssids -> Channels \union {0}]
  /\ latest \in [Bssids -> Beacons \union {<< >>}]
  /\ lost \in BOOLEAN

\* Somebody will still clear the flag.
ToBeCleared ==
  \/ fw # 0
  \/ \E i \in DOMAIN events : events[i].kind = "done"
  \/ rx # << >> /\ rx.kind = "done"
  \/ pc["scan_tq"] \in {"start", "started"}
  \/ \E t \in Threads : pc[t] = "clear"

\* scan_active never sticks: whatever the tasks, the abort of cyw_newstate, the
\* terminal events and failing commands do to it, a flag that is set has a scan
\* in the firmware, a terminal event on its way, or a thread that is about to
\* clear it (cyw_do_escan, cyw_abort_escan, cyw_escan_result_handler), as long as
\* no event is lost.
FlagNeverSticks ==
  scan_active /\ ~lost => ToBeCleared

\* bss_cs_cache has at most one entry for a BSSID, and it is the chanspec of the
\* last beacon reported, through replacements, insertions and evictions.
CacheIsLatest ==
  \A i \in Slots : cache[i].bssid # NoBss =>
    /\ cache[i].cs = Encode(latest[cache[i].bssid])
    /\ \A j \in Slots : cache[j].bssid = cache[i].bssid => j = i

\* What tasks, aborts and handlers leave in the softc without a common lock is
\* consistent: neither the flag of the scan nor the cache outlives what it is about.
ScanStateSound == TypeOK /\ FlagNeverSticks /\ CacheIsLatest

\* The forms of a beacon that the driver decodes: 20, 40 and 80 MHz with every
\* position of the primary in 5 GHz, 20 MHz in 2.4 GHz.
Form(b) ==
  \/ b.band = 2 /\ b.bw = 20 /\ b.pos = 0 /\ b.chan \in 1 .. 14
  \/ /\ b.band = 5
     /\ b.chan \in 36 .. 177
     /\ \/ b.bw = 20 /\ b.pos = 0
        \/ b.bw = 40 /\ b.pos \in 0 .. 1
        \/ b.bw = 80 /\ b.pos \in 0 .. 3

\* The chanspec of a join is the whole one, with width and position, of the last
\* beacon of the access point, as long as the cache has it, and only a cache full of
\* others has not.  The channel in the table of net80211 then gives back the chanspec
\* of a 20 MHz access point; of a wider one in 5 GHz it gives no more than the
\* primary channel, "best-effort" (cyw_add_bss, cyw_bss_cs_cache_add,
\* cyw_chanspec_to_channel, cyw_chanspec_for_join).
JoinsAsHeard ==
  \A b \in Bssids : table[b] # 0 =>
    LET cs == ChanspecForJoin(b, table[b]) IN
    IF SlotsOf(b) # {} THEN cs = Encode(latest[b])
    ELSE /\ \A i \in Slots : cache[i].bssid # NoBss
         /\ \E x \in Beacons :
              /\ x.bssid = b
              /\ IF x.bw = 20 THEN cs = Encode(x) ELSE FwPrimary(cs) = x.chan

\* Not so: a join has a chanspec of its access point, wide ones included.  It takes
\* CacheSize other access points to lose the entry.
JoinsWide ==
  \A b \in Bssids : table[b] # 0 =>
    \E x \in Beacons : x.bssid = b /\ ChanspecForJoin(b, table[b]) = Encode(x)

\* When the last scan is over the flag is cleared, by the terminal event or by
\* the end of the scan, unless an event gets lost.
FlagClears ==
  scan_active ~> (~scan_active \/ lost)
=============================================================================
