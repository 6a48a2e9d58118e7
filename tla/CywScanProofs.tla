---------------------------- MODULE CywScanProofs ----------------------------
(***************************************************************************)
(* Proofs about CywScan.  The flag of the scan is sound because whoever    *)
(* sets it hands it over: cyw_do_escan to the firmware, the firmware to    *)
(* its terminal event, the event to the handler.  The cache is sound since *)
(* an entry is replaced in place and latest changes with it.               *)
(***************************************************************************)
EXTENDS CywScan, TLAPS

-----------------------------------------------------------------------------
(* The inductive invariant.                                                *)

\* A terminal event is among the events.
DoneIn(s) == \E i \in DOMAIN s : s[i].kind = "done"

\* Somebody other than cyw_do_escan will clear the flag.
Coming ==
  \/ fw # 0
  \/ DoneIn(events)
  \/ rx # << >> /\ rx.kind = "done"
  \/ \E t \in Threads : pc[t] = "clear"

\* Once the start command is accepted the flag does not depend on cyw_do_escan.
FlagSound ==
  scan_active /\ ~lost /\ pc["scan_tq"] # "start"
      /\ ~(pc["scan_tq"] = "started" /\ failed)
    => Coming

\* A BSSID in the cache was reported.
Known ==
  \A i \in Slots :
    cache[i].bssid # NoBss => latest[cache[i].bssid] \in Beacons

\* A channel in the table of net80211 was decoded from a beacon of its BSS.
TableHeard ==
  \A b \in Bssids : table[b] # 0 =>
    \E x \in Beacons : x.bssid = b /\ table[b] = ChanspecToChannel(Encode(x))

\* No entry is evicted while there is an empty slot: the slots are filled in order,
\* and until the last one is, the cache has every BSS of the table.
Full == \A i \in Slots : cache[i].bssid # NoBss

FillsFirst ==
  \/ Full
  \/ /\ \A i \in Slots : cache[i].bssid # NoBss <=> i < cache_next
     /\ \A b \in Bssids : table[b] # 0 => \E i \in Slots : cache[i].bssid = b

\* The inductive invariant.
IInv ==
  TypeOK /\ FlagSound /\ CacheIsLatest /\ Known /\ TableHeard /\ FillsFirst

\* The parts of TypeOK: the flags, ...
FlagTypes ==
  /\ net \in {"idle", "scanning", "ending"}
  /\ vap \in BOOLEAN
  /\ failed \in BOOLEAN
  /\ scan_active \in BOOLEAN
  /\ lost \in BOOLEAN

\* ... the tasks and the threads, ...
TaskTypes == tasks \in Seq({"start", "end"})
PcTypes   == pc \in [Threads -> Steps]

\* ... the firmware and its events, ...
Event == [kind : {"done", "partial"}, bss : SUBSET Beacons]

FwTypes ==
  /\ fw \in 0 .. scans
  /\ scans \in 0 .. MaxScans
  /\ reports \in 0 .. MaxReports

EventTypes ==
  /\ events \in Seq(Event)
  /\ rx \in {<< >>} \union [kind : {"done", "notify", "partial"},
                            bss : SUBSET Beacons]

\* ... and what the results leave behind.
CacheTypes ==
  /\ cache \in [Slots -> Slot]
  /\ cache_next \in Slots
  /\ table \in [Bssids -> Channels \union {0}]
  /\ latest \in [Bssids -> Beacons \union {<< >>}]

\* Together they are TypeOK.
LEMMA TypeParts ==
  TypeOK <=> /\ FlagTypes /\ TaskTypes /\ PcTypes
             /\ FwTypes /\ EventTypes /\ CacheTypes
BY DEF TypeOK, FlagTypes, TaskTypes, PcTypes, FwTypes, EventTypes, CacheTypes,
  Event

-----------------------------------------------------------------------------
(* Sequences and events.                                                   *)

\* What a sequence is with an element more.
LEMMA AppendFacts ==
  ASSUME NEW S, NEW s \in Seq(S), NEW e \in S
  PROVE  /\ Append(s, e) \in Seq(S)
         /\ Len(s) \in Nat
         /\ DOMAIN s = 1 .. Len(s)
         /\ DOMAIN Append(s, e) = 1 .. (Len(s) + 1)
         /\ \A i \in 1 .. Len(s) : Append(s, e)[i] = s[i]
         /\ Append(s, e)[Len(s) + 1] = e
OBVIOUS

\* What a sequence is without its first element.
LEMMA TailFacts ==
  ASSUME NEW S, NEW s \in Seq(S), s # << >>
  PROVE  /\ Tail(s) \in Seq(S)
         /\ Head(s) \in S
         /\ Len(s) \in Nat \ {0}
         /\ DOMAIN s = 1 .. Len(s)
         /\ Head(s) = s[1]
         /\ DOMAIN Tail(s) = 1 .. (Len(s) - 1)
         /\ \A i \in 1 .. (Len(s) - 1) : Tail(s)[i] = s[i + 1]
OBVIOUS

\* The events are records, and none is empty.
LEMMA EventFacts ==
  /\ Done \in Event /\ Done.kind = "done"
  /\ \A bss \in SUBSET Beacons : Partial(bss) \in Event
  /\ << >> \notin Event
<1>1. ASSUME << >> \in Event PROVE FALSE
  <2>1. DOMAIN << >> = {"kind", "bss"}
    BY <1>1 DEF Event
  <2>2. DOMAIN << >> = {}
    OBVIOUS
  <2> QED
    BY <2>1, <2>2
<1> QED
  BY <1>1 DEF Done, Partial, Event

\* A terminal event is still there when another event follows it, and is there
\* when it is appended.
LEMMA DoneAppend ==
  ASSUME NEW s \in Seq(Event), NEW e \in Event, DoneIn(s) \/ e.kind = "done"
  PROVE  DoneIn(Append(s, e))
<1>1. CASE DoneIn(s)
  <2>1. PICK i \in 1 .. Len(s) : s[i].kind = "done"
    BY <1>1, AppendFacts DEF DoneIn
  <2>2. i \in DOMAIN Append(s, e) /\ Append(s, e)[i].kind = "done"
    BY <2>1, AppendFacts
  <2> QED
    BY <2>2 DEF DoneIn
<1>2. CASE e.kind = "done"
  <2>1. Len(s) + 1 \in DOMAIN Append(s, e) /\ Append(s, e)[Len(s) + 1] = e
    BY AppendFacts
  <2> QED
    BY <1>2, <2>1 DEF DoneIn
<1> QED
  BY <1>1, <1>2

\* A terminal event is the first one or stays when the first is taken.
LEMMA DoneTail ==
  ASSUME NEW s \in Seq(Event), s # << >>, DoneIn(s)
  PROVE  Head(s).kind = "done" \/ DoneIn(Tail(s))
<1>1. PICK i \in 1 .. Len(s) : s[i].kind = "done"
  BY TailFacts DEF DoneIn
<1>2. CASE i = 1
  BY <1>1, <1>2, TailFacts
<1>3. CASE i # 1
  <2>1. i - 1 \in DOMAIN Tail(s) /\ Tail(s)[i - 1].kind = "done"
    BY <1>1, <1>3, TailFacts
  <2> QED
    BY <2>1 DEF DoneIn
<1> QED
  BY <1>2, <1>3

-----------------------------------------------------------------------------
(* Types.                                                                  *)

\* The flags stay flags.
LEMMA FlagTypesStep == FlagTypes /\ [Next]_vars => FlagTypes'
<1> SUFFICES ASSUME FlagTypes, [Next]_vars PROVE FlagTypes'
  OBVIOUS
<1> USE ScanAssumption
<1>1. CASE UNCHANGED <<net, vap, failed, scan_active, lost>>
  BY <1>1 DEF FlagTypes
<1>2. CASE ScanStart
  BY <1>2 DEF ScanStart, Enqueue, FlagTypes
<1>3. CASE ScanEnd
  BY <1>3 DEF ScanEnd, Enqueue, FlagTypes
<1>4. CASE VapChange
  BY <1>4 DEF VapChange, FlagTypes
<1>5. CASE StartTask
  BY <1>5 DEF StartTask, Goto, FlagTypes
<1>6. CASE StartAccepted
  BY <1>6 DEF StartAccepted, Goto, FlagTypes
<1>7. CASE StartRefused
  BY <1>7 DEF StartRefused, Goto, FlagTypes
<1>8. CASE StartReturn
  BY <1>8 DEF StartReturn, Goto, FlagTypes
<1>9. ASSUME NEW t \in Threads, AbortClear(t) PROVE FlagTypes'
  BY <1>9 DEF AbortClear, Goto, FlagTypes
<1>10. CASE RxLose
  BY <1>10 DEF RxLose, FlagTypes
<1>11. CASE HandleFlag
  BY <1>11 DEF HandleFlag, FlagTypes
<1>12. CASE HandleDone
  BY <1>12 DEF HandleDone, FlagTypes
<1>13. CASE Auth \/ Join \/ EndTask \/ (\E t \in Threads : AbortTest(t))
            \/ (\E t \in Threads : AbortSend(t)) \/ FwReport \/ FwFinish
            \/ RxDispatch \/ HandleBss \/ UNCHANGED vars
  <2> SUFFICES UNCHANGED <<net, vap, failed, scan_active, lost>>
    BY <1>1
  <2> QED
    BY <1>13 DEF Auth, Join, EndTask, AbortTest, AbortSend, FwReport, FwFinish,
      RxDispatch, HandleBss, vars
<1> QED
  BY <1>2, <1>3, <1>4, <1>5, <1>6, <1>7, <1>8, <1>9, <1>10, <1>11, <1>12, <1>13
    DEF Next, ScanTq, Abort, Handle

\* Only the two tasks are queued.
LEMMA TaskTypesStep == TaskTypes /\ [Next]_vars => TaskTypes'
<1> SUFFICES ASSUME TaskTypes, [Next]_vars PROVE TaskTypes'
  OBVIOUS
<1> USE AppendFacts, TailFacts
<1>1. CASE UNCHANGED <<tasks>>
  BY <1>1 DEF TaskTypes
<1>2. CASE ScanStart
  BY <1>2 DEF ScanStart, Enqueue, TaskTypes
<1>3. CASE ScanEnd
  BY <1>3 DEF ScanEnd, Enqueue, TaskTypes
<1>4. CASE StartTask
  BY <1>4 DEF StartTask, Goto, TaskTypes
<1>5. CASE EndTask
  BY <1>5 DEF EndTask, Goto, TaskTypes
<1>6. CASE VapChange \/ Auth \/ Join \/ StartAccepted \/ StartRefused
            \/ StartReturn \/ (\E t \in Threads : AbortTest(t))
            \/ (\E t \in Threads : AbortClear(t))
            \/ (\E t \in Threads : AbortSend(t)) \/ FwReport \/ FwFinish
            \/ RxDispatch
  <2> SUFFICES UNCHANGED <<tasks>>
    BY <1>1
  <2> QED
    BY <1>6 DEF VapChange, Auth, Join, StartAccepted, StartRefused,
      StartReturn, AbortTest, AbortClear, AbortSend, FwReport, FwFinish,
      RxDispatch
<1>7. CASE RxLose \/ HandleFlag \/ HandleDone \/ HandleBss
            \/ UNCHANGED vars
  <2> SUFFICES UNCHANGED <<tasks>>
    BY <1>1
  <2> QED
    BY <1>7 DEF RxLose, HandleFlag, HandleDone, HandleBss, vars
<1> QED
  BY <1>2, <1>3, <1>4, <1>5, <1>6, <1>7 DEF Next, ScanTq, Abort, Handle

\* The threads go from step to step.
LEMMA PcTypesStep == PcTypes /\ [Next]_vars => PcTypes'
<1> SUFFICES ASSUME PcTypes, [Next]_vars PROVE PcTypes'
  OBVIOUS
<1>1. CASE UNCHANGED <<pc>>
  BY <1>1 DEF PcTypes, Threads, Steps
<1>2. CASE Auth
  BY <1>2 DEF Auth, Goto, PcTypes, Threads, Steps
<1>3. CASE Join
  BY <1>3 DEF Join, Goto, PcTypes, Threads, Steps
<1>4. CASE StartTask
  BY <1>4 DEF StartTask, Goto, PcTypes, Threads, Steps
<1>5. CASE StartAccepted
  BY <1>5 DEF StartAccepted, Goto, PcTypes, Threads, Steps
<1>6. CASE StartRefused
  BY <1>6 DEF StartRefused, Goto, PcTypes, Threads, Steps
<1>7. CASE StartReturn
  BY <1>7 DEF StartReturn, Goto, PcTypes, Threads, Steps
<1>8. CASE EndTask
  BY <1>8 DEF EndTask, Goto, PcTypes, Threads, Steps
<1>9. ASSUME NEW t \in Threads, AbortTest(t) PROVE PcTypes'
  BY <1>9 DEF AbortTest, Goto, AfterAbort, PcTypes, Threads, Steps
<1>10. ASSUME NEW t \in Threads, AbortClear(t) PROVE PcTypes'
  BY <1>10 DEF AbortClear, Goto, PcTypes, Threads, Steps
<1>11. ASSUME NEW t \in Threads, AbortSend(t) PROVE PcTypes'
  BY <1>11 DEF AbortSend, Goto, AfterAbort, PcTypes, Threads, Steps
<1>12. CASE ScanStart \/ ScanEnd \/ VapChange \/ FwReport \/ FwFinish
            \/ RxDispatch \/ RxLose \/ HandleFlag \/ HandleDone
            \/ HandleBss \/ UNCHANGED vars
  <2> SUFFICES UNCHANGED <<pc>>
    BY <1>1
  <2> QED
    BY <1>12 DEF ScanStart, ScanEnd, VapChange, FwReport, FwFinish, RxDispatch,
      RxLose, HandleFlag, HandleDone, HandleBss, vars
<1> QED
  BY <1>2, <1>3, <1>4, <1>5, <1>6, <1>7, <1>8, <1>9, <1>10, <1>11, <1>12 DEF
    Next, ScanTq, Abort, Handle

\* The firmware runs one of the scans it has accepted.
LEMMA FwTypesStep == FwTypes /\ [Next]_vars => FwTypes'
<1> SUFFICES ASSUME FwTypes, [Next]_vars PROVE FwTypes'
  OBVIOUS
<1> USE ScanAssumption
<1>1. CASE UNCHANGED <<fw, scans, reports>>
  BY <1>1 DEF FwTypes
<1>2. CASE StartAccepted
  BY <1>2 DEF StartAccepted, Goto, FwTypes
<1>3. ASSUME NEW t \in Threads, AbortSend(t) PROVE FwTypes'
  BY <1>3 DEF AbortSend, Goto, AfterAbort, FwTypes
<1>4. CASE FwReport
  BY <1>4 DEF FwReport, FwTypes
<1>5. CASE FwFinish
  BY <1>5 DEF FwFinish, FwTypes
<1>6. CASE ScanStart \/ ScanEnd \/ VapChange \/ Auth \/ Join \/ StartTask
            \/ StartRefused \/ StartReturn \/ EndTask
            \/ (\E t \in Threads : AbortTest(t))
            \/ (\E t \in Threads : AbortClear(t)) \/ RxDispatch
  <2> SUFFICES UNCHANGED <<fw, scans, reports>>
    BY <1>1
  <2> QED
    BY <1>6 DEF ScanStart, ScanEnd, VapChange, Auth, Join, StartTask,
      StartRefused, StartReturn, EndTask, AbortTest, AbortClear, RxDispatch,
      fwVars
<1>7. CASE RxLose \/ HandleFlag \/ HandleDone \/ HandleBss
            \/ UNCHANGED vars
  <2> SUFFICES UNCHANGED <<fw, scans, reports>>
    BY <1>1
  <2> QED
    BY <1>7 DEF RxLose, HandleFlag, HandleDone, HandleBss, vars, fwVars
<1> QED
  BY <1>2, <1>3, <1>4, <1>5, <1>6, <1>7 DEF Next, ScanTq, Abort, Handle

\* What is reported is what was in an event.
LEMMA EventTypesStep == EventTypes /\ [Next]_vars => EventTypes'
<1> SUFFICES ASSUME EventTypes, [Next]_vars PROVE EventTypes'
  OBVIOUS
<1>1. CASE UNCHANGED <<events, rx>>
  BY <1>1 DEF EventTypes
<1>2. CASE StartAccepted
  <2>1. events' \in {events, Append(events, Done)} /\ rx' = rx
    BY <1>2 DEF StartAccepted
  <2> QED
    BY <2>1, AppendFacts, EventFacts DEF EventTypes
<1>3. ASSUME NEW t \in Threads, AbortSend(t) PROVE EventTypes'
  <2>1. events' \in {events, Append(events, Done)} /\ rx' = rx
    BY <1>3 DEF AbortSend
  <2> QED
    BY <2>1, AppendFacts, EventFacts DEF EventTypes
<1>4. CASE FwReport
  <2>1. PICK bss \in {{}} \union {{b} : b \in Beacons} :
               events' = Append(events, Partial(bss))
    BY <1>4 DEF FwReport
  <2>2. bss \in SUBSET Beacons /\ rx' = rx
    BY <1>4 DEF FwReport
  <2> QED
    BY <2>1, <2>2, AppendFacts, EventFacts DEF EventTypes
<1>5. CASE FwFinish
  <2>1. events' = Append(events, Done) /\ rx' = rx
    BY <1>5 DEF FwFinish
  <2> QED
    BY <2>1, AppendFacts, EventFacts DEF EventTypes
<1>6. CASE RxDispatch
  <2>1. /\ events \in Seq(Event) /\ events # << >>
        /\ rx' = Head(events) /\ events' = Tail(events)
    BY <1>6 DEF RxDispatch, EventTypes
  <2>2. rx' \in Event /\ events' \in Seq(Event)
    BY <2>1, TailFacts
  <2> QED
    BY <2>2 DEF EventTypes, Event
<1>7. CASE RxLose
  <2>1. /\ events \in Seq(Event) /\ events # << >>
        /\ rx' = rx /\ events' = Tail(events)
    BY <1>7 DEF RxLose, EventTypes
  <2>2. events' \in Seq(Event)
    BY <2>1, TailFacts
  <2> QED
    BY <2>1, <2>2 DEF EventTypes
<1>8. CASE HandleFlag
  BY <1>8 DEF HandleFlag, fwVars, EventTypes
<1>9. CASE HandleDone
  BY <1>9 DEF HandleDone, fwVars, EventTypes
<1>10. CASE HandleBss
  BY <1>10 DEF HandleBss, AddBss, CacheAdd, fwVars, EventTypes
<1>11. CASE ScanStart \/ ScanEnd \/ VapChange \/ Auth \/ Join \/ StartTask
            \/ StartRefused \/ StartReturn \/ EndTask
            \/ (\E t \in Threads : AbortTest(t))
            \/ (\E t \in Threads : AbortClear(t)) \/ UNCHANGED vars
  <2> SUFFICES UNCHANGED <<events, rx>>
    BY <1>1
  <2> QED
    BY <1>11 DEF ScanStart, ScanEnd, VapChange, Auth, Join, StartTask,
      StartRefused, StartReturn, EndTask, AbortTest, AbortClear, vars, fwVars
<1> QED
  BY <1>2, <1>3, <1>4, <1>5, <1>6, <1>7, <1>8, <1>9, <1>10, <1>11 DEF Next,
    ScanTq, Abort, Handle

\* The slots are numbers and cache_next stays one of them.
LEMMA SlotFacts ==
  /\ \A i \in Slots : i \in Nat
  /\ \A i \in Slots : (i + 1) % CacheSize \in Slots
BY ScanAssumption DEF Slots

\* The first slot for a BSSID is the one slot there is for it.
LEMMA OneSlot ==
  ASSUME CacheIsLatest, NEW b, b # NoBss, SlotsOf(b) # {}
  PROVE  /\ FirstSlot(b) \in Slots
         /\ cache[FirstSlot(b)].bssid = b
         /\ \A j \in Slots : cache[j].bssid = b => j = FirstSlot(b)
<1>1. PICK i \in Slots : cache[i].bssid = b
  BY DEF SlotsOf
<1>2. \A j \in Slots : cache[j].bssid = b => j = i
  BY <1>1 DEF CacheIsLatest
<1>3. SlotsOf(b) = {i}
  BY <1>1, <1>2 DEF SlotsOf
<1>4. \E k \in SlotsOf(b) : \A j \in SlotsOf(b) : k <= j
  <2>1. i \in SlotsOf(b) /\ \A j \in SlotsOf(b) : i <= j
    BY <1>3, SlotFacts
  <2> QED
    BY <2>1
<1>5. FirstSlot(b) \in SlotsOf(b)
  BY <1>4 DEF FirstSlot
<1>6. FirstSlot(b) = i
  BY <1>3, <1>5
<1> QED
  BY <1>1, <1>2, <1>6

\* What cyw_bss_cs_cache_add does to the cache: one slot gets the entry, and it
\* is the only one with the BSSID.
LEMMA CacheAdded ==
  ASSUME CacheTypes, CacheIsLatest, NEW b \in Beacons, CacheAdd(b.bssid, Encode(b))
  PROVE  /\ cache_next' \in Slots
         /\ \E k \in Slots :
              /\ cache' = [cache EXCEPT ![k] = [bssid |-> b.bssid, cs |-> Encode(b)]]
              /\ \A j \in Slots : cache[j].bssid = b.bssid => j = k
<1>1. b.bssid # NoBss
  BY ScanAssumption
<1>2. CASE SlotsOf(b.bssid) # {}
  <2> DEFINE k == FirstSlot(b.bssid)
  <2>1. /\ cache' = [cache EXCEPT ![k].cs = Encode(b)]
        /\ cache_next' = cache_next
    BY <1>2 DEF CacheAdd
  <2>2. /\ k \in Slots
        /\ cache[k].bssid = b.bssid
        /\ \A j \in Slots : cache[j].bssid = b.bssid => j = k
    BY <1>1, <1>2, OneSlot
  <2> HIDE DEF k
  <2>3. cache[k] \in Slot
    BY <2>2 DEF CacheTypes
  <2>4. [cache[k] EXCEPT !.cs = Encode(b)] = [bssid |-> b.bssid, cs |-> Encode(b)]
    BY <2>2, <2>3 DEF Slot
  <2>5. cache' = [cache EXCEPT ![k] = [bssid |-> b.bssid, cs |-> Encode(b)]]
    BY <2>1, <2>4
  <2> QED
    BY <2>1, <2>2, <2>5 DEF CacheTypes
<1>3. CASE SlotsOf(b.bssid) = {}
  <2>1. /\ cache' = [cache EXCEPT ![cache_next] = [bssid |-> b.bssid,
                                                   cs |-> Encode(b)]]
        /\ cache_next' = (cache_next + 1) % CacheSize
    BY <1>3 DEF CacheAdd
  <2>2. \A j \in Slots : cache[j].bssid # b.bssid
    BY <1>3 DEF SlotsOf
  <2> QED
    BY <2>1, <2>2, SlotFacts DEF CacheTypes
<1> QED
  BY <1>2, <1>3

\* The results of an event are beacons.
LEMMA ResultsHeard ==
  ASSUME EventTypes, HandleBss
  PROVE  (\E b \in Beacons : AddBss(b)) \/ UNCHANGED cacheVars
<1>1. rx \in [kind : {"done", "notify", "partial"}, bss : SUBSET Beacons]
  BY DEF EventTypes, HandleBss
<1>2. rx.bss \subseteq Beacons
  BY <1>1
<1> QED
  BY <1>2 DEF HandleBss

\* The cache, the table and the history keep their types.
LEMMA CacheTypesStep ==
  EventTypes /\ CacheTypes /\ CacheIsLatest /\ [Next]_vars
    => CacheTypes'
<1> SUFFICES ASSUME EventTypes, CacheTypes, CacheIsLatest, [Next]_vars
             PROVE  CacheTypes'
  OBVIOUS
<1>1. CASE UNCHANGED <<cache, cache_next, table, latest>>
  BY <1>1 DEF CacheTypes
<1>2. CASE HandleBss
  <2>1. CASE UNCHANGED cacheVars
    BY <2>1 DEF CacheTypes, cacheVars
  <2>2. ASSUME NEW b \in Beacons, AddBss(b) PROVE CacheTypes'
    <3>1. CacheAdd(b.bssid, Encode(b)) /\ b.bssid \in Bssids
      BY <2>2 DEF AddBss, Bssids
    <3>2. [bssid |-> b.bssid, cs |-> Encode(b)] \in Slot
      BY <3>1, ChanspecAssumption DEF Slot
    <3>3. cache' \in [Slots -> Slot] /\ cache_next' \in Slots
      BY <3>1, <3>2, CacheAdded DEF CacheTypes
    <3>4. latest' \in [Bssids -> Beacons \union {<< >>}]
      BY <2>2, <3>1 DEF AddBss, CacheTypes
    <3>5. table' \in [Bssids -> Channels \union {0}]
      BY <2>2, <3>1 DEF AddBss, CacheTypes
    <3> QED
      BY <3>3, <3>4, <3>5 DEF CacheTypes
  <2> QED
    BY <1>2, <2>1, <2>2, ResultsHeard
<1>3. CASE ScanStart \/ ScanEnd \/ VapChange \/ Auth \/ Join \/ StartTask
            \/ StartAccepted \/ StartRefused \/ StartReturn \/ EndTask
            \/ (\E t \in Threads : AbortTest(t))
            \/ (\E t \in Threads : AbortClear(t))
  <2> SUFFICES UNCHANGED <<cache, cache_next, table, latest>>
    BY <1>1
  <2> QED
    BY <1>3 DEF ScanStart, ScanEnd, VapChange, Auth, Join, StartTask,
      StartAccepted, StartRefused, StartReturn, EndTask, AbortTest, AbortClear,
      cacheVars
<1>4. CASE (\E t \in Threads : AbortSend(t)) \/ FwReport \/ FwFinish
            \/ RxDispatch \/ RxLose \/ HandleFlag \/ HandleDone
            \/ UNCHANGED vars
  <2> SUFFICES UNCHANGED <<cache, cache_next, table, latest>>
    BY <1>1
  <2> QED
    BY <1>4 DEF AbortSend, FwReport, FwFinish, RxDispatch, RxLose, HandleFlag,
      HandleDone, vars, cacheVars
<1> QED
  BY <1>2, <1>3, <1>4 DEF Next, ScanTq, Abort, Handle

\* Every action keeps the types.
LEMMA TypeStep == TypeOK /\ CacheIsLatest /\ [Next]_vars => TypeOK'
<1>1. ASSUME TypeOK, CacheIsLatest, [Next]_vars
      PROVE  /\ FlagTypes' /\ TaskTypes' /\ PcTypes'
             /\ FwTypes' /\ EventTypes' /\ CacheTypes'
  BY <1>1, TypeParts, FlagTypesStep, TaskTypesStep, PcTypesStep, FwTypesStep,
    EventTypesStep, CacheTypesStep
<1>2. (/\ FlagTypes /\ TaskTypes /\ PcTypes
       /\ FwTypes /\ EventTypes /\ CacheTypes)' => TypeOK'
  BY DEF TypeOK, FlagTypes, TaskTypes, PcTypes, FwTypes, EventTypes, CacheTypes,
    Event
<1> QED
  BY <1>1, <1>2

-----------------------------------------------------------------------------
(* The flag.                                                               *)

\* Whoever lets go of the flag has handed it over.
LEMMA FlagStep ==
  FwTypes /\ EventTypes /\ PcTypes /\ FlagSound /\ [Next]_vars
    => FlagSound'
<1> SUFFICES ASSUME FwTypes, EventTypes, PcTypes, FlagSound, [Next]_vars
             PROVE  FlagSound'
  OBVIOUS
<1>1. CASE UNCHANGED <<pc, failed, scan_active, fw, events, rx, lost>>
  BY <1>1 DEF FlagSound, Coming, PcTypes, Threads
<1>2. CASE Auth
  BY <1>2 DEF Auth, Goto, fwVars, FlagSound, Coming, PcTypes, Threads
<1>3. CASE Join
  BY <1>3 DEF Join, Goto, fwVars, FlagSound, Coming, PcTypes, Threads
<1>4. CASE StartTask
  BY <1>4 DEF StartTask, Goto, fwVars, FlagSound, Coming, PcTypes, Threads
<1>5. CASE StartAccepted
  <2>1. fw' # 0
    BY <1>5 DEF StartAccepted, FwTypes
  <2> QED
    BY <2>1 DEF FlagSound, Coming
<1>6. CASE StartRefused
  BY <1>6 DEF StartRefused, Goto, fwVars, FlagSound, Coming, PcTypes, Threads
<1>7. CASE StartReturn
  BY <1>7 DEF StartReturn, Goto, fwVars, FlagSound, Coming, PcTypes, Threads
<1>8. CASE EndTask
  BY <1>8 DEF EndTask, Goto, fwVars, FlagSound, Coming, PcTypes, Threads
<1>9. ASSUME NEW t \in Threads, AbortTest(t) PROVE FlagSound'
  BY <1>9 DEF AbortTest, Goto, AfterAbort, fwVars, FlagSound, Coming, PcTypes,
    Threads
<1>10. ASSUME NEW t \in Threads, AbortClear(t) PROVE FlagSound'
  BY <1>10 DEF AbortClear, Goto, fwVars, FlagSound, Coming, PcTypes, Threads
<1>11. ASSUME NEW t \in Threads, AbortSend(t) PROVE FlagSound'
  <2>1. Coming => Coming'
    <3>1. CASE events' = Append(events, Done)
      BY <3>1, EventFacts, DoneAppend DEF EventTypes, Coming
    <3>2. CASE UNCHANGED <<events, fw>>
      BY <1>11, <3>2 DEF AbortSend, Goto, Coming, PcTypes
    <3> QED
      BY <1>11, <3>1, <3>2 DEF AbortSend
  <2>2. /\ pc'["scan_tq"] # "start" => pc["scan_tq"] # "start"
        /\ pc["scan_tq"] = "started" => pc'["scan_tq"] = "started"
    BY <1>11 DEF AbortSend, Goto, PcTypes, Threads
  <2> QED
    BY <1>11, <2>1, <2>2 DEF AbortSend, FlagSound
<1>12. CASE FwReport
  <2>1. Coming => Coming'
    <3>1. PICK bss \in SUBSET Beacons : events' = Append(events, Partial(bss))
      BY <1>12 DEF FwReport
    <3>2. DoneIn(events) => DoneIn(events')
      BY <3>1, EventFacts, DoneAppend DEF EventTypes
    <3> QED
      BY <1>12, <3>2 DEF FwReport, Coming
  <2> QED
    BY <1>12, <2>1 DEF FwReport, FlagSound
<1>13. CASE FwFinish
  <2>1. events' = Append(events, Done)
    BY <1>13 DEF FwFinish
  <2>2. Coming'
    BY <2>1, EventFacts, DoneAppend DEF EventTypes, Coming
  <2> QED
    BY <2>2 DEF FlagSound
<1>14. CASE RxDispatch
  <2>1. Coming => Coming'
    <3>1. /\ events \in Seq(Event) /\ events # << >>
          /\ rx = << >> /\ rx' = Head(events) /\ events' = Tail(events)
          /\ UNCHANGED <<fw, pc>>
      BY <1>14 DEF RxDispatch, EventTypes
    <3>2. rx' # << >>
      BY <3>1, TailFacts, EventFacts
    <3>3. DoneIn(events) => rx'.kind = "done" \/ DoneIn(events')
      BY <3>1, DoneTail
    <3> QED
      BY <3>1, <3>2, <3>3 DEF Coming
  <2> QED
    BY <1>14, <2>1 DEF RxDispatch, FlagSound
<1>15. CASE RxLose
  BY <1>15 DEF RxLose, FlagSound, Coming, PcTypes, Threads
<1>16. CASE HandleFlag
  BY <1>16 DEF HandleFlag, fwVars, FlagSound, Coming, PcTypes, Threads
<1>17. CASE HandleDone
  BY <1>17 DEF HandleDone, fwVars, FlagSound, Coming, PcTypes, Threads
<1>18. CASE HandleBss
  BY <1>18 DEF HandleBss, AddBss, CacheAdd, fwVars, FlagSound, Coming, PcTypes,
    Threads
<1>19. CASE ScanStart \/ ScanEnd \/ VapChange \/ UNCHANGED vars
  <2> SUFFICES UNCHANGED <<pc, failed, scan_active, fw, events, rx, lost>>
    BY <1>1
  <2> QED
    BY <1>19 DEF ScanStart, ScanEnd, VapChange, vars, fwVars
<1> QED
  BY <1>2, <1>3, <1>4, <1>5, <1>6, <1>7, <1>8, <1>9, <1>10, <1>11, <1>12,
    <1>13, <1>14, <1>15, <1>16, <1>17, <1>18, <1>19 DEF Next, ScanTq, Abort,
    Handle

-----------------------------------------------------------------------------
(* The cache and the table.                                                *)

\* A beacon replaces what the cache and the history have for its BSSID together.
LEMMA CacheStep ==
  EventTypes /\ CacheTypes /\ CacheIsLatest /\ Known /\ [Next]_vars
    => CacheIsLatest' /\ Known'
<1> SUFFICES ASSUME EventTypes, CacheTypes, CacheIsLatest, Known, [Next]_vars
             PROVE  CacheIsLatest' /\ Known'
  OBVIOUS
<1>1. CASE UNCHANGED cacheVars
  BY <1>1 DEF CacheIsLatest, Known, cacheVars
<1>2. ASSUME NEW b \in Beacons, AddBss(b)
      PROVE  CacheIsLatest' /\ Known'
  <2>1. CacheAdd(b.bssid, Encode(b)) /\ b.bssid \in Bssids
    BY <1>2 DEF AddBss, Bssids
  <2>2. /\ latest'[b.bssid] = b
        /\ \A x \in Bssids : x # b.bssid => latest'[x] = latest[x]
    BY <1>2, <2>1 DEF AddBss, CacheTypes
  <2>3. PICK k \in Slots :
          /\ cache' = [cache EXCEPT ![k] = [bssid |-> b.bssid, cs |-> Encode(b)]]
          /\ \A j \in Slots : cache[j].bssid = b.bssid => j = k
    BY <2>1, CacheAdded
  <2>4. /\ cache'[k].bssid = b.bssid /\ cache'[k].cs = Encode(b)
        /\ \A j \in Slots : j # k => cache'[j] = cache[j] /\ cache[j].bssid # b.bssid
    BY <2>3 DEF CacheTypes
  <2>5. \A j \in Slots : cache[j].bssid # NoBss => cache[j].bssid \in Bssids
    BY DEF CacheTypes, Slot
  <2> QED
    BY <2>2, <2>4, <2>5 DEF CacheIsLatest, Known
<1>3. CASE HandleBss
  BY <1>1, <1>2, <1>3, ResultsHeard
<1>4. CASE ~HandleBss
  <2> SUFFICES UNCHANGED cacheVars
    BY <1>1
  <2> QED
    BY <1>4 DEF Next, ScanTq, Abort, Handle, ScanStart, ScanEnd, VapChange,
      Auth, Join, StartTask, StartAccepted, StartRefused, StartReturn, EndTask,
      AbortTest, AbortClear, AbortSend, FwReport, FwFinish, RxDispatch, RxLose,
      HandleFlag, HandleDone, vars
<1> QED
  BY <1>3, <1>4

\* A channel enters the table only from a beacon of the BSS.
LEMMA TableStep ==
  EventTypes /\ CacheTypes /\ TableHeard /\ [Next]_vars => TableHeard'
<1> SUFFICES ASSUME EventTypes, CacheTypes, TableHeard, [Next]_vars
             PROVE  TableHeard'
  OBVIOUS
<1>1. CASE UNCHANGED cacheVars
  BY <1>1 DEF TableHeard, cacheVars
<1>2. ASSUME NEW b \in Beacons, AddBss(b) PROVE TableHeard'
  <2>1. /\ b.bssid \in Bssids
        /\ \/ table' = table
           \/ table' = [table EXCEPT ![b.bssid] = ChanspecToChannel(Encode(b))]
    BY <1>2 DEF AddBss, Bssids
  <2> QED
    BY <2>1 DEF TableHeard, CacheTypes
<1>3. CASE HandleBss
  BY <1>1, <1>2, <1>3, ResultsHeard
<1>4. CASE ~HandleBss
  <2> SUFFICES UNCHANGED cacheVars
    BY <1>1
  <2> QED
    BY <1>4 DEF Next, ScanTq, Abort, Handle, ScanStart, ScanEnd, VapChange,
      Auth, Join, StartTask, StartAccepted, StartRefused, StartReturn, EndTask,
      AbortTest, AbortClear, AbortSend, FwReport, FwFinish, RxDispatch, RxLose,
      HandleFlag, HandleDone, vars
<1> QED
  BY <1>3, <1>4

\* cyw_bss_cs_cache_add replaces in place, or goes on to the next slot.
LEMMA FillStep ==
  EventTypes /\ CacheTypes /\ CacheIsLatest /\ FillsFirst /\ [Next]_vars
    => FillsFirst'
<1> SUFFICES ASSUME EventTypes, CacheTypes, CacheIsLatest, FillsFirst, [Next]_vars
             PROVE  FillsFirst'
  OBVIOUS
<1>1. CASE UNCHANGED cacheVars
  BY <1>1 DEF FillsFirst, Full, cacheVars
<1>2. ASSUME NEW b \in Beacons, AddBss(b) PROVE FillsFirst'
  <2>1. /\ CacheAdd(b.bssid, Encode(b))
        /\ b.bssid \in Bssids /\ b.bssid # NoBss
        /\ \A x \in Bssids : x # b.bssid => table'[x] = table[x]
    BY <1>2, ScanAssumption DEF AddBss, Bssids, CacheTypes
  <2>2. CASE Full
    <3>1. PICK k \in Slots :
            cache' = [cache EXCEPT ![k] = [bssid |-> b.bssid, cs |-> Encode(b)]]
      BY <2>1, CacheAdded
    <3>2. Full'
      BY <2>1, <2>2, <3>1 DEF Full, CacheTypes
    <3> QED
      BY <3>2 DEF FillsFirst
  <2>3. CASE ~Full /\ SlotsOf(b.bssid) # {}
    <3>1. /\ FirstSlot(b.bssid) \in Slots
          /\ cache[FirstSlot(b.bssid)].bssid = b.bssid
          /\ \A j \in Slots : cache[j].bssid = b.bssid => j = FirstSlot(b.bssid)
      BY <2>1, <2>3, OneSlot
    <3>2. PICK k \in Slots :
            /\ cache' = [cache EXCEPT ![k] = [bssid |-> b.bssid, cs |-> Encode(b)]]
            /\ \A j \in Slots : cache[j].bssid = b.bssid => j = k
      BY <2>1, CacheAdded
    <3>3. \A i \in Slots : cache'[i].bssid = cache[i].bssid
      BY <3>1, <3>2 DEF CacheTypes
    <3>4. cache_next' = cache_next
      BY <2>1, <2>3 DEF CacheAdd
    <3> QED
      BY <2>1, <2>3, <3>1, <3>3, <3>4 DEF FillsFirst
  <2>4. CASE ~Full /\ SlotsOf(b.bssid) = {}
    <3>1. /\ cache' = [cache EXCEPT ![cache_next] = [bssid |-> b.bssid,
                                                     cs |-> Encode(b)]]
          /\ cache_next' = (cache_next + 1) % CacheSize
          /\ cache_next \in Slots
      BY <2>1, <2>4 DEF CacheAdd, CacheTypes
    <3>2. /\ cache'[cache_next].bssid = b.bssid
          /\ \A i \in Slots : i # cache_next => cache'[i] = cache[i]
      BY <3>1 DEF CacheTypes
    <3>3. /\ \A i \in Slots : cache[i].bssid # NoBss <=> i < cache_next
          /\ \A x \in Bssids :
               table[x] # 0 => \E i \in Slots : cache[i].bssid = x
      BY <2>4 DEF FillsFirst
    <3>4. \A x \in Bssids : x # NoBss
      BY ScanAssumption DEF Bssids
    <3>5. \A x \in Bssids : table'[x] # 0 => \E i \in Slots : cache'[i].bssid = x
      <4>1. cache[cache_next].bssid = NoBss
        BY <3>1, <3>3, SlotFacts
      <4> QED
        BY <2>1, <3>1, <3>2, <3>3, <3>4, <4>1
    <3>6. CASE cache_next + 1 < CacheSize
      <4>1. cache_next' = cache_next + 1
        BY <3>1, <3>6, ScanAssumption DEF Slots
      <4>2. \A i \in Slots : cache'[i].bssid # NoBss <=> i < cache_next'
        BY <2>1, <3>1, <3>2, <3>3, <4>1, SlotFacts
      <4> QED
        BY <3>5, <4>2 DEF FillsFirst
    <3>7. CASE ~(cache_next + 1 < CacheSize)
      <4>1. \A i \in Slots : i # cache_next => i < cache_next
        BY <3>1, <3>7, ScanAssumption DEF Slots
      <4>2. Full'
        BY <2>1, <3>2, <3>3, <4>1 DEF Full
      <4> QED
        BY <4>2 DEF FillsFirst
    <3> QED
      BY <3>6, <3>7
  <2> QED
    BY <2>2, <2>3, <2>4
<1>3. CASE HandleBss
  BY <1>1, <1>2, <1>3, ResultsHeard
<1>4. CASE ~HandleBss
  <2> SUFFICES UNCHANGED cacheVars
    BY <1>1
  <2> QED
    BY <1>4 DEF Next, ScanTq, Abort, Handle, ScanStart, ScanEnd, VapChange,
      Auth, Join, StartTask, StartAccepted, StartRefused, StartReturn, EndTask,
      AbortTest, AbortClear, AbortSend, FwReport, FwFinish, RxDispatch, RxLose,
      HandleFlag, HandleDone, vars
<1> QED
  BY <1>3, <1>4

-----------------------------------------------------------------------------
(* The invariant.                                                          *)

\* It holds when the driver is attached.
LEMMA InitInv == Init => IInv
<1> SUFFICES ASSUME Init PROVE IInv
  OBVIOUS
<1>1. FlagTypes /\ TaskTypes /\ PcTypes /\ FwTypes /\ EventTypes
  <2>1. FlagTypes
    <3>1. net \in {"idle", "scanning", "ending"}
      BY DEF Init
    <3>2. {vap, failed, scan_active, lost} \subseteq BOOLEAN
      BY DEF Init
    <3> QED
      BY <3>1, <3>2 DEF FlagTypes
  <2>2. TaskTypes /\ EventTypes
    BY DEF Init, TaskTypes, EventTypes
  <2>3. PcTypes
    BY DEF Init, PcTypes, Threads, Steps
  <2>4. FwTypes
    BY ScanAssumption DEF Init, FwTypes
  <2> QED
    BY <2>1, <2>2, <2>3, <2>4
<1>2. CacheTypes
  <2>1. 0 \in Slots /\ 0 \in Chanspecs
    BY ScanAssumption DEF Slots, Chanspecs
  <2> QED
    BY <2>1 DEF Init, CacheTypes, Slot
<1>3. FlagSound
  BY DEF Init, FlagSound
<1>4. CacheIsLatest /\ Known /\ TableHeard
  BY DEF Init, CacheIsLatest, Known, TableHeard
<1>5. FillsFirst
  BY SlotFacts DEF Init, FillsFirst
<1> QED
  BY <1>1, <1>2, <1>3, <1>4, <1>5, TypeParts DEF IInv

\* It holds in every state.
LEMMA Invariant == Spec => []IInv
<1>1. IInv /\ [Next]_vars => IInv'
  BY TypeParts, TypeStep, FlagStep, CacheStep, TableStep, FillStep DEF IInv
<1> QED
  BY <1>1, InitInv, PTL DEF Spec

\* Neither scan_active nor the cache outlives what it is about: a flag that is
\* set has somebody to clear it, as long as no event is lost, and an entry of the
\* cache is the chanspec last reported, the only one for its BSSID (cyw_do_escan,
\* cyw_abort_escan, cyw_escan_result_handler, cyw_bss_cs_cache_add).
THEOREM ScanSound == Spec => []ScanStateSound
<1>1. IInv => ScanStateSound
  BY DEF IInv, ScanStateSound, FlagNeverSticks, ToBeCleared, FlagSound, Coming,
    DoneIn
<1> QED
  BY <1>1, Invariant, PTL

-----------------------------------------------------------------------------
(* Chanspecs.                                                              *)

\* What the driver and the firmware take from the chanspec of each form.
LEMMA FormDecodes ==
  ASSUME NEW b, Form(b)
  PROVE  /\ FwPrimary(Encode(b)) = b.chan
         /\ ChanspecToChannel(Encode(b)) = b.chan
         /\ b.chan \in 1 .. 177
<1>1. ASSUME NEW c \in 1 .. 14, b.band = 2, b.bw = 20, b.pos = 0, b.chan = c
      PROVE  /\ FwPrimary(Encode(b)) = c
             /\ ChanspecToChannel(Encode(b)) = c
  <2>1. Encode(b) = \h1000 + c
    BY <1>1 DEF Encode, Width, Above
  <2> QED
    BY <2>1 DEF FwPrimary, ChanspecToChannel, Band5G, Bits, Above
<1>2. ASSUME NEW c \in 36 .. 177, b.band = 5, b.bw = 20, b.pos = 0, b.chan = c
      PROVE  /\ FwPrimary(Encode(b)) = c
             /\ ChanspecToChannel(Encode(b)) = c
  <2>1. Encode(b) = \hD000 + c
    BY <1>2 DEF Encode, Width, Above
  <2> QED
    BY <2>1 DEF FwPrimary, ChanspecToChannel, Band5G, Bits, Above
<1>3. ASSUME NEW c \in 36 .. 177, NEW p \in 0 .. 1,
             b.band = 5, b.bw = 40, b.pos = p, b.chan = c
      PROVE  /\ FwPrimary(Encode(b)) = c
             /\ ChanspecToChannel(Encode(b)) = c
  <2>1. Encode(b) = \hD800 + \h100 * p + c + 2 - 4 * p
    BY <1>3 DEF Encode, Width, Above
  <2>2. CASE p = 0
    BY <2>1, <2>2 DEF FwPrimary, ChanspecToChannel, Band5G, Bits, Above
  <2>3. CASE p = 1
    BY <2>1, <2>3 DEF FwPrimary, ChanspecToChannel, Band5G, Bits, Above
  <2> QED
    BY <2>2, <2>3
<1>4. ASSUME NEW c \in 36 .. 177, NEW p \in 0 .. 3,
             b.band = 5, b.bw = 80, b.pos = p, b.chan = c
      PROVE  /\ FwPrimary(Encode(b)) = c
             /\ ChanspecToChannel(Encode(b)) = c
  <2>1. Encode(b) = \hE000 + \h100 * p + c + 6 - 4 * p
    BY <1>4 DEF Encode, Width, Above
  <2>2. CASE p = 0
    BY <2>1, <2>2 DEF FwPrimary, ChanspecToChannel, Band5G, Bits, Above
  <2>3. CASE p = 1
    BY <2>1, <2>3 DEF FwPrimary, ChanspecToChannel, Band5G, Bits, Above
  <2>4. CASE p = 2
    BY <2>1, <2>4 DEF FwPrimary, ChanspecToChannel, Band5G, Bits, Above
  <2>5. CASE p = 3
    BY <2>1, <2>5, SMTT(20) DEF FwPrimary, ChanspecToChannel, Band5G, Bits,
      Above
  <2> QED
    BY <2>2, <2>3, <2>4, <2>5
<1> QED
  BY <1>1, <1>2, <1>3, <1>4, SMTT(20) DEF Form

\* The firmware takes the channel of the simple form.
LEMMA SimplePrimary ==
  ASSUME NEW c \in 1 .. 177
  PROVE  FwPrimary(SimpleChanspec(c)) = c
<1>1. CASE c <= 14
  <2>1. SimpleChanspec(c) = \h1000 + c
    BY <1>1 DEF SimpleChanspec
  <2> QED
    BY <2>1 DEF FwPrimary, Bits, Above
<1>2. CASE c > 14
  <2>1. SimpleChanspec(c) = \hD000 + c
    BY <1>2 DEF SimpleChanspec
  <2> QED
    BY <2>1 DEF FwPrimary, Bits, Above
<1> QED
  BY <1>1, <1>2

\* The simple form is the chanspec of a 20 MHz access point.
LEMMA SimpleEncodes ==
  ASSUME NEW b, Form(b), b.bw = 20
  PROVE  SimpleChanspec(b.chan) = Encode(b)
<1>1. CASE b.band = 2
  BY <1>1 DEF Form, SimpleChanspec, Encode, Width, Above
<1>2. CASE b.band = 5
  BY <1>2 DEF Form, SimpleChanspec, Encode, Width, Above
<1> QED
  BY <1>1, <1>2 DEF Form

\* The chanspec of a join is the whole one last reported for the access point while
\* the cache has it, and only a cache full of others has not; the table then gives
\* back the chanspec of a 20 MHz access point, and no more than the primary channel
\* of a wider one, for access points of the forms the driver decodes (cyw_add_bss,
\* cyw_bss_cs_cache_add, cyw_chanspec_to_channel, cyw_chanspec_for_join).
THEOREM JoinChanspec ==
  ASSUME \A b \in Beacons : Form(b)
  PROVE  Spec => []JoinsAsHeard
<1>1. ASSUME IInv, NEW b \in Bssids, table[b] # 0, SlotsOf(b) # {}
      PROVE  ChanspecForJoin(b, table[b]) = Encode(latest[b])
  <2>1. b # NoBss
    BY ScanAssumption DEF Bssids
  <2>2. /\ FirstSlot(b) \in Slots
        /\ cache[FirstSlot(b)].bssid = b
    BY <1>1, <2>1, OneSlot DEF IInv
  <2>3. cache[FirstSlot(b)].cs = Encode(latest[b])
    BY <1>1, <2>1, <2>2 DEF IInv, CacheIsLatest
  <2> QED
    BY <1>1, <2>3 DEF ChanspecForJoin
<1>2. ASSUME IInv, NEW b \in Bssids, table[b] # 0, SlotsOf(b) = {}
      PROVE  \A i \in Slots : cache[i].bssid # NoBss
  BY <1>2 DEF IInv, FillsFirst, Full, SlotsOf
<1>3. ASSUME IInv, NEW b \in Bssids, table[b] # 0, SlotsOf(b) = {}
      PROVE  \E x \in Beacons :
               /\ x.bssid = b
               /\ IF x.bw = 20 THEN ChanspecForJoin(b, table[b]) = Encode(x)
                  ELSE FwPrimary(ChanspecForJoin(b, table[b])) = x.chan
  <2>1. PICK x \in Beacons :
          x.bssid = b /\ table[b] = ChanspecToChannel(Encode(x))
    BY <1>3 DEF IInv, TableHeard
  <2>2. table[b] = x.chan /\ x.chan \in 1 .. 177
    BY <2>1, FormDecodes
  <2>3. ChanspecForJoin(b, table[b]) = SimpleChanspec(x.chan)
    BY <1>3, <2>2 DEF ChanspecForJoin
  <2>4. FwPrimary(SimpleChanspec(x.chan)) = x.chan
    BY <2>2, SimplePrimary
  <2>5. x.bw = 20 => SimpleChanspec(x.chan) = Encode(x)
    BY SimpleEncodes
  <2> QED
    BY <2>1, <2>3, <2>4, <2>5
<1>4. IInv => JoinsAsHeard
  BY <1>1, <1>2, <1>3 DEF JoinsAsHeard
<1> QED
  BY <1>4, Invariant, PTL
=============================================================================
