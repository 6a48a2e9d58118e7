---------------------------- MODULE CywAssocProofs ----------------------------
(***************************************************************************)
(* Proofs about CywAssoc, for any set of networks and any number of        *)
(* requests, lost links and key operations.                                *)
(***************************************************************************)
EXTENDS CywAssoc, TLAPS

\* The last of the requests decides where net80211 will be: one that a handler is
\* about to make, one on the state task, the one under way.
Final ==
  IF rx.pc # "idle" /\ rx.ev = "up" THEN "RUN"
  ELSE IF nstates # << >> THEN nstates[Len(nstates)]
  ELSE IF ns.pc # "idle" THEN ns.nstate ELSE iv_state

\* A sequence has an element of the set.
Has(s, S) == \E i \in DOMAIN s : s[i] \in S

\* S_AUTH is on the state task, or cyw_newstate has not sent its join yet.
AuthWaits == Has(nstates, {"AUTH"})
BeforeJoin == {"copy", "flags", "security", "join", "fallback"}
JoinToCome == AuthWaits \/ ns.pc \in BeforeJoin

\* The steps of cyw_newstate belong to a state.
Steps ==
  /\ ns.pc \in BeforeJoin => ns.nstate = "AUTH"
  /\ ns.pc \in {"init", "disassoc", "clear"} => ns.nstate = "INIT"
  /\ AuthWaits \/ ns.pc \in BeforeJoin => iv_bss # NoBss

\* What cyw_newstate has copied is still what net80211 has chosen, unless another
\* S_AUTH follows.
Copies ==
  ~AuthWaits =>
    /\ ns.pc \in {"flags", "security", "join", "fallback"} =>
         ns.bssid = iv_bss /\ ns.chan = iv_bss
    /\ ns.pc \in {"security", "join", "fallback"} => ns.sec = iv_bss
    /\ ns.pc \in {"join", "fallback"} => sec \in {iv_bss, NoBss}

\* So is what the firmware joins, once the last join is sent.
Joined ==
  ~JoinToCome /\ ~unsent /\ fw.st # "idle" =>
    fw.bssid = iv_bss /\ fw.chan = iv_bss /\ sec \in {iv_bss, NoBss}

\* The last of the events about the link.
LinkEvents == {"up", "down"}

IsLast(s, i) ==
  s[i] \in LinkEvents /\ \A j \in DOMAIN s : j > i => s[j] \notin LinkEvents

LinkPending == Has(events, LinkEvents)

\* The last link event in the chip tells the state of the link; without one
\* link_up does.
LinkTold ==
  /\ \A i \in DOMAIN events :
       IsLast(events, i) => (events[i] = "up" <=> fw.st = "up")
  /\ ~LinkPending => (link_up => fw.st = "up")

\* An event on its way that takes net80211 out of S_AUTH or S_RUN.
Handling(evs) == rx.pc # "idle" /\ rx.ev \in evs

BadEvents == {"down", "ssid_fail"}

BadPending == Has(events, BadEvents) \/ Handling(BadEvents)

\* net80211 is going to S_RUN without a link only if the handler will hear of it.
RunIsTold ==
  Final = "RUN" /\ fw.st # "up" /\ ~missed => LinkPending \/ Handling({"down"})

\* It is going to S_AUTH with nothing being joined only if a join is still to be
\* sent or the handler will hear of the failure.
AuthIsTold ==
  Final = "AUTH" /\ fw.st = "idle" /\ ~missed /\ ~unsent =>
    JoinToCome \/ BadPending

\* Where the caller of cyw_key_set is, and the locks it has.
KeyLocks ==
  /\ com = "key" <=>
       key.com /\ key.pc \in {"node", "called", "relock_node", "return"}
  /\ node = "key" <=> key.node /\ key.pc \in {"called", "return"}
  /\ key.pc \in {"com", "relock_com"} => key.com
  /\ key.pc \in {"node", "relock_node"} => key.node

\* Where the walk over the nodes is, and the locks it has.
WalkLocks ==
  /\ com = "walk" <=> walk \in {"com", "both"}
  /\ node = "walk" <=> walk = "both"

\* Nobody else has a lock.
Locks ==
  /\ KeyLocks
  /\ WalkLocks
  /\ {com, node} \subseteq {"key", "walk", NoOne}

\* cyw_parent under way is right about the interface, or will run again.
ParentSound ==
  /\ parent = "config" => nrunning = 1 \/ parent_task
  /\ DongleFollows

\* The parts about the access point chosen, and about what net80211 is told.
Chosen == Steps /\ Copies /\ Joined
Told == LinkTold /\ RunIsTold /\ AuthIsTold

\* The inductive invariant.
IInv == TypeOK /\ Chosen /\ Told /\ Locks /\ ParentSound

-----------------------------------------------------------------------------
(* Sequences.                                                              *)

\* What a sequence is with one more element.
LEMMA AppendFacts ==
  ASSUME NEW S, NEW s \in Seq(S), NEW e \in S
  PROVE  /\ Append(s, e) \in Seq(S)
         /\ Append(s, e) # << >>
         /\ Len(s) \in Nat
         /\ DOMAIN s = 1 .. Len(s)
         /\ Len(Append(s, e)) = Len(s) + 1
         /\ DOMAIN Append(s, e) = 1 .. (Len(s) + 1)
         /\ \A i \in 1 .. Len(s) : Append(s, e)[i] = s[i]
         /\ Append(s, e)[Len(s) + 1] = e
OBVIOUS

\* What a sequence is without its first element.
LEMMA TailFacts ==
  ASSUME NEW S, NEW s \in Seq(S), s # << >>
  PROVE  /\ Tail(s) \in Seq(S)
         /\ Head(s) \in S
         /\ Len(s) \in Nat \ {0}
         /\ DOMAIN s = 1 .. Len(s)
         /\ Head(s) = s[1]
         /\ Len(Tail(s)) = Len(s) - 1
         /\ Tail(s) = << >> <=> Len(s) = 1
         /\ DOMAIN Tail(s) = 1 .. (Len(s) - 1)
         /\ \A i \in 1 .. (Len(s) - 1) : Tail(s)[i] = s[i + 1]
<1>1. /\ Tail(s) \in Seq(S)
      /\ Len(s) \in Nat \ {0}
      /\ Len(Tail(s)) = Len(s) - 1
  OBVIOUS
<1>2. ASSUME NEW t \in Seq(S), Len(t) = 0 PROVE t = << >>
  BY <1>2
<1>3. Tail(s) = << >> <=> Len(s) = 1
  <2>1. CASE Len(s) = 1
    <3>1. Len(Tail(s)) = 0
      BY <1>1, <2>1
    <3> QED
      BY <1>1, <1>2, <2>1, <3>1
  <2>2. CASE Len(s) # 1
    <3>1. Len(Tail(s)) # 0 /\ Len(<< >>) = 0
      BY <1>1, <2>2
    <3> QED
      BY <2>2, <3>1
  <2> QED
    BY <2>1, <2>2
<1> QED
  BY <1>1, <1>3

\* Two elements at once are two appended one after the other.
LEMMA PairFacts ==
  ASSUME NEW S, NEW s \in Seq(S), NEW d \in S, NEW e \in S
  PROVE  s \o <<d, e>> = Append(Append(s, d), e)
<1>1. s \o <<d, e>> \in Seq(S) /\ Append(Append(s, d), e) \in Seq(S)
  OBVIOUS
<1>2. Len(s \o <<d, e>>) = Len(s) + 2 /\ Len(Append(Append(s, d), e)) = Len(s) + 2
  OBVIOUS
<1>3. ASSUME NEW i \in 1 .. Len(s) + 2
      PROVE  (s \o <<d, e>>)[i] = Append(Append(s, d), e)[i]
  OBVIOUS
<1> QED
  BY <1>1, <1>2, <1>3

\* A sequence with one more element has what it had and the element.
LEMMA HasAppend ==
  ASSUME NEW S, NEW s \in Seq(S), NEW e \in S, NEW T
  PROVE  Has(Append(s, e), T) <=> Has(s, T) \/ e \in T
<1>1. ASSUME Has(s, T) PROVE Has(Append(s, e), T)
  <2>1. PICK i \in 1 .. Len(s) : s[i] \in T
    BY <1>1, AppendFacts DEF Has
  <2>2. i \in DOMAIN Append(s, e) /\ Append(s, e)[i] \in T
    BY <2>1, AppendFacts
  <2> QED
    BY <2>2 DEF Has
<1>2. ASSUME e \in T PROVE Has(Append(s, e), T)
  <2>1. Len(s) + 1 \in DOMAIN Append(s, e) /\ Append(s, e)[Len(s) + 1] \in T
    BY <1>2, AppendFacts
  <2> QED
    BY <2>1 DEF Has
<1>3. ASSUME Has(Append(s, e), T), e \notin T PROVE Has(s, T)
  <2>1. PICK i \in DOMAIN Append(s, e) : Append(s, e)[i] \in T
    BY <1>3 DEF Has
  <2>2. i \in 1 .. Len(s) + 1 /\ i # Len(s) + 1
    BY <1>3, <2>1, AppendFacts
  <2>3. i \in DOMAIN s /\ s[i] \in T
    BY <2>1, <2>2, AppendFacts
  <2> QED
    BY <2>3 DEF Has
<1> QED
  BY <1>1, <1>2, <1>3

\* It has its first element and what its tail has.
LEMMA HasTail ==
  ASSUME NEW S, NEW s \in Seq(S), s # << >>, NEW T
  PROVE  Has(s, T) <=> Head(s) \in T \/ Has(Tail(s), T)
<1>1. ASSUME Has(s, T), Head(s) \notin T PROVE Has(Tail(s), T)
  <2>1. PICK i \in 1 .. Len(s) : s[i] \in T
    BY <1>1, TailFacts DEF Has
  <2>2. i # 1
    BY <1>1, <2>1, TailFacts
  <2>3. i - 1 \in DOMAIN Tail(s) /\ Tail(s)[i - 1] \in T
    BY <2>1, <2>2, TailFacts
  <2> QED
    BY <2>3 DEF Has
<1>2. ASSUME Head(s) \in T PROVE Has(s, T)
  BY <1>2, TailFacts DEF Has
<1>3. ASSUME Has(Tail(s), T) PROVE Has(s, T)
  <2>1. PICK i \in DOMAIN Tail(s) : Tail(s)[i] \in T
    BY <1>3 DEF Has
  <2>2. i + 1 \in DOMAIN s /\ s[i + 1] \in T
    BY <2>1, TailFacts
  <2> QED
    BY <2>2 DEF Has
<1> QED
  BY <1>1, <1>2, <1>3

\* An appended link event is the last one, any other event leaves the last one.
LEMMA LastAppend ==
  ASSUME NEW s \in Seq(Kinds), NEW e \in Kinds, NEW i \in DOMAIN Append(s, e),
         IsLast(Append(s, e), i)
  PROVE  /\ e \in LinkEvents => Append(s, e)[i] = e
         /\ e \notin LinkEvents =>
              i \in DOMAIN s /\ IsLast(s, i) /\ Append(s, e)[i] = s[i]
<1>1. /\ Len(s) \in Nat
      /\ DOMAIN s = 1 .. Len(s)
      /\ DOMAIN Append(s, e) = 1 .. (Len(s) + 1)
      /\ \A k \in 1 .. Len(s) : Append(s, e)[k] = s[k]
      /\ Append(s, e)[Len(s) + 1] = e
  BY AppendFacts
<1>2. CASE e \in LinkEvents
  <2>1. i = Len(s) + 1
    BY <1>1, <1>2 DEF IsLast
  <2> QED
    BY <1>1, <1>2, <2>1
<1>3. CASE e \notin LinkEvents
  <2>1. i # Len(s) + 1
    BY <1>1, <1>3 DEF IsLast
  <2>2. i \in DOMAIN s /\ Append(s, e)[i] = s[i]
    BY <1>1, <2>1
  <2>3. ASSUME NEW j \in DOMAIN s, j > i PROVE s[j] \notin LinkEvents
    BY <1>1, <2>3 DEF IsLast
  <2> QED
    BY <1>3, <2>2, <2>3 DEF IsLast
<1> QED
  BY <1>2, <1>3

\* The last link event stays the last one when the first event is taken, and the
\* first is the last one if no other link event follows.
LEMMA LastTail ==
  ASSUME NEW s \in Seq(Kinds), s # << >>
  PROVE  /\ \A i \in DOMAIN Tail(s) :
              IsLast(Tail(s), i) =>
                i + 1 \in DOMAIN s /\ IsLast(s, i + 1) /\ Tail(s)[i] = s[i + 1]
         /\ Head(s) \in LinkEvents /\ ~Has(Tail(s), LinkEvents) =>
              1 \in DOMAIN s /\ IsLast(s, 1) /\ Head(s) = s[1]
<1>1. /\ Len(s) \in Nat \ {0}
      /\ DOMAIN s = 1 .. Len(s)
      /\ Head(s) = s[1]
      /\ DOMAIN Tail(s) = 1 .. (Len(s) - 1)
      /\ \A k \in 1 .. (Len(s) - 1) : Tail(s)[k] = s[k + 1]
  BY TailFacts
<1>2. ASSUME NEW i \in DOMAIN Tail(s), IsLast(Tail(s), i)
      PROVE  i + 1 \in DOMAIN s /\ IsLast(s, i + 1) /\ Tail(s)[i] = s[i + 1]
  <2>1. i + 1 \in DOMAIN s /\ Tail(s)[i] = s[i + 1]
    BY <1>1
  <2>2. ASSUME NEW j \in DOMAIN s, j > i + 1 PROVE s[j] \notin LinkEvents
    <3>1. j - 1 \in DOMAIN Tail(s) /\ j - 1 > i /\ Tail(s)[j - 1] = s[j]
      BY <1>1, <2>2
    <3> QED
      BY <1>2, <3>1 DEF IsLast
  <2> QED
    BY <1>2, <2>1, <2>2 DEF IsLast
<1>3. ASSUME Head(s) \in LinkEvents, ~Has(Tail(s), LinkEvents)
      PROVE  1 \in DOMAIN s /\ IsLast(s, 1) /\ Head(s) = s[1]
  <2>1. ASSUME NEW j \in DOMAIN s, j > 1 PROVE s[j] \notin LinkEvents
    <3>1. j - 1 \in DOMAIN Tail(s) /\ Tail(s)[j - 1] = s[j]
      BY <1>1, <2>1
    <3> QED
      BY <1>3, <3>1 DEF Has
  <2> QED
    BY <1>1, <1>3, <2>1 DEF IsLast
<1> QED
  BY <1>2, <1>3

-----------------------------------------------------------------------------
(* Types.                                                                  *)

\* Every action keeps the types.
LEMMA TypeStep == TypeOK /\ [Next]_vars => TypeOK'
<1> SUFFICES ASSUME TypeOK, [Next]_vars PROVE TypeOK'
  OBVIOUS
<1> USE AssocAssumption
<1>1. CASE NsBegin
  <2>1. /\ Head(nstates) \in States
        /\ Tail(nstates) \in Seq(States)
    BY <1>1 DEF NsBegin, TypeOK
  <2>2. ns' \in [pc : NsSteps, nstate : States, bssid : Some, chan : Some,
                 sec : Some]
    BY <1>1, <2>1 DEF NsBegin, Idle, NsSteps, Some
  <2> QED
    BY <1>1, <2>1, <2>2 DEF NsBegin, TypeOK, lockVars, keyVars, chipVars,
      parentVars, histVars
<1>2. CASE IfUp
  BY <1>2 DEF IfUp, Request, NewState, States, TypeOK, lockVars, keyVars,
    chipVars, histVars
<1>3. CASE IfDown
  BY <1>3 DEF IfDown, Request, NewState, States, TypeOK, lockVars, keyVars,
    chipVars, histVars
<1>4. CASE Choose
  BY <1>4 DEF Choose, Request, NewState, States, Some, TypeOK, lockVars,
    keyVars, chipVars, parentVars, histVars
<1>5. CASE NsInit
  BY <1>5 DEF NsInit, NsGoto, NsSteps, TypeOK, netVars, lockVars, keyVars,
    chipVars, parentVars, histVars
<1>6. CASE NsDisassoc
  <2>1. ns' \in [pc : NsSteps, nstate : States, bssid : Some, chan : Some,
                 sec : Some]
    BY <1>6 DEF NsDisassoc, NsGoto, NsSteps, TypeOK
  <2>2. fw' \in [st : {"idle", "joining", "up"}, bssid : Some, chan : Some]
    BY <1>6 DEF NsDisassoc, Leave, FwIdle, Kinds, Some, TypeOK
  <2>3. events' \in Seq(Kinds)
    <3>1. Append(events, "down") \in Seq(Kinds) /\ events \in Seq(Kinds)
      BY AppendFacts DEF TypeOK, Kinds
    <3> QED
      BY <1>6, <3>1 DEF NsDisassoc, Leave
  <2> QED
    BY <1>6, <2>1, <2>2, <2>3 DEF NsDisassoc, TypeOK, netVars, lockVars,
      keyVars, parentVars, histVars
<1>7. CASE NsClear
  <2>1. ns' \in [pc : NsSteps, nstate : States, bssid : Some, chan : Some,
                 sec : Some]
    BY <1>7 DEF NsClear, NsGoto, NsSteps, TypeOK
  <2>2. {link_up', parent_task, dongle_up, radio, missed, unsent} \subseteq BOOLEAN
    BY <1>7 DEF NsClear, TypeOK
  <2> QED
    BY <1>7, <2>1, <2>2 DEF NsClear, TypeOK, netVars, lockVars, keyVars,
      chipVars, parentVars, histVars
<1>8. CASE NsCopy
  <2>1. ns' \in [pc : NsSteps, nstate : States, bssid : Some, chan : Some,
                 sec : Some]
    BY <1>8 DEF NsCopy, NsSteps, Some, TypeOK
  <2> QED
    BY <1>8, <2>1 DEF NsCopy, TypeOK, netVars, lockVars, keyVars, chipVars,
      parentVars, histVars
<1>9. CASE NsFlags
  <2>1. ns' \in [pc : NsSteps, nstate : States, bssid : Some, chan : Some,
                 sec : Some]
    BY <1>9 DEF NsFlags, NsSteps, Some, TypeOK
  <2> QED
    BY <1>9, <2>1 DEF NsFlags, TypeOK, netVars, lockVars, keyVars, chipVars,
      parentVars, histVars
<1>10. CASE NsSecurity
  BY <1>10, SMTT(20) DEF NsSecurity, NsGoto, NsSteps, Some, TypeOK, netVars,
    lockVars, keyVars, parentVars, histVars
<1>11. CASE NsJoin
  <2>1. ns' \in [pc : NsSteps, nstate : States, bssid : Some, chan : Some,
                 sec : Some]
    BY <1>11 DEF NsJoin, NsGoto, NsSteps, TypeOK
  <2>2. fw' \in [st : {"idle", "joining", "up"}, bssid : Some, chan : Some]
    BY <1>11 DEF NsJoin, StartJoin, Kinds, TypeOK
  <2>3. events' \in Seq(Kinds)
    <3>1. Append(events, "down") \in Seq(Kinds) /\ events \in Seq(Kinds)
      BY AppendFacts DEF TypeOK, Kinds
    <3> QED
      BY <1>11, <3>1 DEF NsJoin, StartJoin
  <2>4. {link_up, parent_task, dongle_up, radio, missed, unsent'} \subseteq BOOLEAN
    BY <1>11 DEF NsJoin, StartJoin, TypeOK
  <2> QED
    BY <1>11, <2>1, <2>2, <2>3, <2>4 DEF NsJoin, TypeOK, netVars, lockVars,
      keyVars, parentVars
<1>12. CASE NsFallback
  <2>1. ns' \in [pc : NsSteps, nstate : States, bssid : Some, chan : Some,
                 sec : Some]
    BY <1>12 DEF NsFallback, NsGoto, NsSteps, TypeOK
  <2>2. fw' \in [st : {"idle", "joining", "up"}, bssid : Some, chan : Some]
    BY <1>12 DEF NsFallback, StartJoin, Kinds, TypeOK
  <2>3. events' \in Seq(Kinds)
    <3>1. Append(events, "down") \in Seq(Kinds) /\ events \in Seq(Kinds)
      BY AppendFacts DEF TypeOK, Kinds
    <3> QED
      BY <1>12, <3>1 DEF NsFallback, StartJoin
  <2>4. {link_up, parent_task, dongle_up, radio, missed, unsent'} \subseteq BOOLEAN
    BY <1>12 DEF NsFallback, StartJoin, TypeOK
  <2> QED
    BY <1>12, <2>1, <2>2, <2>3, <2>4 DEF NsFallback, TypeOK, netVars, lockVars,
      keyVars, parentVars
<1>13. CASE NsChain
  BY <1>13 DEF NsChain, Idle, NsSteps, States, Some, TypeOK, lockVars,
    keyVars, chipVars, parentVars, histVars
<1>14. CASE FwJoins
  <2>1. events' \in Seq(Kinds)
    BY <1>14 DEF FwJoins, Kinds, TypeOK
  <2> QED
    BY <1>14, <2>1 DEF FwJoins, TypeOK, netVars, lockVars, keyVars, parentVars,
      histVars
<1>15. CASE FwFails
  BY <1>15 DEF FwFails, FwIdle, Kinds, Some, TypeOK, netVars, lockVars,
    keyVars, parentVars, histVars
<1>16. CASE FwLosesLink
  BY <1>16 DEF FwLosesLink, Leave, FwIdle, Kinds, Some, TypeOK, netVars,
    lockVars, keyVars, parentVars, histVars
<1>17. CASE RxDispatch
  <2>1. Head(events) \in Kinds /\ Tail(events) \in Seq(Kinds)
    BY <1>17 DEF RxDispatch, TypeOK
  <2>2. rx' \in [pc : {"idle", "test", "request"}, ev : Kinds]
    BY <1>17, <2>1 DEF RxDispatch
  <2>3. {link_up', parent_task, dongle_up, radio, missed, unsent} \subseteq BOOLEAN
    BY <1>17 DEF RxDispatch, TypeOK
  <2> QED
    BY <1>17, <2>1, <2>2, <2>3 DEF RxDispatch, TypeOK, netVars, lockVars,
      keyVars, parentVars, histVars
<1>18. CASE RxIgnore
  BY <1>18, ZenonT(30) DEF RxIgnore, NoHandler, Kinds, TypeOK, netVars, lockVars,
    keyVars, chipVars, parentVars
<1>19. CASE RxAct
  BY <1>19 DEF RxAct, TypeOK, netVars, lockVars, keyVars, chipVars,
    parentVars, histVars
<1>20. CASE RxRequest
  BY <1>20 DEF RxRequest, NewState, NoHandler, Kinds, States, TypeOK,
    lockVars, keyVars, chipVars, parentVars, histVars
<1>21. CASE KeyBegin
  BY <1>21 DEF KeyBegin, FromCom, FromNode, KeySteps, TypeOK, netVars,
    lockVars, chipVars, parentVars, histVars
<1>22. CASE KeyTakeCom
  BY <1>22 DEF KeyTakeCom, FromNode, KeyGoto, KeySteps, Waiters, TypeOK,
    netVars, chipVars, parentVars, histVars
<1>23. CASE KeyTakeNode
  BY <1>23, SMTT(20) DEF KeyTakeNode, KeyGoto, KeySteps, Waiters, TypeOK,
    netVars, chipVars, parentVars, histVars
<1>24. CASE KeyRefuse
  BY <1>24 DEF KeyRefuse, KeyGoto, KeySteps, TypeOK, netVars, lockVars,
    chipVars, parentVars, histVars
<1>25. CASE KeyDrop
  BY <1>25 DEF KeyDrop, KeyGoto, KeySteps, TypeOK, netVars, chipVars,
    parentVars, histVars
<1>26. CASE KeySend
  BY <1>26, SMTT(20) DEF KeySend, KeyGoto, KeySteps, TypeOK, netVars, lockVars,
    chipVars, parentVars, histVars
<1>27. CASE KeyRelockCom
  BY <1>27 DEF KeyRelockCom, KeyGoto, KeySteps, Waiters, TypeOK, netVars,
    chipVars, parentVars, histVars
<1>28. CASE KeyRelockNode
  BY <1>28, SMTT(20) DEF KeyRelockNode, KeyGoto, KeySteps, Waiters, TypeOK,
    netVars, chipVars, parentVars, histVars
<1>29. CASE KeyReturn
  BY <1>29 DEF KeyReturn, KeyGoto, KeySteps, TypeOK, netVars, chipVars,
    parentVars, histVars
<1>30. CASE Walk
  BY <1>30 DEF Walk, Waiters, TypeOK, netVars, chipVars, parentVars, histVars
<1>31. CASE ParentDown
  BY <1>31 DEF ParentDown, TypeOK, netVars, lockVars, keyVars, chipVars,
    histVars
<1>32. CASE ParentUp
  BY <1>32, ZenonT(30) DEF ParentUp, TypeOK, netVars, lockVars, keyVars,
    chipVars, histVars
<1>33. CASE ParentConfig
  BY <1>33 DEF ParentConfig, TypeOK, netVars, lockVars, keyVars, chipVars,
    histVars
<1>34. CASE UNCHANGED vars
  BY <1>34 DEF vars, TypeOK, netVars, lockVars, keyVars, chipVars, parentVars,
    histVars
<1> QED
  BY <1>1, <1>2, <1>3, <1>4, <1>5, <1>6, <1>7, <1>8, <1>9, <1>10, <1>11,
    <1>12, <1>13, <1>14, <1>15, <1>16, <1>17, <1>18, <1>19, <1>20, <1>21,
    <1>22, <1>23, <1>24, <1>25, <1>26, <1>27, <1>28, <1>29, <1>30, <1>31,
    <1>32, <1>33, <1>34 DEF Next, Newstate, Handler, Firmware, KeyRun, Parent

-----------------------------------------------------------------------------
(* Locks.                                                                  *)

\* cyw_key_set and cyw_key_delete have the locks their step says, and give back
\* the ones they were called with; nobody else takes them for longer than a step.
LEMMA LocksStep == TypeOK /\ Locks /\ [Next]_vars => Locks'
<1> SUFFICES ASSUME TypeOK, Locks, [Next]_vars PROVE Locks'
  OBVIOUS
<1> USE AssocAssumption DEF Waiters
<1>1. CASE UNCHANGED <<com, node, key, walk>>
  BY <1>1 DEF Locks, KeyLocks, WalkLocks
<1>2. CASE KeyBegin
  BY <1>2 DEF KeyBegin, FromCom, FromNode, TypeOK, Locks, KeyLocks, WalkLocks,
    lockVars
<1>3. CASE KeyTakeCom
  BY <1>3 DEF KeyTakeCom, KeyGoto, FromNode, TypeOK, Locks, KeyLocks, WalkLocks
<1>4. CASE KeyTakeNode
  BY <1>4 DEF KeyTakeNode, KeyGoto, TypeOK, Locks, KeyLocks, WalkLocks
<1>5. CASE KeyRefuse
  BY <1>5 DEF KeyRefuse, KeyGoto, TypeOK, Locks, KeyLocks, WalkLocks, lockVars
<1>6. CASE KeyDrop
  BY <1>6 DEF KeyDrop, KeyGoto, TypeOK, Locks, KeyLocks, WalkLocks
<1>7. CASE KeySend
  BY <1>7 DEF KeySend, KeyGoto, TypeOK, Locks, KeyLocks, WalkLocks, lockVars
<1>8. CASE KeyRelockCom
  BY <1>8 DEF KeyRelockCom, KeyGoto, TypeOK, Locks, KeyLocks, WalkLocks
<1>9. CASE KeyRelockNode
  BY <1>9 DEF KeyRelockNode, KeyGoto, TypeOK, Locks, KeyLocks, WalkLocks
<1>10. CASE KeyReturn
  BY <1>10 DEF KeyReturn, KeyGoto, TypeOK, Locks, KeyLocks, WalkLocks
<1>11. CASE Walk
  BY <1>11 DEF Walk, TypeOK, Locks, KeyLocks, WalkLocks
<1>12. CASE IfUp \/ IfDown \/ Choose \/ Newstate
  <2> SUFFICES UNCHANGED <<com, node, key, walk>>
    BY <1>1
  <2> QED
    BY <1>12 DEF IfUp, IfDown, Choose, Newstate, NsBegin, NsInit, NsDisassoc,
      NsClear, NsCopy, NsFlags, NsSecurity, NsJoin, NsFallback, NsChain,
      lockVars, keyVars
<1>13. CASE Handler \/ Parent \/ Firmware \/ FwLosesLink \/ UNCHANGED vars
  <2> SUFFICES UNCHANGED <<com, node, key, walk>>
    BY <1>1
  <2> QED
    BY <1>13 DEF Handler, RxDispatch, RxIgnore, RxAct, RxRequest, Parent,
      ParentDown, ParentUp, ParentConfig, Firmware, FwJoins, FwFails, FwLosesLink,
      vars, lockVars, keyVars
<1> QED
  BY <1>2, <1>3, <1>4, <1>5, <1>6, <1>7, <1>8, <1>9, <1>10, <1>11, <1>12, <1>13
    DEF Next, KeyRun

-----------------------------------------------------------------------------
(* The parent task.                                                        *)

\* A change of nrunning always leaves a parent task that will see it.
LEMMA ParentStep == TypeOK /\ ParentSound /\ [Next]_vars => ParentSound'
<1> SUFFICES ASSUME TypeOK, ParentSound, [Next]_vars PROVE ParentSound'
  OBVIOUS
<1>1. CASE UNCHANGED parentVars
  BY <1>1 DEF ParentSound, DongleFollows, parentVars
<1>2. CASE IfUp \/ IfDown
  BY <1>2 DEF IfUp, IfDown, ParentSound, DongleFollows
<1>3. CASE ParentDown
  BY <1>3 DEF ParentDown, ParentSound, DongleFollows, TypeOK
<1>4. CASE ParentUp
  BY <1>4 DEF ParentUp, ParentSound, DongleFollows, TypeOK
<1>5. CASE ParentConfig
  BY <1>5 DEF ParentConfig, ParentSound, DongleFollows, TypeOK
<1>6. CASE Choose \/ Newstate \/ Handler
  <2> SUFFICES UNCHANGED parentVars
    BY <1>1
  <2> QED
    BY <1>6 DEF Choose, Newstate, NsBegin, NsInit, NsDisassoc, NsClear, NsCopy,
      NsFlags, NsSecurity, NsJoin, NsFallback, NsChain, Handler, RxDispatch,
      RxIgnore, RxAct, RxRequest
<1>7. CASE KeyBegin \/ KeyRun \/ Walk \/ Firmware \/ FwLosesLink
           \/ UNCHANGED vars
  <2> SUFFICES UNCHANGED parentVars
    BY <1>1
  <2> QED
    BY <1>7 DEF KeyBegin, KeyRun, KeyTakeCom, KeyTakeNode, KeyRefuse, KeyDrop,
      KeySend, KeyRelockCom, KeyRelockNode, KeyReturn, Walk, Firmware, FwJoins,
      FwFails, FwLosesLink, vars
<1> QED
  BY <1>2, <1>3, <1>4, <1>5, <1>6, <1>7 DEF Next, Parent

-----------------------------------------------------------------------------
(* What is asked of the state task.                                        *)

\* A request becomes the last one.
LEMMA RequestFacts ==
  ASSUME TypeOK, NEW st \in States, nstates' = Append(nstates, st)
  PROVE  /\ nstates' # << >>
         /\ nstates'[Len(nstates')] = st
         /\ AuthWaits' <=> AuthWaits \/ st = "AUTH"
<1>1. nstates \in Seq(States)
  BY DEF TypeOK
<1>2. /\ nstates' # << >>
      /\ nstates'[Len(nstates')] = st
  BY <1>1, AppendFacts
<1> QED
  BY <1>1, <1>2, HasAppend DEF AuthWaits

\* The state task takes the first one.
LEMMA TakeFacts ==
  ASSUME TypeOK, nstates # << >>, nstates' = Tail(nstates)
  PROVE  /\ Head(nstates) \in States
         /\ AuthWaits <=> Head(nstates) = "AUTH" \/ AuthWaits'
         /\ nstates' = << >> => nstates[Len(nstates)] = Head(nstates)
         /\ nstates' # << >> => nstates'[Len(nstates')] = nstates[Len(nstates)]
<1>1. nstates \in Seq(States)
  BY DEF TypeOK
<1>2. /\ Head(nstates) \in States
      /\ nstates' = << >> => nstates[Len(nstates)] = Head(nstates)
      /\ nstates' # << >> => nstates'[Len(nstates')] = nstates[Len(nstates)]
  BY <1>1, TailFacts
<1>3. AuthWaits <=> Head(nstates) = "AUTH" \/ AuthWaits'
  BY <1>1, HasTail DEF AuthWaits
<1> QED
  BY <1>2, <1>3

-----------------------------------------------------------------------------
(* The BSS that is joined.                                                 *)

\* Choosing, copying, setting and joining in any order keep the last choice.
LEMMA ChosenStep == TypeOK /\ Chosen /\ [Next]_vars => Chosen'
<1> SUFFICES ASSUME TypeOK, Chosen, [Next]_vars PROVE Chosen'
  OBVIOUS
<1> USE AssocAssumption DEF Chosen
<1>1. CASE UNCHANGED <<nstates, ns, iv_bss, fw, sec, unsent>>
  BY <1>1 DEF Steps, Copies, Joined, AuthWaits, JoinToCome
<1>2. CASE IfUp \/ IfDown \/ RxRequest
  <2>1. PICK st \in {"SCAN", "INIT", "RUN"} : nstates' = Append(nstates, st)
    BY <1>2 DEF IfUp, IfDown, RxRequest, NewState
  <2>2. AuthWaits' <=> AuthWaits
    BY <2>1, RequestFacts DEF States
  <2>3. UNCHANGED <<ns, iv_bss, fw, sec, unsent>>
    BY <1>2 DEF IfUp, IfDown, RxRequest, chipVars, histVars
  <2> QED
    BY <2>2, <2>3 DEF Steps, Copies, Joined, JoinToCome
<1>3. CASE Choose
  <2>1. nstates' = Append(nstates, "AUTH")
    BY <1>3 DEF Choose, NewState
  <2>2. AuthWaits'
    BY <2>1, RequestFacts DEF States
  <2>3. ns' = ns /\ iv_bss' # NoBss
    BY <1>3 DEF Choose
  <2> QED
    BY <2>2, <2>3 DEF Steps, Copies, Joined, JoinToCome
<1>4. CASE NsBegin
  <2>1. AuthWaits <=> Head(nstates) = "AUTH" \/ AuthWaits'
    BY <1>4, TakeFacts DEF NsBegin
  <2>2. /\ Head(nstates) = "AUTH" => ns'.pc = "copy" /\ ns'.nstate = "AUTH"
        /\ Head(nstates) = "INIT" => ns'.pc = "init" /\ ns'.nstate = "INIT"
        /\ Head(nstates) \notin {"INIT", "AUTH"} => ns'.pc = "chain"
    BY <1>4 DEF NsBegin, Idle
  <2>3. UNCHANGED <<iv_bss, fw, sec, unsent>> /\ ns.pc = "idle"
    BY <1>4 DEF NsBegin, chipVars, histVars
  <2> QED
    BY <2>1, <2>2, <2>3 DEF Steps, Copies, Joined, JoinToCome, BeforeJoin
<1>5. CASE NsInit \/ NsClear
  BY <1>5 DEF NsInit, NsClear, NsGoto, netVars, chipVars, histVars, TypeOK,
    Steps, Copies, Joined, JoinToCome, BeforeJoin, AuthWaits
<1>6. CASE NsDisassoc
  BY <1>6 DEF NsDisassoc, Leave, FwIdle, NsGoto, netVars, histVars, TypeOK,
    Steps, Copies, Joined, JoinToCome, BeforeJoin, AuthWaits
<1>7. CASE NsCopy
  BY <1>7 DEF NsCopy, netVars, chipVars, histVars, TypeOK, Steps, Copies,
    Joined, JoinToCome, BeforeJoin, AuthWaits
<1>8. CASE NsFlags
  BY <1>8 DEF NsFlags, netVars, chipVars, histVars, TypeOK, Steps, Copies,
    Joined, JoinToCome, BeforeJoin, AuthWaits
<1>9. CASE NsSecurity
  BY <1>9 DEF NsSecurity, NsGoto, netVars, histVars, TypeOK, Steps, Copies,
    Joined, JoinToCome, BeforeJoin, AuthWaits
<1>10. CASE NsJoin
  BY <1>10 DEF NsJoin, StartJoin, NsGoto, netVars, TypeOK, Steps, Copies,
    Joined, JoinToCome, BeforeJoin, AuthWaits
<1>11. CASE NsFallback
  BY <1>11 DEF NsFallback, StartJoin, NsGoto, netVars, TypeOK, Steps, Copies,
    Joined, JoinToCome, BeforeJoin, AuthWaits
<1>12. CASE NsChain
  BY <1>12 DEF NsChain, Idle, chipVars, histVars, TypeOK, Steps, Copies, Joined,
    JoinToCome, BeforeJoin, AuthWaits
<1>13. CASE FwJoins
  BY <1>13 DEF FwJoins, netVars, histVars, TypeOK, Steps, Copies, Joined,
    JoinToCome, BeforeJoin, AuthWaits
<1>14. CASE FwFails \/ FwLosesLink
  BY <1>14 DEF FwFails, FwLosesLink, Leave, FwIdle, netVars, histVars, TypeOK,
    Steps, Copies, Joined, JoinToCome, BeforeJoin, AuthWaits
<1>15. CASE RxDispatch \/ RxIgnore \/ RxAct \/ Parent \/ UNCHANGED vars
  <2> SUFFICES UNCHANGED <<nstates, ns, iv_bss, fw, sec, unsent>>
    BY <1>1
  <2> QED
    BY <1>15 DEF RxDispatch, RxIgnore, RxAct, Parent, ParentDown, ParentUp,
      ParentConfig, vars, netVars, chipVars, histVars
<1>16. CASE KeyBegin \/ KeyRun \/ Walk
  <2> SUFFICES UNCHANGED <<nstates, ns, iv_bss, fw, sec, unsent>>
    BY <1>1
  <2> QED
    BY <1>16 DEF KeyBegin, KeyRun, KeyTakeCom, KeyTakeNode, KeyRefuse, KeyDrop,
      KeySend, KeyRelockCom, KeyRelockNode, KeyReturn, Walk, netVars, chipVars,
      histVars
<1> QED
  BY <1>2, <1>3, <1>4, <1>5, <1>6, <1>7, <1>8, <1>9, <1>10, <1>11, <1>12, <1>13,
    <1>14, <1>15, <1>16 DEF Next, Newstate, Handler, Firmware

-----------------------------------------------------------------------------
(* What the events tell.                                                   *)

\* What an event the chip sends adds to those on their way.
LEMMA EventFacts ==
  ASSUME TypeOK, NEW e \in Kinds, events' = Append(events, e)
  PROVE  /\ LinkPending' <=> LinkPending \/ e \in LinkEvents
         /\ Has(events', BadEvents) <=> Has(events, BadEvents) \/ e \in BadEvents
<1>1. events \in Seq(Kinds)
  BY DEF TypeOK
<1> QED
  BY <1>1, HasAppend DEF LinkPending

\* The firmware goes up, down or idle with the event that says so.
LEMMA LinkToldStep == TypeOK /\ LinkTold /\ [Next]_vars => LinkTold'
<1> SUFFICES ASSUME TypeOK, LinkTold, [Next]_vars PROVE LinkTold'
  OBVIOUS
<1>1. events \in Seq(Kinds)
  BY DEF TypeOK
<1>2. ASSUME events' = events, fw'.st = "up" <=> fw.st = "up", link_up' => link_up
      PROVE  LinkTold'
  BY <1>2 DEF LinkTold, LinkPending
<1>3. ASSUME NEW e \in LinkEvents, events' = Append(events, e),
             fw'.st = "up" <=> e = "up"
      PROVE  LinkTold'
  <2>1. e \in Kinds
    BY DEF LinkEvents, Kinds
  <2>2. LinkPending'
    BY <1>3, <2>1, EventFacts
  <2>3. ASSUME NEW i \in DOMAIN events', IsLast(events', i) PROVE events'[i] = e
    BY <1>1, <1>3, <2>1, <2>3, LastAppend
  <2> QED
    BY <1>3, <2>2, <2>3 DEF LinkTold
<1>4. ASSUME NEW e \in Kinds \ LinkEvents, events' = Append(events, e),
             fw'.st = "up" <=> fw.st = "up", link_up' = link_up
      PROVE  LinkTold'
  <2>1. LinkPending' <=> LinkPending
    BY <1>4, EventFacts
  <2>2. ASSUME NEW i \in DOMAIN events', IsLast(events', i)
        PROVE  events'[i] = "up" <=> fw'.st = "up"
    <3>1. i \in DOMAIN events /\ IsLast(events, i) /\ events'[i] = events[i]
      BY <1>1, <1>4, <2>2, LastAppend
    <3> QED
      BY <1>4, <3>1 DEF LinkTold
  <2> QED
    BY <1>4, <2>1, <2>2 DEF LinkTold
<1>5. ASSUME Leave, link_up' = link_up PROVE LinkTold'
  <2>1. fw'.st = "idle"
    BY <1>5 DEF Leave, FwIdle
  <2>2. CASE fw.st = "up"
    BY <1>3, <1>5, <2>1, <2>2 DEF Leave, LinkEvents
  <2>3. CASE fw.st # "up"
    BY <1>2, <1>5, <2>1, <2>3 DEF Leave
  <2> QED
    BY <2>2, <2>3
<1>6. ASSUME StartJoin, link_up' = link_up PROVE LinkTold'
  <2>1. fw'.st = "joining"
    BY <1>6 DEF StartJoin
  <2>2. CASE fw.st = "up"
    BY <1>3, <1>6, <2>1, <2>2 DEF StartJoin, LinkEvents
  <2>3. CASE fw.st # "up"
    BY <1>2, <1>6, <2>1, <2>3 DEF StartJoin
  <2> QED
    BY <2>2, <2>3
<1>7. CASE NsDisassoc
  BY <1>2, <1>5, <1>7 DEF NsDisassoc
<1>8. CASE NsClear
  BY <1>2, <1>8 DEF NsClear, chipVars
<1>9. CASE NsJoin
  BY <1>2, <1>6, <1>9 DEF NsJoin
<1>10. CASE NsFallback
  BY <1>2, <1>6, <1>10 DEF NsFallback
<1>11. CASE FwJoins
  <2> DEFINE mid == Append(events, "ssid_ok")
  <2>1. mid \in Seq(Kinds) /\ "up" \in Kinds
    BY <1>1, AppendFacts DEF Kinds
  <2>2. events' = Append(mid, "up") /\ fw'.st = "up"
    BY <1>1, <1>11, PairFacts DEF FwJoins, Kinds, TypeOK
  <2> HIDE DEF mid
  <2>3. LinkPending'
    BY <2>1, <2>2, HasAppend DEF LinkPending, LinkEvents
  <2>4. ASSUME NEW i \in DOMAIN events', IsLast(events', i)
        PROVE  events'[i] = "up"
    BY <2>1, <2>2, <2>4, LastAppend DEF LinkEvents
  <2> QED
    BY <2>2, <2>3, <2>4 DEF LinkTold
<1>12. CASE FwFails
  <2>1. "ssid_fail" \in Kinds \ LinkEvents
    BY DEF Kinds, LinkEvents
  <2> QED
    BY <1>4, <1>12, <2>1 DEF FwFails, FwIdle
<1>13. CASE FwLosesLink
  BY <1>5, <1>13 DEF FwLosesLink
<1>14. CASE RxDispatch
  <2>1. events # << >> /\ events' = Tail(events) /\ fw' = fw
        /\ link_up' = IF Head(events) \in LinkEvents
                      THEN Head(events) = "up" ELSE link_up
    BY <1>14 DEF RxDispatch, LinkEvents
  <2>2. ASSUME NEW i \in DOMAIN events', IsLast(events', i)
        PROVE  events'[i] = "up" <=> fw'.st = "up"
    <3>1. i + 1 \in DOMAIN events /\ IsLast(events, i + 1)
          /\ events'[i] = events[i + 1]
      BY <1>1, <2>1, <2>2, LastTail
    <3> QED
      BY <2>1, <3>1 DEF LinkTold
  <2>3. ASSUME ~LinkPending', link_up' PROVE fw'.st = "up"
    <3>1. CASE Head(events) \in LinkEvents
      <4>1. 1 \in DOMAIN events /\ IsLast(events, 1) /\ Head(events) = events[1]
        BY <1>1, <2>1, <2>3, <3>1, LastTail DEF LinkPending
      <4> QED
        BY <2>1, <2>3, <3>1, <4>1 DEF LinkTold
    <3>2. CASE Head(events) \notin LinkEvents
      <4>1. ~LinkPending
        BY <1>1, <2>1, <2>3, <3>2, HasTail DEF LinkPending
      <4> QED
        BY <2>1, <2>3, <3>2, <4>1 DEF LinkTold
    <3> QED
      BY <3>1, <3>2
  <2> QED
    BY <2>2, <2>3 DEF LinkTold
<1>15. CASE IfUp \/ IfDown \/ Choose \/ NsBegin \/ NsInit \/ NsCopy \/ NsFlags
            \/ NsSecurity \/ NsChain \/ RxIgnore \/ RxAct \/ RxRequest
  <2> SUFFICES UNCHANGED <<events, fw, link_up>>
    BY <1>2
  <2> QED
    BY <1>15 DEF IfUp, IfDown, Choose, NsBegin, NsInit, NsCopy, NsFlags,
      NsSecurity, NsChain, RxIgnore, RxAct, RxRequest, chipVars
<1>16. CASE KeyBegin \/ KeyRun \/ Walk \/ Parent \/ UNCHANGED vars
  <2> SUFFICES UNCHANGED <<events, fw, link_up>>
    BY <1>2
  <2> QED
    BY <1>16 DEF KeyBegin, KeyRun, KeyTakeCom, KeyTakeNode, KeyRefuse, KeyDrop,
      KeySend, KeyRelockCom, KeyRelockNode, KeyReturn, Walk, Parent, ParentDown,
      ParentUp, ParentConfig, vars, chipVars
<1> QED
  BY <1>7, <1>8, <1>9, <1>10, <1>11, <1>12, <1>13, <1>14, <1>15, <1>16
    DEF Next, Newstate, Handler, Firmware

\* Where net80211 is going, and what it is going to hear, go together.
LEMMA FinalStep ==
  TypeOK /\ Chosen /\ Told /\ [Next]_vars => RunIsTold' /\ AuthIsTold'
<1> SUFFICES ASSUME TypeOK, Chosen, Told, [Next]_vars
             PROVE  RunIsTold' /\ AuthIsTold'
  OBVIOUS
<1> USE DEF RunIsTold, AuthIsTold
<1>1. Steps /\ LinkTold /\ RunIsTold /\ AuthIsTold
  BY DEF Chosen, Told
<1>2. events \in Seq(Kinds)
  BY DEF TypeOK
<1>3. CASE UNCHANGED <<iv_state, nstates, ns, rx, events, fw, missed, unsent>>
  BY <1>1, <1>3 DEF Final, JoinToCome, AuthWaits, LinkPending, BadPending,
    Handling
<1>4. CASE IfUp \/ IfDown
  <2>1. PICK st \in {"SCAN", "INIT"} : nstates' = Append(nstates, st)
    BY <1>4 DEF IfUp, IfDown, NewState
  <2>2. nstates' # << >> /\ nstates'[Len(nstates')] = st
    BY <2>1, RequestFacts DEF States
  <2>3. UNCHANGED <<rx, events, fw, missed>>
    BY <1>4 DEF IfUp, IfDown, chipVars, histVars
  <2> QED
    BY <1>1, <2>2, <2>3 DEF Final, LinkPending, Handling
<1>5. CASE Choose
  <2>1. nstates' = Append(nstates, "AUTH")
    BY <1>5 DEF Choose, NewState
  <2>2. nstates' # << >> /\ nstates'[Len(nstates')] = "AUTH" /\ AuthWaits'
    BY <2>1, RequestFacts DEF States
  <2>3. UNCHANGED <<rx, events, fw, missed>>
    BY <1>5 DEF Choose, chipVars, histVars
  <2> QED
    BY <1>1, <2>2, <2>3 DEF Final, LinkPending, Handling, JoinToCome
<1>6. CASE NsBegin
  <2>1. /\ AuthWaits <=> Head(nstates) = "AUTH" \/ AuthWaits'
        /\ nstates' = << >> => nstates[Len(nstates)] = Head(nstates)
        /\ nstates' # << >> => nstates'[Len(nstates')] = nstates[Len(nstates)]
    BY <1>6, TakeFacts DEF NsBegin
  <2>2. /\ ns'.nstate = Head(nstates)
        /\ ns'.pc # "idle"
        /\ Head(nstates) = "AUTH" => ns'.pc = "copy"
    BY <1>6 DEF NsBegin, Idle
  <2>3. UNCHANGED <<rx, events, fw, missed, unsent>>
        /\ ns.pc = "idle" /\ nstates # << >>
    BY <1>6 DEF NsBegin, chipVars, histVars
  <2>4. Final' = Final
    BY <2>1, <2>2, <2>3 DEF Final
  <2> QED
    BY <1>1, <2>1, <2>2, <2>3, <2>4
      DEF JoinToCome, BeforeJoin, LinkPending, BadPending, Handling
<1>7. CASE NsInit \/ NsClear \/ NsCopy \/ NsFlags \/ NsSecurity
  <2>1. /\ ns.pc # "idle" /\ ns'.pc # "idle"
        /\ ns'.nstate = ns.nstate
        /\ ns.pc \in BeforeJoin => ns'.pc \in BeforeJoin
    BY <1>1, <1>7, ZenonT(30) DEF NsInit, NsClear, NsCopy, NsFlags, NsSecurity,
      NsGoto, TypeOK, Steps, BeforeJoin
  <2>2. UNCHANGED <<iv_state, nstates, rx, events, fw, missed, unsent>>
    BY <1>7 DEF NsInit, NsClear, NsCopy, NsFlags, NsSecurity, netVars, chipVars,
      histVars
  <2> QED
    BY <1>1, <2>1, <2>2
      DEF Final, JoinToCome, AuthWaits, LinkPending, BadPending, Handling
<1>8. CASE NsDisassoc
  <2>1. /\ ns.pc = "disassoc" /\ ns'.pc = "clear"
        /\ ns'.nstate = "INIT" /\ ns.nstate = "INIT"
        /\ UNCHANGED <<iv_state, nstates, rx, missed, unsent>>
    BY <1>1, <1>8 DEF NsDisassoc, NsGoto, TypeOK, Steps, netVars, histVars
  <2>2. Final' = Final /\ (Final = "AUTH" => AuthWaits)
    <3>1. nstates # << >> => Len(nstates) \in DOMAIN nstates
      BY DEF TypeOK
    <3> QED
      BY <2>1, <3>1 DEF Final, AuthWaits, Has
  <2>3. LinkPending \/ Handling({"down"}) => LinkPending' \/ Handling({"down"})'
    <3>1. CASE events' = events
      BY <2>1, <3>1 DEF LinkPending, Handling
    <3>2. CASE events' = Append(events, "down")
      BY <2>1, <3>2, EventFacts DEF Kinds, LinkEvents
    <3> QED
      BY <1>8, <3>1, <3>2 DEF NsDisassoc, Leave
  <2>4. fw.st = "up" => fw'.st = "up" \/ LinkPending'
    <3>1. CASE fw' = fw
      BY <3>1
    <3>2. CASE Leave /\ fw.st = "up"
      BY <3>2, EventFacts DEF Leave, Kinds, LinkEvents
    <3> QED
      BY <1>8, <3>1, <3>2 DEF NsDisassoc
  <2> QED
    BY <1>1, <2>1, <2>2, <2>3, <2>4 DEF JoinToCome, AuthWaits
<1>9. CASE NsJoin \/ NsFallback
  <2>1. /\ ns.pc \in BeforeJoin /\ ns'.pc # "idle"
        /\ ns'.nstate = ns.nstate
        /\ UNCHANGED <<iv_state, nstates, rx, missed>>
    BY <1>9 DEF NsJoin, NsFallback, NsGoto, TypeOK, netVars, BeforeJoin
  <2>2. Final' = Final
    BY <2>1 DEF Final, BeforeJoin
  <2>3. CASE StartJoin
    <3>1. fw'.st = "joining"
      BY <2>3 DEF StartJoin
    <3>2. CASE fw.st = "up"
      <4>1. LinkPending'
        BY <2>3, <3>2, EventFacts DEF StartJoin, Kinds, LinkEvents
      <4> QED
        BY <3>1, <4>1
    <3>3. CASE fw.st # "up"
      <4>1. events' = events
        BY <2>3, <3>3 DEF StartJoin
      <4> QED
        BY <1>1, <2>1, <2>2, <3>1, <3>3, <4>1 DEF LinkPending, Handling
    <3> QED
      BY <3>2, <3>3
  <2>4. CASE UNCHANGED <<fw, events>> /\ (unsent' \/ ns'.pc = "fallback")
    BY <1>1, <2>1, <2>2, <2>4 DEF LinkPending, Handling, JoinToCome, BeforeJoin
  <2>5. StartJoin \/ (UNCHANGED <<fw, events>> /\ (unsent' \/ ns'.pc = "fallback"))
    BY <1>9 DEF NsJoin, NsFallback, NsGoto, TypeOK
  <2> QED
    BY <2>3, <2>4, <2>5
<1>10. CASE NsChain
  <2>1. /\ ns.pc = "chain" /\ ns'.pc = "idle" /\ iv_state' = ns.nstate
        /\ UNCHANGED <<nstates, rx, events, fw, missed, unsent>>
    BY <1>10 DEF NsChain, Idle, chipVars, histVars
  <2> QED
    BY <1>1, <2>1 DEF Final, JoinToCome, AuthWaits, BeforeJoin, LinkPending,
      BadPending, Handling
<1>11. CASE FwJoins
  BY <1>11 DEF FwJoins, TypeOK
<1>12. CASE FwFails
  <2>1. /\ events' = Append(events, "ssid_fail") /\ fw.st = "joining"
        /\ UNCHANGED <<iv_state, nstates, ns, rx, missed, unsent>>
    BY <1>12 DEF FwFails, netVars, histVars
  <2>2. Has(events', BadEvents) /\ (LinkPending => LinkPending')
    BY <2>1, EventFacts DEF Kinds, BadEvents
  <2> QED
    BY <1>1, <2>1, <2>2 DEF Final, BadPending, Handling
<1>13. CASE FwLosesLink
  <2>1. events' = Append(events, "down")
    BY <1>13 DEF FwLosesLink, Leave
  <2>2. Has(events', BadEvents) /\ LinkPending'
    BY <2>1, EventFacts DEF Kinds, BadEvents, LinkEvents
  <2> QED
    BY <2>2 DEF BadPending
<1>14. CASE RxDispatch
  <2>1. /\ rx.pc = "idle" /\ rx'.pc = "test" /\ rx'.ev = Head(events)
        /\ events # << >> /\ events' = Tail(events)
        /\ UNCHANGED <<iv_state, nstates, ns, fw, missed, unsent>>
    BY <1>14 DEF RxDispatch, netVars, histVars
  <2>2. /\ Head(events) \in Kinds
        /\ LinkPending => Head(events) \in LinkEvents \/ LinkPending'
        /\ Has(events, BadEvents) =>
             Head(events) \in BadEvents \/ Has(events', BadEvents)
    BY <1>2, <2>1, TailFacts, HasTail DEF LinkPending
  <2>3. CASE Head(events) = "up"
    <3>1. LinkPending' \/ fw.st = "up"
      <4>1. ~LinkPending' =>
              1 \in DOMAIN events /\ IsLast(events, 1) /\ Head(events) = events[1]
        BY <1>2, <2>1, <2>3, LastTail DEF LinkPending, LinkEvents
      <4> QED
        BY <1>1, <2>3, <4>1 DEF LinkTold
    <3>2. Final' = "RUN"
      BY <2>1, <2>3 DEF Final
    <3> QED
      BY <2>1, <3>1, <3>2
  <2>4. CASE Head(events) # "up"
    <3>1. Final' = Final
      BY <2>1, <2>4 DEF Final
    <3> QED
      BY <1>1, <2>1, <2>2, <2>4, <3>1
        DEF Handling, BadPending, BadEvents, LinkEvents, JoinToCome, AuthWaits
  <2> QED
    BY <2>3, <2>4
<1>15. CASE RxIgnore
  <2>1. /\ rx.pc = "test" /\ rx'.pc = "idle"
        /\ UNCHANGED <<iv_state, nstates, ns, events, fw, unsent>>
    BY <1>15 DEF RxIgnore, NoHandler, netVars, chipVars
  <2>2. CASE rx.ev = "ssid_ok" /\ missed' = missed
    BY <1>1, <2>1, <2>2 DEF Final, JoinToCome, AuthWaits, LinkPending,
      BadPending, BadEvents, Handling
  <2>3. CASE /\ rx.ev \in {"down", "ssid_fail"}
             /\ iv_state \notin Concerned(rx.ev)
             /\ missed' = (missed \/ ns.pc # "idle" \/ nstates # << >>)
    BY <1>1, <2>1, <2>3 DEF Final, Concerned, JoinToCome, AuthWaits,
      LinkPending, BadPending, BadEvents, Handling
  <2> QED
    BY <1>15, <2>2, <2>3 DEF RxIgnore
<1>16. CASE RxAct
  <2>1. /\ rx.pc # "idle" /\ rx'.pc # "idle" /\ rx'.ev = rx.ev
        /\ UNCHANGED <<iv_state, nstates, ns, events, fw, missed, unsent>>
    BY <1>16 DEF RxAct, netVars, chipVars, histVars, TypeOK
  <2> QED
    BY <1>1, <2>1 DEF Final, JoinToCome, AuthWaits, LinkPending, BadPending,
      Handling
<1>17. CASE RxRequest
  <2>1. PICK st \in {"RUN", "SCAN"} :
          nstates' = Append(nstates, st) /\ (st = "RUN" => rx.ev = "up")
    BY <1>17 DEF RxRequest, NewState
  <2>2. nstates' # << >> /\ nstates'[Len(nstates')] = st
    BY <2>1, RequestFacts DEF States
  <2>3. /\ rx.pc # "idle" /\ rx'.pc = "idle"
        /\ UNCHANGED <<events, fw, missed>>
    BY <1>17 DEF RxRequest, NoHandler, chipVars, histVars
  <2> QED
    BY <1>1, <2>1, <2>2, <2>3 DEF Final, LinkPending, Handling
<1>18. CASE KeyBegin \/ KeyRun \/ Walk \/ Parent \/ UNCHANGED vars
  <2> SUFFICES UNCHANGED <<iv_state, nstates, ns, rx, events, fw, missed,
                           unsent>>
    BY <1>3
  <2> QED
    BY <1>18 DEF KeyBegin, KeyRun, KeyTakeCom, KeyTakeNode, KeyRefuse, KeyDrop,
      KeySend, KeyRelockCom, KeyRelockNode, KeyReturn, Walk, Parent, ParentDown,
      ParentUp, ParentConfig, vars, netVars, chipVars, histVars
<1> QED
  BY <1>4, <1>5, <1>6, <1>7, <1>8, <1>9, <1>10, <1>11, <1>12, <1>13, <1>14,
    <1>15, <1>16, <1>17, <1>18 DEF Next, Newstate, Handler, Firmware

-----------------------------------------------------------------------------
(* The invariant and what follows from it.                                 *)

\* The inductive invariant holds to begin with.
LEMMA InitInv == Init => IInv
<1> SUFFICES ASSUME Init PROVE IInv
  OBVIOUS
<1> USE AssocAssumption DEF Init
<1>1. TypeOK
  <2>1. ns \in [pc : NsSteps, nstate : States, bssid : Some, chan : Some, sec : Some]
    BY DEF Idle, NsSteps, States, Some
  <2>2. key \in [pc : KeySteps, com : BOOLEAN, node : BOOLEAN]
    BY DEF KeySteps
  <2>3. /\ rx \in [pc : {"idle", "test", "request"}, ev : Kinds]
        /\ fw \in [st : {"idle", "joining", "up"}, bssid : Some, chan : Some]
    BY DEF NoHandler, Kinds, FwIdle, Some
  <2>4. /\ nstates \in Seq(States) /\ events \in Seq(Kinds)
        /\ requests \in 0 .. MaxRequests
        /\ losses \in 0 .. MaxLosses
        /\ keyops \in 0 .. MaxKeyOps
    OBVIOUS
  <2> QED
    BY <2>1, <2>2, <2>3, <2>4 DEF TypeOK, States, Some
<1>2. nstates = << >> /\ events = << >> /\ ~AuthWaits /\ ~LinkPending
  BY DEF AuthWaits, LinkPending, Has
<1>3. Chosen
  BY <1>2 DEF Chosen, Steps, Copies, Joined, BeforeJoin, Idle, FwIdle
<1>4. LinkTold
  BY <1>2 DEF LinkTold
<1>5. Final = "INIT"
  BY DEF Final, NoHandler, Idle
<1>6. Told
  BY <1>4, <1>5 DEF Told, RunIsTold, AuthIsTold
<1>7. Locks
  BY DEF Locks, KeyLocks, WalkLocks, Waiters
<1>8. ParentSound
  BY DEF ParentSound, DongleFollows
<1> QED
  BY <1>1, <1>3, <1>6, <1>7, <1>8 DEF IInv

\* It is inductive, for any number of networks, requests, losses and keys.
LEMMA Invariant == Spec => []IInv
<1>1. IInv /\ [Next]_vars => IInv'
  BY TypeStep, LocksStep, ParentStep, ChosenStep, LinkToldStep, FinalStep
    DEF IInv, Told
<1> QED
  BY <1>1, InitInv, PTL DEF Spec

\* dongle_up says whether the interface is up whenever no parent task is left to
\* run, however often the interface changes during the commands of cyw_parent.
THEOREM ParentRight == Spec => []DongleFollows
<1>1. IInv => DongleFollows
  BY DEF IInv, ParentSound
<1> QED
  BY <1>1, Invariant, PTL

\* The BSS that the firmware joins is in the end the one that net80211 has in
\* iv_bss, with its channel and security (cyw_newstate, S_AUTH).
THEOREM JoinsChosen == Spec => []SettlesOnChosen
<1>1. IInv => SettlesOnChosen
  <2> SUFFICES ASSUME IInv, Settled PROVE SettlesOnChosen
    BY DEF SettlesOnChosen
  <2>1. ~AuthWaits
    BY DEF Settled, AuthWaits, Has
  <2>2. ~JoinToCome
    BY <2>1 DEF Settled, JoinToCome, BeforeJoin
  <2> QED
    BY <2>2 DEF IInv, Chosen, Joined, SettlesOnChosen
<1> QED
  BY <1>1, Invariant, PTL

\* net80211 and link_up follow the link of the firmware: only an event that came in
\* the middle of a transition (cyw_link_event, cyw_set_ssid_event) or a join that
\* could not be sent leaves S_AUTH or S_RUN without one.
THEOREM LinkFollowed == Spec => []FollowsLink
<1>1. IInv => FollowsLink
  <2> SUFFICES ASSUME IInv PROVE FollowsLink
    OBVIOUS
  <2>1. Settled => ~AuthWaits /\ ~LinkPending /\ ~BadPending /\ ~Handling({"down"})
    BY DEF Settled, AuthWaits, LinkPending, BadPending, Handling, Has
  <2>2. Settled => ~JoinToCome /\ Final = iv_state
    BY <2>1 DEF Settled, JoinToCome, BeforeJoin, Final
  <2>3. StuckOnlyByEarlyEvent
    BY <2>1, <2>2 DEF IInv, Told, RunIsTold, AuthIsTold, StuckOnlyByEarlyEvent
  <2>4. LinkUpIsReal
    BY <2>1 DEF IInv, Told, LinkTold, LinkUpIsReal
  <2> QED
    BY <2>3, <2>4 DEF IInv, FollowsLink
<1> QED
  BY <1>1, Invariant, PTL

\* Who a thread can be behind stays in a set that contains whom it waits for and
\* is closed under waiting.
LEMMA ClosedBehind ==
  ASSUME NEW S, NEW C, S \subseteq C, \A u \in C : Holders(u) \subseteq C
  PROVE  Behind(Behind(Behind(Behind(S)))) \subseteq C
<1>1. ASSUME NEW T, T \subseteq C PROVE Behind(T) \subseteq C
  BY <1>1 DEF Behind
<1>2. Behind(S) \subseteq C
  BY <1>1
<1>3. Behind(Behind(S)) \subseteq C
  BY <1>1, <1>2
<1>4. Behind(Behind(Behind(S))) \subseteq C
  BY <1>1, <1>3
<1> QED
  BY <1>1, <1>4

\* No circle of waiting threads: the thread that waits for f2_sx has no lock, the
\* one that waits for the node lock at most the IC lock.
THEOREM NoDeadlock == Spec => []NoWaitCycle
<1>1. IInv => NoWaitCycle
  <2> SUFFICES ASSUME IInv, NEW t \in Waiters, Holders(t) # {}
               PROVE  t \notin Behind(Behind(Behind(Behind(Holders(t)))))
    BY DEF NoWaitCycle
  <2> USE AssocAssumption DEF Waiters
  <2>1. TypeOK /\ KeyLocks /\ WalkLocks /\ {com, node} \subseteq {"key", "walk", NoOne}
    BY DEF IInv, Locks
  <2>2. SUFFICES ASSUME TRUE
        PROVE  \E C : /\ Holders(t) \subseteq C
                      /\ \A u \in C : Holders(u) \subseteq C
                      /\ t \notin C
    BY ClosedBehind
  <2>3. /\ Holders(NoOne) = {}
        /\ Holders("walk") = IF walk = "com" THEN {node} ELSE {}
        /\ Holders("rx") = IF rx.pc = "request" THEN {com} ELSE {}
    BY DEF Holders
  <2>4. /\ key.pc \in {"com", "relock_com"} => Holders("key") = {com}
        /\ key.pc \in {"node", "relock_node"} => Holders("key") = {node}
        /\ key.pc = "send" => Holders("key") \subseteq {"rx"}
        /\ key.pc \in {"idle", "called", "return"} => Holders("key") = {}
    BY DEF Holders, F2Holder
  <2>5. key.pc \in KeySteps
    BY <2>1 DEF TypeOK
  <2>6. CASE t \in {"newstate", "parent"}
    <3> DEFINE C == {"key", "walk", "rx", NoOne}
    <3>1. Holders("key") \subseteq C
      BY <2>1, <2>4, <2>5 DEF KeySteps
    <3>2. Holders("walk") \subseteq C /\ Holders("rx") \subseteq C
      BY <2>1, <2>3
    <3>3. Holders(t) \subseteq C
      BY <2>1, <2>6 DEF Holders, F2Holder
    <3>4. t \notin C
      BY <2>6
    <3> QED
      BY <2>3, <3>1, <3>2, <3>3, <3>4
  <2>7. CASE t = "rx"
    <3>1. CASE key.pc = "send"
      <4> DEFINE C == {"walk", NoOne}
      <4>1. {com, node} \subseteq C
        BY <2>1, <3>1 DEF KeyLocks
      <4>2. Holders("walk") \subseteq C /\ Holders("rx") \subseteq C
        BY <2>3, <4>1
      <4> QED
        BY <2>3, <2>7, <4>2
    <3>2. CASE key.pc # "send"
      <4> DEFINE C == {"key", "walk", NoOne}
      <4>1. Holders("key") \subseteq C
        BY <2>1, <2>4, <2>5, <3>2 DEF KeySteps
      <4>2. Holders("walk") \subseteq C /\ Holders("rx") \subseteq C
        BY <2>1, <2>3
      <4> QED
        BY <2>3, <2>7, <4>1, <4>2
    <3> QED
      BY <3>1, <3>2
  <2>8. CASE t = "key"
    <3>1. node \in {"walk", NoOne}
      BY <2>1, <2>4, <2>8 DEF KeyLocks
    <3>2. CASE key.pc \in {"node", "relock_node"}
      <4> DEFINE C == {"walk", NoOne}
      <4>1. Holders("walk") \subseteq C /\ Holders("key") \subseteq C
        BY <2>3, <2>4, <3>1, <3>2
      <4> QED
        BY <2>3, <2>8, <4>1
    <3>3. CASE key.pc \in {"com", "relock_com", "send"}
      <4> DEFINE C == {"walk", "rx", NoOne}
      <4>1. com \in {"walk", NoOne}
        BY <2>1, <3>3 DEF KeyLocks
      <4>2. /\ Holders("walk") \subseteq C
            /\ Holders("key") \subseteq C
            /\ Holders("rx") \subseteq C
        BY <2>3, <2>4, <3>1, <3>3, <4>1
      <4> QED
        BY <2>3, <2>8, <4>2
    <3> QED
      BY <2>4, <2>5, <2>8, <3>2, <3>3 DEF KeySteps
  <2>9. CASE t = "walk"
    <3> DEFINE C == {node, NoOne}
    <3>1. walk = "com" /\ Holders("walk") = {node}
      BY <2>3, <2>9
    <3>2. node \in {"key", NoOne}
      BY <2>1, <3>1 DEF WalkLocks
    <3>3. node = "key" => Holders("key") = {}
      BY <2>1, <2>4 DEF KeyLocks
    <3>4. \A u \in C : Holders(u) \subseteq C
      BY <2>3, <3>2, <3>3
    <3>5. t \notin C
      BY <2>9, <3>2
    <3> QED
      BY <2>9, <3>1, <3>4, <3>5
  <2> QED
    BY <2>6, <2>7, <2>8, <2>9
<1> QED
  BY <1>1, Invariant, PTL
==============================================================================
