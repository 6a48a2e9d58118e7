------------------------------- MODULE CywAssoc -------------------------------
(***************************************************************************)
(* Association with the CYW43455.  net80211 runs the transitions it is     *)
(* asked for one by one on its state task, with the IC lock held;          *)
(* cyw_newstate drops that lock for its commands and chains to the default *)
(* handler, which sets iv_state, at the end.  The firmware joins by itself *)
(* and reports with E_SET_SSID and E_LINK, whose handlers run on the       *)
(* receive task, f2_sx held, and ask net80211 for the next transition.     *)
(* Next to them net80211 installs keys, with its locks held, and brings    *)
(* the dongle up on its parent task.                                       *)
(*                                                                         *)
(* A command is one step that needs f2_sx, free unless a handler runs; the *)
(* abort of the scan and the chanspecs are in CywScan.                     *)
(***************************************************************************)
EXTENDS Integers, Sequences, FiniteSets

CONSTANTS
  Bss,         \* the networks net80211 may choose
  MaxRequests, \* bound: transitions asked for by the user or net80211
  MaxLosses,   \* bound: links the firmware loses by itself
  MaxKeyOps,   \* bound: keys installed or deleted
  Faults,      \* commands may fail
  NoOne,       \* a lock that is free
  NoBss

Waiters == {"newstate", "key", "walk", "rx", "parent"}

ASSUME AssocAssumption ==
  /\ MaxRequests \in Nat
  /\ MaxLosses \in Nat
  /\ MaxKeyOps \in Nat
  /\ Faults \in BOOLEAN
  /\ NoOne \notin Waiters
  /\ NoBss \notin Bss

VARIABLES
  iv_state, iv_bss,
  nstates,     \* transitions on net80211's state task
  ns,          \* cyw_newstate: its step, nstate, and what it took from the BSSID,
               \* the channel and the security of the BSS to join
  com, node,   \* holders of the IC lock and of the node table lock
  key,         \* cyw_key_set and cyw_key_delete: the step, the caller's locks
  walk,        \* another thread of net80211, which takes the IC and the node lock
  rx,          \* the handler on the receive task: its step and event
  events,      \* events in the chip
  link_up,
  fw,          \* the firmware: idle, joining or up, and with which BSS
  sec,         \* the BSS whose security settings it has, NoBss if mixed
  nrunning, parent_task, parent, dongle_up, radio,
  requests, losses, keyops,
  missed,      \* history: an event found iv_state before the transition was done
  unsent       \* history: the last S_AUTH ended without a join

lockVars   == <<com, node>>
netVars    == <<iv_state, iv_bss, nstates>>
chipVars   == <<events, fw, sec, losses>>
parentVars == <<nrunning, parent_task, parent, dongle_up, radio>>
keyVars    == <<key, keyops, walk>>
histVars   == <<missed, unsent>>
vars == <<netVars, ns, lockVars, keyVars, rx, chipVars, link_up, parentVars,
          requests, histVars>>

States    == {"INIT", "SCAN", "AUTH", "RUN"}
Kinds     == {"up", "down", "ssid_ok", "ssid_fail"}
NsSteps   == {"idle", "init", "disassoc", "clear", "copy", "flags", "security",
              "join", "fallback", "chain"}
KeySteps  == {"idle", "com", "node", "called", "send", "relock_com",
              "relock_node", "return"}
Idle      == [pc |-> "idle", nstate |-> "INIT", bssid |-> NoBss, chan |-> NoBss,
              sec |-> NoBss]
NoHandler == [pc |-> "idle", ev |-> "up"]
FwIdle    == [st |-> "idle", bssid |-> NoBss, chan |-> NoBss]

Init ==
  /\ iv_state = "INIT"
  /\ iv_bss = NoBss
  /\ nstates = << >>
  /\ ns = Idle
  /\ com = NoOne
  /\ node = NoOne
  /\ key = [pc |-> "idle", com |-> FALSE, node |-> FALSE]
  /\ walk = "idle"
  /\ rx = NoHandler
  /\ events = << >>
  /\ link_up = FALSE
  /\ fw = FwIdle
  /\ sec = NoBss
  /\ nrunning = 0
  /\ parent_task = FALSE
  /\ parent = "idle"
  /\ dongle_up = FALSE
  /\ radio = FALSE
  /\ requests = 0
  /\ losses = 0
  /\ keyops = 0
  /\ missed = FALSE
  /\ unsent = FALSE

\* A command needs f2_sx, which the receive task keeps during a handler.
CanSend == rx.pc = "idle"

F2Holder == IF rx.pc = "idle" THEN {} ELSE {"rx"}

\* ieee80211_new_state: the request goes to the state task, under the IC lock.
NewState(st) ==
  /\ com = NoOne
  /\ nstates' = Append(nstates, st)

-----------------------------------------------------------------------------
(* What the user and net80211 ask for.                                     *)

Request ==
  /\ requests < MaxRequests
  /\ requests' = requests + 1

\* ifconfig up and down: the parent task runs, and a scan or INIT follows.
IfUp ==
  /\ Request
  /\ nrunning = 0
  /\ nrunning' = 1
  /\ parent_task' = TRUE
  /\ NewState("SCAN")
  /\ UNCHANGED <<iv_state, iv_bss, ns, lockVars, keyVars, rx, chipVars, link_up,
                 parent, dongle_up, radio, histVars>>

IfDown ==
  /\ Request
  /\ nrunning = 1
  /\ nrunning' = 0
  /\ parent_task' = TRUE
  /\ NewState("INIT")
  /\ UNCHANGED <<iv_state, iv_bss, ns, lockVars, keyVars, rx, chipVars, link_up,
                 parent, dongle_up, radio, histVars>>

\* net80211 or wpa_supplicant chooses a BSS and asks for AUTH.
Choose ==
  /\ Request
  /\ nrunning = 1
  /\ iv_bss' \in Bss
  /\ NewState("AUTH")
  /\ UNCHANGED <<iv_state, ns, lockVars, keyVars, rx, chipVars, link_up,
                 parentVars, histVars>>

-----------------------------------------------------------------------------
(* cyw_newstate.                                                           *)

NsGoto(step) == ns' = [ns EXCEPT !.pc = step]

\* Slip: a second S_AUTH is taken for a repetition of the first.
NsBeginSkipsSame ==
  /\ ns.pc = "idle"
  /\ com = NoOne
  /\ nstates # << >>
  /\ ns' = [Idle EXCEPT !.nstate = Head(nstates),
                        !.pc = CASE Head(nstates) = iv_state -> "chain"
                                 [] Head(nstates) # iv_state
                                    /\ Head(nstates) = "INIT" -> "init"
                                 [] Head(nstates) # iv_state
                                    /\ Head(nstates) = "AUTH" -> "copy"
                                 [] OTHER -> "chain"]
  /\ nstates' = Tail(nstates)
  /\ UNCHANGED <<iv_state, iv_bss, lockVars, keyVars, rx, chipVars, link_up,
                 parentVars, requests, histVars>>

\* The state task calls it with the IC lock, which it drops at once.
NsBegin ==
  /\ ns.pc = "idle"
  /\ com = NoOne
  /\ nstates # << >>
  /\ ns' = [Idle EXCEPT !.nstate = Head(nstates),
                        !.pc = CASE Head(nstates) = "INIT" -> "init"
                                 [] Head(nstates) = "AUTH" -> "copy"
                                 [] OTHER -> "chain"]
  /\ nstates' = Tail(nstates)
  /\ UNCHANGED <<iv_state, iv_bss, lockVars, keyVars, rx, chipVars, link_up,
                 parentVars, requests, histVars>>

NsInit ==
  /\ ns.pc = "init"
  /\ NsGoto(IF link_up THEN "disassoc" ELSE "chain")
  /\ UNCHANGED <<netVars, lockVars, keyVars, rx, chipVars, link_up, parentVars,
                 requests, histVars>>

\* The firmware leaves the network and reports it.
Leave ==
  /\ fw' = FwIdle
  /\ events' = IF fw.st = "up" THEN Append(events, "down") ELSE events

\* WLC_DISASSOC; its result is ignored ...
NsDisassoc ==
  /\ ns.pc = "disassoc"
  /\ CanSend
  /\ \/ Leave
     \/ Faults /\ UNCHANGED <<fw, events>>
  /\ NsGoto("clear")
  /\ UNCHANGED <<netVars, lockVars, keyVars, rx, sec, losses, link_up,
                 parentVars, requests, histVars>>

\* ... and link_up is cleared without mtx.
NsClear ==
  /\ ns.pc = "clear"
  /\ link_up' = FALSE
  /\ NsGoto("chain")
  /\ UNCHANGED <<netVars, lockVars, keyVars, rx, chipVars, parentVars, requests,
                 histVars>>

\* S_AUTH: BSSID, channel and SSID are copied from iv_bss under the IC lock.
NsCopy ==
  /\ ns.pc = "copy"
  /\ com = NoOne
  /\ ns' = IF iv_bss = NoBss
           THEN [ns EXCEPT !.pc = "chain"]
           ELSE [ns EXCEPT !.pc = "flags", !.bssid = iv_bss, !.chan = iv_bss]
  /\ UNCHANGED <<netVars, lockVars, keyVars, rx, chipVars, link_up, parentVars,
                 requests, histVars>>

\* wsec and wpa_auth follow from iv_flags, read without the lock.
NsFlags ==
  /\ ns.pc = "flags"
  /\ ns' = [ns EXCEPT !.pc = "security", !.sec = iv_bss]
  /\ UNCHANGED <<netVars, lockVars, keyVars, rx, chipVars, link_up, parentVars,
                 requests, histVars>>

\* The chanspec command, the four queries, and cyw_set_security: auth, wsec and
\* wpa_auth, up to the first that fails; the error is only logged.  (The channel
\* of the chanspec command is read from iv_bss a second time, without the lock; it
\* moves the radio beforehand, and the join has the channel of NsCopy again.)
NsSecurity ==
  /\ ns.pc = "security"
  /\ CanSend
  /\ \/ sec' = ns.sec
     \/ Faults /\ sec' = NoBss
  /\ NsGoto("join")
  /\ UNCHANGED <<netVars, lockVars, keyVars, rx, events, fw, losses, link_up,
                 parentVars, requests, histVars>>

\* The firmware starts to join, leaving the network it was in.
StartJoin ==
  /\ fw' = [st |-> "joining", bssid |-> ns.bssid, chan |-> ns.chan]
  /\ unsent' = FALSE
  /\ events' = IF fw.st = "up" THEN Append(events, "down") ELSE events

\* The "join" iovar, with the copies of BSSID and channel ...
NsJoin ==
  /\ ns.pc = "join"
  /\ CanSend
  /\ \/ StartJoin /\ NsGoto("chain")
     \/ Faults /\ NsGoto("fallback") /\ UNCHANGED <<fw, events, unsent>>
  /\ UNCHANGED <<netVars, lockVars, keyVars, rx, sec, losses, link_up,
                 parentVars, requests, missed>>

\* ... or else WLC_SET_SSID, whose error is not looked at.
NsFallback ==
  /\ ns.pc = "fallback"
  /\ CanSend
  /\ \/ StartJoin
     \/ unsent' = TRUE /\ UNCHANGED <<fw, events>>
  /\ NsGoto("chain")
  /\ UNCHANGED <<netVars, lockVars, keyVars, rx, sec, losses, link_up,
                 parentVars, requests, missed>>

\* The IC lock again, and the default handler, which sets iv_state; for S_AUTH
\* the timer that would give up on the association is stopped.
NsChain ==
  /\ ns.pc = "chain"
  /\ com = NoOne
  /\ iv_state' = ns.nstate
  /\ ns' = Idle
  /\ UNCHANGED <<iv_bss, nstates, lockVars, keyVars, rx, chipVars, link_up,
                 parentVars, requests, histVars>>

-----------------------------------------------------------------------------
(* The firmware.                                                           *)

FwJoins ==
  /\ fw.st = "joining"
  /\ fw' = [fw EXCEPT !.st = "up"]
  /\ events' = events \o <<"ssid_ok", "up">>
  /\ UNCHANGED <<netVars, ns, lockVars, keyVars, rx, sec, losses, link_up,
                 parentVars, requests, histVars>>

FwFails ==
  /\ fw.st = "joining"
  /\ fw' = FwIdle
  /\ events' = Append(events, "ssid_fail")
  /\ UNCHANGED <<netVars, ns, lockVars, keyVars, rx, sec, losses, link_up,
                 parentVars, requests, histVars>>

FwLosesLink ==
  /\ fw.st = "up"
  /\ losses < MaxLosses
  /\ losses' = losses + 1
  /\ Leave
  /\ UNCHANGED <<netVars, ns, lockVars, keyVars, rx, sec, link_up, parentVars,
                 requests, histVars>>

-----------------------------------------------------------------------------
(* The handlers, on the receive task.                                      *)

\* cyw_link_event sets link_up under mtx before anything else.
RxDispatch ==
  /\ rx.pc = "idle"
  /\ events # << >>
  /\ rx' = [pc |-> "test", ev |-> Head(events)]
  /\ events' = Tail(events)
  /\ link_up' = IF Head(events) \in {"up", "down"}
                THEN Head(events) = "up" ELSE link_up
  /\ UNCHANGED <<netVars, ns, lockVars, keyVars, fw, sec, losses, parentVars,
                 requests, histVars>>

\* Slip: only S_RUN is left.
ConcernedRun(ev) == {"RUN"}

\* The state in which a down or a failed join makes the handler act.
Concerned(ev) == IF ev = "down" THEN {"RUN", "AUTH"} ELSE {"AUTH"}

\* Nothing to do: the join went well, or iv_state, read without a lock, is not
\* one that has to be left.
RxIgnore ==
  /\ rx.pc = "test"
  /\ \/ rx.ev = "ssid_ok" /\ UNCHANGED missed
     \/ /\ rx.ev \in {"down", "ssid_fail"}
        /\ iv_state \notin Concerned(rx.ev)
        /\ missed' = (missed \/ ns.pc # "idle" \/ nstates # << >>)
  /\ rx' = NoHandler
  /\ UNCHANGED <<netVars, ns, lockVars, keyVars, chipVars, link_up, parentVars,
                 requests, unsent>>

RxAct ==
  /\ rx.pc = "test"
  /\ \/ rx.ev = "up"
     \/ rx.ev \in {"down", "ssid_fail"} /\ iv_state \in Concerned(rx.ev)
  /\ rx' = [rx EXCEPT !.pc = "request"]
  /\ UNCHANGED <<netVars, ns, lockVars, keyVars, chipVars, link_up, parentVars,
                 requests, histVars>>

\* ieee80211_new_state waits for the IC lock, with f2_sx held.
RxRequest ==
  /\ rx.pc = "request"
  /\ NewState(IF rx.ev = "up" THEN "RUN" ELSE "SCAN")
  /\ rx' = NoHandler
  /\ UNCHANGED <<iv_state, iv_bss, ns, lockVars, keyVars, chipVars, link_up,
                 parentVars, requests, histVars>>

-----------------------------------------------------------------------------
(* Keys.  net80211 calls with the IC lock, the node lock, both or none.    *)

KeyGoto(step) == key' = [key EXCEPT !.pc = step]

\* The next step after the ones that depend on a lock the caller has.
FromCom(k)  == IF k.com THEN "com" ELSE IF k.node THEN "node" ELSE "called"
FromNode(k) == IF k.node THEN "node" ELSE "called"

KeyBegin ==
  /\ key.pc = "idle"
  /\ keyops < MaxKeyOps
  /\ keyops' = keyops + 1
  /\ \E c, n \in BOOLEAN :
       LET k == [pc |-> "idle", com |-> c, node |-> n]
       IN  key' = [k EXCEPT !.pc = FromCom(k)]
  /\ UNCHANGED <<netVars, ns, lockVars, walk, rx, chipVars, link_up, parentVars,
                 requests, histVars>>

KeyTakeCom ==
  /\ key.pc = "com"
  /\ com = NoOne
  /\ com' = "key"
  /\ KeyGoto(FromNode(key))
  /\ UNCHANGED <<netVars, ns, node, keyops, walk, rx, chipVars, link_up,
                 parentVars, requests, histVars>>

KeyTakeNode ==
  /\ key.pc = "node"
  /\ node = NoOne
  /\ node' = "key"
  /\ KeyGoto("called")
  /\ UNCHANGED <<netVars, ns, com, keyops, walk, rx, chipVars, link_up,
                 parentVars, requests, histVars>>

\* cyw_key_set refuses a cipher or a length it does not know.
KeyRefuse ==
  /\ key.pc = "called"
  /\ KeyGoto("return")
  /\ UNCHANGED <<netVars, ns, lockVars, keyops, walk, rx, chipVars, link_up,
                 parentVars, requests, histVars>>

\* Slip: the IC lock is kept for the command.
KeyDropKeepsCom ==
  /\ key.pc = "called"
  /\ node' = IF key.node THEN NoOne ELSE node
  /\ KeyGoto("send")
  /\ UNCHANGED <<netVars, ns, com, keyops, walk, rx, chipVars, link_up,
                 parentVars, requests, histVars>>

\* Both drop the locks they find held, the node lock first ...
KeyDrop ==
  /\ key.pc = "called"
  /\ node' = IF key.node THEN NoOne ELSE node
  /\ com' = IF key.com THEN NoOne ELSE com
  /\ KeyGoto("send")
  /\ UNCHANGED <<netVars, ns, keyops, walk, rx, chipVars, link_up, parentVars,
                 requests, histVars>>

\* ... send wsec_key ...
KeySend ==
  /\ key.pc = "send"
  /\ CanSend
  /\ KeyGoto(CASE key.com -> "relock_com"
               [] ~key.com /\ key.node -> "relock_node"
               [] OTHER -> "return")
  /\ UNCHANGED <<netVars, ns, lockVars, keyops, walk, rx, chipVars, link_up,
                 parentVars, requests, histVars>>

\* ... and take the locks back, the IC lock first.
KeyRelockCom ==
  /\ key.pc = "relock_com"
  /\ com = NoOne
  /\ com' = "key"
  /\ KeyGoto(IF key.node THEN "relock_node" ELSE "return")
  /\ UNCHANGED <<netVars, ns, node, keyops, walk, rx, chipVars, link_up,
                 parentVars, requests, histVars>>

KeyRelockNode ==
  /\ key.pc = "relock_node"
  /\ node = NoOne
  /\ node' = "key"
  /\ KeyGoto("return")
  /\ UNCHANGED <<netVars, ns, com, keyops, walk, rx, chipVars, link_up,
                 parentVars, requests, histVars>>

\* Back in net80211, which releases what it holds.
KeyReturn ==
  /\ key.pc = "return"
  /\ node' = IF key.node THEN NoOne ELSE node
  /\ com' = IF key.com THEN NoOne ELSE com
  /\ KeyGoto("idle")
  /\ UNCHANGED <<netVars, ns, keyops, walk, rx, chipVars, link_up, parentVars,
                 requests, histVars>>

\* net80211 elsewhere: the IC lock, then the node lock, and back.
Walk ==
  /\ \/ walk = "idle" /\ com = NoOne /\ com' = "walk" /\ walk' = "com"
        /\ UNCHANGED node
     \/ walk = "com" /\ node = NoOne /\ node' = "walk" /\ walk' = "both"
        /\ UNCHANGED com
     \/ walk = "both" /\ node' = NoOne /\ com' = NoOne /\ walk' = "idle"
  /\ UNCHANGED <<netVars, ns, key, keyops, rx, chipVars, link_up, parentVars,
                 requests, histVars>>

-----------------------------------------------------------------------------
(* cyw_parent, on the parent task.                                         *)

\* Slip: dongle_up stays set when the interface goes down.
ParentDownKeepsUp ==
  /\ parent = "idle" /\ parent_task
  /\ parent_task' = FALSE
  /\ nrunning = 0
  /\ UNCHANGED <<netVars, ns, lockVars, keyVars, rx, chipVars, link_up, nrunning,
                 parent, dongle_up, radio, requests, histVars>>

ParentDown ==
  /\ parent = "idle" /\ parent_task
  /\ parent_task' = FALSE
  /\ nrunning = 0
  /\ dongle_up' = FALSE
  /\ UNCHANGED <<netVars, ns, lockVars, keyVars, rx, chipVars, link_up, nrunning,
                 parent, radio, requests, histVars>>

\* nrunning > 0: WLC_UP if the dongle is not up, then, after the pause ...
ParentUp ==
  /\ parent = "idle" /\ parent_task
  /\ parent_task' = FALSE
  /\ nrunning = 1
  /\ IF dongle_up
     THEN UNCHANGED <<parent, radio>>
     ELSE /\ CanSend
          /\ radio' \in {TRUE} \union (IF Faults THEN {radio} ELSE {})
          /\ parent' = "config"
  /\ UNCHANGED <<netVars, ns, lockVars, keyVars, rx, chipVars, link_up, nrunning,
                 dongle_up, requests, histVars>>

\* ... WLC_SET_INFRA and the other settings; dongle_up, whatever their results.
ParentConfig ==
  /\ parent = "config"
  /\ CanSend
  /\ dongle_up' = TRUE
  /\ parent' = "idle"
  /\ UNCHANGED <<netVars, ns, lockVars, keyVars, rx, chipVars, link_up, nrunning,
                 parent_task, radio, requests, histVars>>

-----------------------------------------------------------------------------

Newstate == NsBegin \/ NsInit \/ NsDisassoc \/ NsClear \/ NsCopy \/ NsFlags
            \/ NsSecurity \/ NsJoin \/ NsFallback \/ NsChain
Handler  == RxDispatch \/ RxIgnore \/ RxAct \/ RxRequest
KeyRun   == KeyTakeCom \/ KeyTakeNode \/ KeyRefuse \/ KeyDrop \/ KeySend
            \/ KeyRelockCom \/ KeyRelockNode \/ KeyReturn
Parent   == ParentDown \/ ParentUp \/ ParentConfig
Firmware == FwJoins \/ FwFails

Next ==
  \/ IfUp \/ IfDown \/ Choose
  \/ Newstate \/ Handler \/ KeyBegin \/ KeyRun \/ Walk \/ Parent
  \/ Firmware \/ FwLosesLink

Spec == Init /\ [][Next]_vars

-----------------------------------------------------------------------------
(* Properties.                                                             *)

Some == Bss \union {NoBss}

TypeOK ==
  /\ iv_state \in States
  /\ iv_bss \in Some
  /\ nstates \in Seq(States)
  /\ ns \in [pc : NsSteps, nstate : States, bssid : Some, chan : Some, sec : Some]
  /\ com \in Waiters \union {NoOne}
  /\ node \in Waiters \union {NoOne}
  /\ key \in [pc : KeySteps, com : BOOLEAN, node : BOOLEAN]
  /\ walk \in {"idle", "com", "both"}
  /\ rx \in [pc : {"idle", "test", "request"}, ev : Kinds]
  /\ events \in Seq(Kinds)
  /\ fw \in [st : {"idle", "joining", "up"}, bssid : Some, chan : Some]
  /\ sec \in Some
  /\ nrunning \in {0, 1}
  /\ parent \in {"idle", "config"}
  /\ {link_up, parent_task, dongle_up, radio, missed, unsent} \subseteq BOOLEAN
  /\ requests \in 0 .. MaxRequests
  /\ losses \in 0 .. MaxLosses
  /\ keyops \in 0 .. MaxKeyOps

\* Nothing is on its way between the firmware and net80211.
Settled ==
  /\ nstates = << >>
  /\ ns.pc = "idle"
  /\ events = << >>
  /\ rx.pc = "idle"

\* What the firmware joins, or has joined, once everything has settled, is the BSS
\* that net80211 has in iv_bss, on its channel and with its security settings, in
\* whatever order choices, commands and flags were read (cyw_newstate, S_AUTH),
\* unless the commands of the last join failed.
SettlesOnChosen ==
  Settled /\ fw.st # "idle" /\ ~unsent =>
    /\ fw.bssid = iv_bss
    /\ fw.chan = iv_bss
    /\ sec \in {iv_bss, NoBss}

\* The only way to be left in S_AUTH with nothing being joined, or in S_RUN without
\* a link, is an event that came while a transition was under way, when iv_state
\* was not yet what the handler looks for (cyw_link_event, cyw_set_ssid_event), or
\* a join whose two commands both failed.
StuckOnlyByEarlyEvent ==
  Settled /\ ~missed /\ ~unsent =>
    /\ iv_state = "AUTH" => fw.st # "idle"
    /\ iv_state = "RUN" => fw.st = "up"

\* Once everything has settled link_up is not set without a link.
LinkUpIsReal ==
  Settled /\ link_up => fw.st = "up"

\* The states of net80211 and of the driver follow the link of the firmware through
\* any order of requests, commands and events.
FollowsLink == TypeOK /\ StuckOnlyByEarlyEvent /\ LinkUpIsReal

\* When no parent task is left dongle_up says whether the interface is up, through
\* tasks that were merged and changes during the commands of cyw_parent.
DongleFollows ==
  parent = "idle" /\ ~parent_task => (dongle_up <=> nrunning = 1)

\* Who holds what a thread waits for.
Holders(t) ==
  CASE t = "newstate" /\ ns.pc \in {"copy", "chain"} -> {com}
    [] t = "newstate" /\ ns.pc \in {"disassoc", "security", "join", "fallback"}
         -> F2Holder
    [] t = "key" /\ key.pc \in {"com", "relock_com"} -> {com}
    [] t = "key" /\ key.pc \in {"node", "relock_node"} -> {node}
    [] t = "key" /\ key.pc = "send" -> F2Holder
    [] t = "parent" /\ parent = "config" -> F2Holder
    [] t = "rx" /\ rx.pc = "request" -> {com}
    [] t = "walk" /\ walk = "com" -> {node}
    [] OTHER -> {}

\* The threads of a set and those that one of them waits for.
Behind(S) == S \union UNION {Holders(t) : t \in S}

\* No threads wait for each other in a circle: handlers wait for the IC lock with
\* f2_sx held, so nobody may wait for an answer of the firmware with the IC lock
\* (cyw_newstate, cyw_key_set, cyw_key_delete), and the locks dropped for a command
\* are taken back in the order in which the others take them.
NoWaitCycle ==
  \A t \in Waiters :
    Holders(t) # {} => t \notin Behind(Behind(Behind(Behind(Holders(t)))))
=============================================================================
