------------------------------- MODULE GemLink -------------------------------
(***************************************************************************)
(* The link of rp1_eth: what MOD_LOAD does to the clock generator, the MAC  *)
(* and the PHY before rp1eth_attach makes an interface of it, the interface *)
(* going up and down, its link poll, and MOD_UNLOAD.                        *)
(*                                                                         *)
(* A write of NET_CTRL, which resets USER_IO, and the write of USER_IO that *)
(* follows it are one step, and so is a section under sc_mtx but for the    *)
(* two readings of BMSR, between which the link may change.  Registers that *)
(* are only printed are left out.                                           *)
(***************************************************************************)
EXTENDS Integers, SequencesExt, FiniteSets

CONSTANTS
  Partners,  \* what link partners can do: sets of modes
  MaxPolls   \* rounds of the wait for auto-negotiation

\* Speeds are those of SPD_OVR and of {GIGE_EN, SPEED100}: 0 is 10M, 1 is
\* 100M, 2 is 1G.
Modes == (0 .. 2) \X {"half", "full"}

ASSUME LinkAssumption ==
  /\ Partners \subseteq SUBSET Modes
  /\ {} \notin Partners
  /\ MaxPolls \in Nat \ {0}

VARIABLES
  pc,       \* a step of Loading or Unloading, "loaded" or "unloaded"
  res,      \* what is allocated, mapped or registered
  treefail, \* history: the sysctl node could not be made
  reader,   \* a sysctl handler that is reading "mac", "cfg" or "none"
  netctl,   \* NET_CTRL
  usrio,    \* USER_IO says RGMII
  netcfg,   \* NET_CFG
  clk,      \* CLKGEN of eth_cfg
  reset,    \* RESET_N of the PHY is low
  sampled,  \* the TX clock it saw when it left reset, -1 for none
  delays,   \* the settings for rgmii-id made in the PHY
  link,     \* what the partner can do if the copper link is up, or {}
  latch,    \* BMSR will once more say that it is down
  polls,    \* rounds of the wait for auto-negotiation
  mode,     \* speed and duplex resolved
  shadow,   \* net_cfg_shadow
  running,  \* IFF_DRV_RUNNING, and TX_EN and RX_EN of net_ctl_shadow
  promisc,  \* IFF_PROMISC
  armed,    \* tick_ch is scheduled
  tick,     \* rp1eth_tick: "no", "once" BMSR is read, "clk" is changed
  link_up,
  lstate    \* what if_link_state_change was told

regVars  == <<netctl, usrio, netcfg, clk>>
phyVars  == <<reset, sampled, delays>>
lineVars == <<link, latch>>
loadVars == <<polls, mode>>
ifVars   == <<shadow, running, promisc, armed, tick, link_up, lstate>>
vars == <<pc, res, treefail, reader, regVars, phyVars, lineVars, loadVars,
          ifVars>>

Loading ==
  << "fdt", "map_mac", "map_cfg", "restart", "stop_1g", "start_1g", "gem",
     "sysctls", "pads", "assert", "release", "early", "bmsr", "delays", "aneg",
     "resolve", "netcfg", "stop_clk", "start_clk", "enable", "pause",
     "softc", "desc_tag", "mbuf_tag", "dmamem", "dmaload", "ifattach",
     "loaded" >>

Unloading ==
  << "stop", "drain", "ctx_free", "unmap_cfg", "unmap_mac", "free",
     "unloaded" >>

After(p) ==
  LET s == IF Contains(Loading, p) THEN Loading ELSE Unloading
  IN  s[1 + CHOOSE k \in DOMAIN s : s[k] = p]

Settings == {"skew", "gtxclk", "dllapd"}

\* The speed {GIGE_EN, SPEED100} stands for, 3 if both are set.
Code(cfg) == (IF "gige" \in cfg THEN 2 ELSE 0) + (IF "s100" \in cfg THEN 1 ELSE 0)

\* The speed bits for a mode.
Bits(m) ==
  (CASE m[1] = 2 -> {"gige"} [] m[1] = 1 -> {"s100"} [] OTHER -> {})
  \cup (IF m[2] = "full" THEN {"fd"} ELSE {})

\* The TX clock, -1 if it does not run.
TxClk ==
  IF ~clk.enable \/ clk.kill THEN -1
  ELSE IF clk.ovr THEN clk.spd ELSE Code(netcfg)

Init ==
  /\ pc = "unloaded"
  /\ res = {}
  /\ treefail = FALSE
  /\ reader = "none"
  /\ netctl \in {{}, {"mdio", "rx", "tx"}}
  /\ usrio \in BOOLEAN
  /\ netcfg = {}
  /\ clk \in [enable : BOOLEAN, kill : BOOLEAN, txdel : BOOLEAN,
              ovr : {FALSE}, spd : {0}]
  /\ reset = TRUE
  /\ sampled = -1
  /\ delays = {}
  /\ link = {}
  /\ latch = FALSE
  /\ polls = 0
  /\ mode = <<0, "half">>
  /\ shadow = {}
  /\ running = FALSE
  /\ promisc = FALSE
  /\ armed = FALSE
  /\ tick = "no"
  /\ link_up = FALSE
  /\ lstate = "unknown"

-----------------------------------------------------------------------------
(* MOD_LOAD.                                                               *)

Load ==
  /\ pc = "unloaded"
  /\ ~treefail
  /\ pc' = "fdt"
  /\ res' = {"softc", "mtx", "ctx"}
  /\ UNCHANGED <<treefail, reader, regVars, phyVars, lineVars, loadVars, ifVars>>

\* What a step maps or allocates.
Acquires(p) ==
  CASE p = "map_mac"  -> {"mac"}
    [] p = "map_cfg"  -> {"cfg"}
    [] p = "sysctls"  -> {"sysctls"}
    [] p = "desc_tag" -> {"desc_tag"}
    [] p = "mbuf_tag" -> {"mbuf_tag"}
    [] p = "dmamem"   -> {"ring"}
    [] p = "dmaload"  -> {"dmamap"}
    [] OTHER          -> {}

\* The node tree is the wrong one, there is no KVA, no sysctl node, no memory
\* below 4G; or there is.
Allocate ==
  /\ pc \in {"fdt", "map_mac", "map_cfg", "sysctls", "desc_tag", "mbuf_tag",
             "dmamem", "dmaload"}
  /\ res' = res \cup Acquires(pc)
  /\ pc' = After(pc)
  /\ UNCHANGED <<treefail, reader, regVars, phyVars, lineVars, loadVars, ifVars>>

\* The error returns of MOD_LOAD.  The one for the sysctl node forgets the
\* MAC's registers.
LoadFail ==
  /\ pc \in {"fdt", "map_mac", "map_cfg", "sysctls"}
  /\ res' = IF pc = "sysctls" THEN {"mac"} ELSE {}
  /\ treefail' = (pc = "sysctls")
  /\ pc' = "unloaded"
  /\ UNCHANGED <<reader, regVars, phyVars, lineVars, loadVars, ifVars>>

\* CLKGEN as the boot loader left it, set to run.
ClkRestart ==
  /\ pc = "restart"
  /\ clk' = [clk EXCEPT !.enable = TRUE, !.kill = FALSE]
  /\ pc' = After(pc)
  /\ UNCHANGED <<res, treefail, reader, netctl, usrio, netcfg, phyVars, lineVars,
                 loadVars, ifVars>>

\* Stopped, with a new speed; TXCLKDELEN is cleared.
Stopped(spd) == [enable |-> FALSE, kill |-> FALSE, txdel |-> FALSE,
                 ovr |-> TRUE, spd |-> spd]

ClkStop ==
  /\ pc \in {"stop_1g", "stop_clk"}
  /\ clk' = Stopped(IF pc = "stop_1g" THEN 2 ELSE mode[1])
  /\ pc' = After(pc)
  /\ UNCHANGED <<res, treefail, reader, netctl, usrio, netcfg, phyVars, lineVars,
                 loadVars, ifVars>>

ClkStart ==
  /\ pc \in {"start_1g", "start_clk"}
  /\ clk' = [clk EXCEPT !.enable = TRUE]
  /\ pc' = After(pc)
  /\ UNCHANGED <<res, treefail, reader, netctl, usrio, netcfg, phyVars, lineVars,
                 loadVars, ifVars>>

\* The MAC reset, set to 1G, its management port enabled.
GemInit ==
  /\ pc = "gem"
  /\ netcfg' = {"mdc"} \cup Bits(<<2, "full">>)
  /\ netctl' = {"mdio"}
  /\ usrio' = TRUE
  /\ pc' = After(pc)
  /\ UNCHANGED <<res, treefail, reader, clk, phyVars, lineVars, loadVars, ifVars>>

\* rp1_eth_phy_reset.  Without the pads RESET_N stays open-drain and may not
\* rise; without the GPIO registers nothing happens to it.
Pads ==
  /\ pc = "pads"
  /\ res' \in {res \cup {"pushpull"}, res \ {"pushpull"}}
  /\ pc' = After(pc)
  /\ UNCHANGED <<treefail, reader, regVars, phyVars, lineVars, loadVars, ifVars>>

\* A PHY in reset has no link and the settings it starts with.
AssertReset ==
  /\ pc = "assert"
  /\ reset' = TRUE
  /\ sampled' = -1
  /\ delays' = {}
  /\ link' = {} /\ latch' = FALSE
  /\ pc' = After(pc)
  /\ UNCHANGED <<res, treefail, reader, regVars, loadVars, ifVars>>

NoGpio ==
  /\ pc = "assert"
  /\ pc' = "early"
  /\ res' = res \ {"pushpull"}
  /\ UNCHANGED <<treefail, reader, regVars, phyVars, lineVars, loadVars, ifVars>>

ReleaseReset ==
  /\ pc = "release"
  /\ \/ reset' = FALSE /\ sampled' = TxClk
     \/ "pushpull" \notin res /\ UNCHANGED <<reset, sampled>>
  /\ res' = res \ {"pushpull"}
  /\ pc' = After(pc)
  /\ UNCHANGED <<treefail, reader, regVars, delays, lineVars, loadVars, ifVars>>

\* RXEN and TXEN early, and again after the change of the clock.
EnableMac ==
  /\ pc \in {"early", "enable"}
  /\ netctl' = {"mdio", "rx", "tx"}
  /\ usrio' = TRUE
  /\ pc' = After(pc)
  /\ UNCHANGED <<res, treefail, reader, netcfg, clk, phyVars, lineVars, loadVars,
                 ifVars>>

\* BMSR_LINK.  A PHY in reset answers with ones.
Bmsr == reset \/ (link # {} /\ ~latch)

\* BMSR read twice.
ReadBmsr ==
  /\ pc = "bmsr"
  /\ polls' = IF reset \/ link # {} THEN MaxPolls ELSE 0
  /\ latch' = FALSE
  /\ pc' = After(pc)
  /\ UNCHANGED <<res, treefail, reader, regVars, phyVars, link, mode, ifVars>>

\* AuxCtl MISC, CLKCTL and SCR3: read, and written with one bit set.
SetDelays ==
  /\ pc = "delays"
  /\ delays' = IF reset THEN delays ELSE Settings
  /\ pc' = After(pc)
  /\ UNCHANGED <<res, treefail, reader, regVars, reset, sampled, lineVars,
                 loadVars, ifVars>>

\* Up to MaxPolls rounds of 100 ms, unless the link was up.
Autoneg ==
  /\ pc = "aneg"
  /\ latch' = FALSE
  /\ IF polls < MaxPolls /\ ~(reset \/ link # {})
       THEN polls' = polls + 1 /\ UNCHANGED pc
       ELSE polls' = 0 /\ pc' = After(pc)
  /\ UNCHANGED <<res, treefail, reader, regVars, phyVars, link, mode, ifVars>>

\* Speed and duplex from GBSR and ANLPAR of a partner that can do s.  GBCR is
\* tested too, but nothing writes it: the PHY offers what it does after reset.
Resolve(s) ==
  CASE <<2, "full">> \in s -> <<2, "full">>
    [] <<2, "full">> \notin s /\ <<2, "half">> \in s -> <<2, "half">>
    [] s \cap {<<2, "full">>, <<2, "half">>} = {} /\ <<1, "full">> \in s
         -> <<1, "full">>
    [] s \cap {<<2, "full">>, <<2, "half">>, <<1, "full">>} = {}
       /\ <<1, "half">> \in s -> <<1, "half">>
    [] s \subseteq {<<0, "full">>, <<0, "half">>} /\ <<0, "full">> \in s
         -> <<0, "full">>
    [] OTHER -> <<0, "half">>

ResolveMode ==
  /\ pc = "resolve"
  /\ mode' = Resolve(IF reset THEN Modes ELSE link)
  /\ pc' = After(pc)
  /\ UNCHANGED <<res, treefail, reader, regVars, phyVars, lineVars, polls, ifVars>>

SetNetCfg ==
  /\ pc = "netcfg"
  /\ netcfg' = (netcfg \ {"gige", "s100", "fd"}) \cup Bits(mode)
  /\ pc' = After(pc)
  /\ UNCHANGED <<res, treefail, reader, netctl, usrio, clk, phyVars, lineVars,
                 loadVars, ifVars>>

\* The PAUSE frame; USER_IO is not written here.
SendPause ==
  /\ pc = "pause"
  /\ usrio' = FALSE
  /\ pc' = After(pc)
  /\ UNCHANGED <<res, treefail, reader, netctl, netcfg, clk, phyVars, lineVars,
                 loadVars, ifVars>>

\* cgem_reset
Reset ==
  /\ netctl' = {"mdio"}
  /\ usrio' = TRUE
  /\ netcfg' = {"mdc"}
  /\ shadow' = {"mdc"}
  /\ UNCHANGED clk

\* rp1eth_attach: a softc, and the MAC reset.
AttachReset ==
  /\ pc = "softc"
  /\ res' = res \cup {"mac_softc"}
  /\ Reset
  /\ link_up' = FALSE
  /\ lstate' = "unknown"
  /\ promisc' = FALSE
  /\ mode' = <<0, "half">>
  /\ pc' = After(pc)
  /\ UNCHANGED <<treefail, reader, phyVars, lineVars, polls, running, armed, tick>>

Interface == {"mac_softc", "ifnet", "desc_tag", "mbuf_tag", "ring", "dmamap"}

\* fail_descs; the module stays, for its sysctls.
AttachFail ==
  /\ pc \in {"desc_tag", "mbuf_tag", "dmamem", "dmaload"}
  /\ res' = res \ Interface
  /\ pc' = "loaded"
  /\ UNCHANGED <<treefail, reader, regVars, phyVars, lineVars, loadVars, ifVars>>

Attached ==
  /\ pc = "ifattach"
  /\ res' = res \cup {"ifnet"}
  /\ pc' = After(pc)
  /\ UNCHANGED <<treefail, reader, regVars, phyVars, lineVars, loadVars, ifVars>>

-----------------------------------------------------------------------------
(* The interface.  rp1eth_tick holds sc_mtx.                               *)

Usable == pc = "loaded" /\ "ifnet" \in res /\ tick = "no"

\* cgem_init_locked: cgem_config is for 1G.
Up ==
  /\ Usable
  /\ ~running
  /\ running' = TRUE
  /\ shadow' = (shadow \cap {"mdc"}) \cup Bits(<<2, "full">>)
  /\ netcfg' = shadow'
  /\ netctl' = {"mdio", "rx", "tx"}
  /\ usrio' = TRUE
  /\ armed' = TRUE
  /\ UNCHANGED <<pc, res, treefail, reader, clk, phyVars, lineVars, loadVars,
                 promisc, tick, link_up, lstate>>

\* cgem_stop
Down ==
  /\ Usable
  /\ running
  /\ running' = FALSE
  /\ Reset
  /\ armed' = FALSE
  /\ UNCHANGED <<pc, res, treefail, reader, phyVars, lineVars, loadVars, promisc,
                 tick, link_up, lstate>>

\* IFF_PROMISC changes; cgem_rx_filter if the interface runs.
Promisc ==
  /\ Usable
  /\ promisc' = ~promisc
  /\ shadow' = IF ~running THEN shadow
               ELSE (shadow \ {"copy_all"})
                    \cup (IF promisc' THEN {"copy_all"} ELSE {})
  /\ netcfg' = IF running THEN shadow' ELSE netcfg
  /\ UNCHANGED <<pc, res, treefail, reader, netctl, usrio, clk, phyVars, lineVars,
                 loadVars, running, armed, tick, link_up, lstate>>

NetCtl == IF running THEN {"mdio", "rx", "tx"} ELSE {"mdio"}

\* cgem_start_locked tells the GEM to transmit.
StartTx ==
  /\ Usable
  /\ netctl' = NetCtl
  /\ usrio' = TRUE
  /\ UNCHANGED <<pc, res, treefail, reader, netcfg, clk, phyVars, lineVars,
                 loadVars, ifVars>>

\* cgem_intr_task has RX_USED_READ and flushes a packet.
FlushRx ==
  /\ Usable
  /\ running
  /\ netctl' = NetCtl
  /\ usrio' = FALSE
  /\ UNCHANGED <<pc, res, treefail, reader, netcfg, clk, phyVars, lineVars,
                 loadVars, ifVars>>

\* rp1eth_mdio_read does not wait between its write of PHY_MAINT and its first
\* look at PHY_MGMT_IDLE, which may be set still: the reading is then an early one,
\* of an undriven bus, all ones, and the PHY may answer after it or not at all.
Early == latch' \in {FALSE, latch}

\* rp1eth_tick, the first reading, early or not: its value is not used.
TickFirst ==
  /\ armed
  /\ tick = "no"
  /\ armed' = ~running
  /\ IF running
       THEN tick' = "once" /\ Early
       ELSE UNCHANGED <<tick, latch>>
  /\ UNCHANGED <<pc, res, treefail, reader, regVars, phyVars, link, loadVars,
                 shadow, running, promisc, link_up, lstate>>

\* Slips: the clock is not set when the link comes up; the poll is not scheduled
\* again when the link is down.
ReportNoSpeed(up) ==
  /\ link_up' = up
  /\ lstate' = IF up = link_up THEN lstate ELSE IF up THEN "up" ELSE "down"
  /\ tick' = "no"
  /\ armed' = TRUE
  /\ UNCHANGED clk
  /\ UNCHANGED <<pc, res, treefail, reader, netctl, usrio, netcfg, phyVars, link,
                 loadVars, shadow, running, promisc>>

ReportOnce(up) ==
  /\ link_up' = up
  /\ IF up /\ ~link_up
       THEN /\ clk' = Stopped(Code(netcfg))
            /\ tick' = "clk"
            /\ UNCHANGED <<lstate, armed>>
       ELSE /\ lstate' = IF up # link_up THEN "down" ELSE lstate
            /\ tick' = "no"
            /\ armed' = up
            /\ UNCHANGED clk
  /\ UNCHANGED <<pc, res, treefail, reader, netctl, usrio, netcfg, phyVars, link,
                 loadVars, shadow, running, promisc>>

\* What rp1eth_tick does when the link is up or not: rp1eth_update_speed stops
\* the clock, to let it run at the speed NET_CFG has; an interface is attached
\* only once eth_cfg is mapped.
Report(up) ==
  /\ link_up' = up
  /\ IF up /\ ~link_up
       THEN /\ clk' = Stopped(Code(netcfg))
            /\ tick' = "clk"
            /\ UNCHANGED <<lstate, armed>>
       ELSE /\ lstate' = IF up # link_up THEN "down" ELSE lstate
            /\ tick' = "no"
            /\ armed' = TRUE
            /\ UNCHANGED clk
  /\ UNCHANGED <<pc, res, treefail, reader, netctl, usrio, netcfg, phyVars, link,
                 loadVars, shadow, running, promisc>>

TickSecond ==
  /\ tick = "once"
  /\ \/ Report(Bmsr) /\ latch' = FALSE
     \/ Report(TRUE) /\ Early

\* rp1eth_mdio_read returns -1.
TickTimeout == tick = "once" /\ Report(FALSE) /\ UNCHANGED latch

\* The clock runs again, and the change is reported.
TickClk ==
  /\ tick = "clk"
  /\ clk' = [clk EXCEPT !.enable = TRUE]
  /\ lstate' = "up"
  /\ tick' = "no"
  /\ armed' = TRUE
  /\ UNCHANGED <<pc, res, treefail, reader, netctl, usrio, netcfg, phyVars,
                 lineVars, loadVars, shadow, running, promisc, link_up>>

-----------------------------------------------------------------------------
(* Sysctl handlers, the line, and MOD_UNLOAD.                              *)

ReadReg ==
  /\ reader = "none"
  /\ "sysctls" \in res
  /\ reader' \in {"mac", "cfg"}
  /\ UNCHANGED <<pc, res, treefail, regVars, phyVars, lineVars, loadVars, ifVars>>

ReadDone ==
  /\ reader # "none"
  /\ reader' = "none"
  /\ UNCHANGED <<pc, res, treefail, regVars, phyVars, lineVars, loadVars, ifVars>>

\* Auto-negotiation takes longer than rp1eth_tick.
LinkComes ==
  /\ ~reset
  /\ tick = "no"
  /\ link = {}
  /\ link' \in Partners
  /\ UNCHANGED <<pc, res, treefail, reader, regVars, phyVars, latch, loadVars,
                 ifVars>>

LinkGoes ==
  /\ link # {}
  /\ link' = {}
  /\ latch' = TRUE
  /\ UNCHANGED <<pc, res, treefail, reader, regVars, phyVars, loadVars, ifVars>>

\* rp1eth_detach, if there is an interface: cgem_stop, ...
Unload ==
  /\ pc = "loaded"
  /\ tick = "no"
  /\ IF "ifnet" \in res
       THEN /\ Reset
            /\ running' = FALSE
            /\ armed' = FALSE
            /\ pc' = "drain"
       ELSE pc' = "ctx_free" /\ UNCHANGED <<regVars, shadow, running, armed>>
  /\ UNCHANGED <<res, treefail, reader, phyVars, lineVars, loadVars, promisc, tick,
                 link_up, lstate>>

\* ... the callouts drained, everything freed.
Drain ==
  /\ pc = "drain"
  /\ tick = "no"
  /\ armed' = FALSE
  /\ res' = res \ Interface
  /\ pc' = After(pc)
  /\ UNCHANGED <<treefail, reader, regVars, phyVars, lineVars, loadVars, shadow,
                 running, promisc, tick, link_up, lstate>>

\* Slip: the handlers are not waited for.
CtxFreeNoWait ==
  /\ pc = "ctx_free"
  /\ res' = res \ {"sysctls", "ctx"}
  /\ pc' = After(pc)
  /\ UNCHANGED <<treefail, reader, regVars, phyVars, lineVars, loadVars, ifVars>>

\* sysctl_ctx_free waits for a handler.
CtxFree ==
  /\ pc = "ctx_free"
  /\ reader = "none"
  /\ res' = res \ {"sysctls", "ctx"}
  /\ pc' = After(pc)
  /\ UNCHANGED <<treefail, reader, regVars, phyVars, lineVars, loadVars, ifVars>>

\* eth_cfg, then the MAC after a reset, then the softc.
Unmap ==
  /\ pc \in {"unmap_cfg", "unmap_mac", "free"}
  /\ res' = res \ (CASE pc = "unmap_cfg" -> {"cfg"}
                     [] pc = "unmap_mac" -> {"mac"}
                     [] OTHER            -> {"softc", "mtx"})
  /\ IF pc = "unmap_mac" THEN netctl' = {} /\ usrio' = FALSE
                         ELSE UNCHANGED <<netctl, usrio>>
  /\ pc' = After(pc)
  /\ UNCHANGED <<treefail, reader, netcfg, clk, phyVars, lineVars, loadVars, ifVars>>

LoadNext ==
  \/ Load \/ Allocate \/ LoadFail \/ ClkRestart \/ ClkStop \/ ClkStart \/ GemInit
  \/ Pads \/ AssertReset \/ NoGpio \/ ReleaseReset \/ EnableMac \/ ReadBmsr
  \/ SetDelays \/ Autoneg \/ ResolveMode \/ SetNetCfg \/ SendPause \/ AttachReset
  \/ AttachFail \/ Attached

Next ==
  \/ LoadNext
  \/ Up \/ Down \/ Promisc \/ StartTx \/ FlushRx
  \/ TickFirst \/ TickSecond \/ TickTimeout \/ TickClk
  \/ ReadReg \/ ReadDone \/ LinkComes \/ LinkGoes
  \/ Unload \/ Drain \/ CtxFree \/ Unmap

Spec == Init /\ [][Next]_vars

\* The callout fires, and MDIO does not time out for ever.
FairSpec == Spec /\ WF_vars(TickFirst) /\ WF_vars(TickSecond \/ TickTimeout)
                 /\ WF_vars(TickClk) /\ SF_vars(TickSecond)

-----------------------------------------------------------------------------
(* Properties.                                                             *)

\* The variables have their types.
TypeOK ==
  /\ pc \in ToSet(Loading) \cup ToSet(Unloading)
  /\ res \subseteq {"softc", "mtx", "ctx", "mac", "cfg", "sysctls", "pushpull"}
                   \cup Interface
  /\ treefail \in BOOLEAN
  /\ reader \in {"none", "mac", "cfg"}
  /\ netctl \subseteq {"mdio", "rx", "tx"}
  /\ usrio \in BOOLEAN
  /\ netcfg \subseteq {"mdc", "gige", "s100", "fd", "copy_all"}
  /\ shadow \subseteq {"mdc", "gige", "s100", "fd", "copy_all"}
  /\ clk \in [enable : BOOLEAN, kill : BOOLEAN, txdel : BOOLEAN,
              ovr : BOOLEAN, spd : 0 .. 2]
  /\ reset \in BOOLEAN
  /\ sampled \in -1 .. 3
  /\ delays \subseteq Settings
  /\ link \in Partners \cup {{}}
  /\ latch \in BOOLEAN
  /\ polls \in 0 .. MaxPolls
  /\ mode \in Modes
  /\ running \in BOOLEAN /\ promisc \in BOOLEAN /\ armed \in BOOLEAN
  /\ tick \in {"no", "once", "clk"} /\ link_up \in BOOLEAN
  /\ lstate \in {"unknown", "up", "down"}

\* A load that fails, and an unload, give everything back; but for the path of
\* a missing sysctl node.
NothingLeft == pc = "unloaded" /\ ~treefail => res = {}

\* No handler of a sysctl and no link poll touches registers that are not
\* mapped or a softc that is freed.
MappedWhileUsed ==
  /\ reader # "none" => reader \in res
  /\ armed \/ tick # "no" => {"mac_softc", "mac", "cfg"} \subseteq res

\* Loading and unloading are safe at any time and after any failure.
Unloadable == TypeOK /\ NothingLeft /\ MappedWhileUsed

\* The PHY left reset with the TX clock at 125 MHz, whatever the boot loader
\* or an earlier load left in CLKGEN and NET_CFG.
SampledGigabit == ~reset => sampled = 2

\* An interface that runs has the MAC on, its configuration as in the shadow,
\* and a PHY that is out of reset has its delays, the MAC adding none.
ReadyWhenUp ==
  running /\ tick = "no" =>
    /\ netctl = {"mdio", "rx", "tx"}
    /\ netcfg = shadow
    /\ ~reset => delays = Settings /\ ~clk.txdel

\* What load has resolved with the partner, the MAC and the clock are set to
\* together, whatever CLKGEN and NET_CFG were before.
LoadMatchesLine ==
  pc \in {"enable", "pause", "softc"} => TxClk = mode[1] /\ Code(netcfg) = mode[1]

\* An interface reported up has the clock of the RGMII running at the speed of the
\* MAC, over every down, up, unplugging and reload.  It is not said that this is
\* the speed of the line: see SpeedAsNegotiated.
ClockMatchesMac == running /\ lstate = "up" => TxClk = Code(netcfg)

\* The RGMII: the PHY's sampling of the clock, the delays, and one speed for clock
\* and MAC, that of the line at load and the MAC's own after every reset of it.
LineReady ==
  SampledGigabit /\ ReadyWhenUp /\ LoadMatchesLine /\ ClockMatchesMac

\* A link that stays up is reported up, again and again, whatever an early reading
\* or a timeout of MDIO has made rp1eth_tick believe before.
LinkIsReported ==
  <>[](running /\ link # {} /\ ~reset) => []<>(lstate = "up")

\* The clock rp1eth_update_speed starts is for the speed negotiated, as
\* rp1_eth_var.h:154 demands and rp1_eth.c:886 takes for granted of NET_CFG.
SpeedAsNegotiated ==
  [][tick = "clk" /\ tick' = "no" /\ link # {} => TxClk' = Resolve(link)[1]]_vars

\* The poll takes the link for up only if it is: a reading that is over before the
\* transaction, as rp1_eth_cfg.c:342 describes it, must not be used.
UpIsTrue ==
  [][tick = "once" /\ link_up' /\ ~link_up /\ ~reset => link # {}]_vars

\* USER_IO is RGMII whenever nobody is in between the two writes, as
\* rp1_eth_cfg.c:1249 demands.
UsrioKept == Usable => usrio
=============================================================================
