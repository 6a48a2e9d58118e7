---------------------------- MODULE GemLinkProofs ----------------------------
(***************************************************************************)
(* Proofs about GemLink.  MOD_LOAD and MOD_UNLOAD are straight lines of    *)
(* steps, so that what is allocated, and how the clock, the PHY and the    *)
(* MAC are set, are invariants indexed by the step; the interface and its  *)
(* link poll run only between them.                                        *)
(***************************************************************************)
EXTENDS GemLink, TLAPS

-----------------------------------------------------------------------------
(* The inductive invariant.                                                *)

\* What MOD_LOAD has acquired when rp1eth_attach begins.
Base == {"softc", "mtx", "ctx", "mac", "cfg", "sysctls"}

\* What is held at a step, but for the pads of RESET_N.
Held(p) ==
  CASE p \in {"fdt", "map_mac"} -> {"softc", "mtx", "ctx"}
    [] p = "map_cfg"   -> {"softc", "mtx", "ctx", "mac"}
    [] p \in {"restart", "stop_1g", "start_1g", "gem", "sysctls"}
         -> Base \ {"sysctls"}
    [] p = "desc_tag"  -> Base \cup {"mac_softc"}
    [] p = "mbuf_tag"  -> Base \cup {"mac_softc", "desc_tag"}
    [] p = "dmamem"    -> Base \cup {"mac_softc", "desc_tag", "mbuf_tag"}
    [] p = "dmaload"   -> Base \cup {"mac_softc", "desc_tag", "mbuf_tag", "ring"}
    [] p = "ifattach"  -> Base \cup (Interface \ {"ifnet"})
    [] p = "drain"     -> Base \cup Interface
    [] p = "unmap_cfg" -> {"softc", "mtx", "mac", "cfg"}
    [] p = "unmap_mac" -> {"softc", "mtx", "mac"}
    [] p = "free"      -> {"softc", "mtx"}
    [] OTHER           -> Base

\* Everything held is known from the step and, once loaded, from whether
\* rp1eth_attach has made an interface.
ResSound ==
  /\ treefail => pc = "unloaded"
  /\ "pushpull" \in res => pc \in {"assert", "release"}
  /\ pc = "unloaded" => res = IF treefail THEN {"mac"} ELSE {}
  /\ pc = "loaded" => res \in {Base, Base \cup Interface}
  /\ pc \notin {"unloaded", "loaded"} => res \ {"pushpull"} = Held(pc)

\* A handler runs only while its sysctl is registered.
ReaderSound == reader # "none" => "sysctls" \in res

\* The interface and its poll run only between attach and detach.
TickSound ==
  /\ armed \/ running => pc = "loaded" /\ "ifnet" \in res
  /\ tick # "no" => running

\* The clock at 1G, running.
At1G == [Stopped(2) EXCEPT !.enable = TRUE]

\* The clock generator at the steps that depend on it, and for the interface.
ClkSound ==
  /\ pc = "start_1g" => clk = Stopped(2)
  /\ pc \in {"gem", "sysctls", "pads", "assert", "release"} => clk = At1G
  /\ pc \notin {"unloaded", "fdt", "map_mac", "map_cfg", "restart", "stop_1g"}
       => ~clk.txdel
  /\ pc \in {"desc_tag", "mbuf_tag", "dmamem", "dmaload", "ifattach"} => ~link_up
  /\ pc = "loaded" /\ link_up => clk = IF tick = "clk" THEN Stopped(2) ELSE At1G
  /\ tick = "clk" => link_up

\* The PHY out of reset, and its delays once they are set.
PhySound ==
  /\ pc = "release" => reset
  /\ ~reset => sampled = 2
  /\ ~reset /\ pc \notin {"early", "bmsr", "delays"} => delays = Settings

\* The MAC of an interface that runs.
MacSound ==
  running => /\ netctl = {"mdio", "rx", "tx"}
             /\ netcfg = shadow
             /\ "gige" \in netcfg /\ "s100" \notin netcfg

\* What load does to speed and clock once it knows the mode.
LoadSound ==
  /\ pc \in {"stop_clk", "start_clk", "enable", "pause", "softc"}
       => Code(netcfg) = mode[1]
  /\ pc = "start_clk" => clk = Stopped(mode[1])
  /\ pc \in {"enable", "pause", "softc"}
       => clk = [Stopped(mode[1]) EXCEPT !.enable = TRUE]

\* The stack is told of a link only after the clock has been changed for it.
ToldSound ==
  /\ pc \in {"desc_tag", "mbuf_tag", "dmamem", "dmaload", "ifattach"}
       => lstate # "up"
  /\ pc = "loaded" /\ lstate = "up" => link_up /\ tick # "clk"

\* The parts of TypeOK: the steps, ...
Pcs == ToSet(Loading) \cup ToSet(Unloading)

PcTypes == pc \in Pcs

\* ... the flags, ...
FlagTypes ==
  /\ treefail \in BOOLEAN /\ usrio \in BOOLEAN
  /\ reset \in BOOLEAN /\ latch \in BOOLEAN
  /\ running \in BOOLEAN /\ promisc \in BOOLEAN /\ armed \in BOOLEAN
  /\ link_up \in BOOLEAN

\* ... the words, ...
WordTypes ==
  /\ reader \in {"none", "mac", "cfg"}
  /\ tick \in {"no", "once", "clk"}
  /\ lstate \in {"unknown", "up", "down"}

\* ... the registers of the MAC, ...
CfgBits == {"mdc", "gige", "s100", "fd", "copy_all"}

RegTypes ==
  /\ netctl \subseteq {"mdio", "rx", "tx"}
  /\ netcfg \subseteq CfgBits
  /\ shadow \subseteq CfgBits

\* ... the clock generator, ...
ClkTypes ==
  clk \in [enable : BOOLEAN, kill : BOOLEAN, txdel : BOOLEAN,
           ovr : BOOLEAN, spd : 0 .. 2]

\* ... the PHY and what is resolved.
PhyTypes ==
  /\ sampled \in -1 .. 3
  /\ delays \subseteq Settings
  /\ link \in Partners \cup {{}}
  /\ polls \in 0 .. MaxPolls
  /\ mode \in Modes

\* The inductive invariant.
IInv ==
  /\ PcTypes /\ FlagTypes /\ WordTypes /\ RegTypes /\ ClkTypes /\ PhyTypes
  /\ ResSound
  /\ ReaderSound
  /\ TickSound
  /\ ClkSound
  /\ PhySound
  /\ MacSound
  /\ LoadSound
  /\ ToldSound

-----------------------------------------------------------------------------
(* The steps.                                                              *)

\* No step of MOD_LOAD comes twice, and none of MOD_UNLOAD is one of MOD_LOAD.
LEMMA StepsDiffer ==
  /\ DOMAIN Loading = 1 .. 28 /\ Len(Loading) = 28
  /\ DOMAIN Unloading = 1 .. 7 /\ Len(Unloading) = 7
  /\ \A j, k \in 1 .. 28 : Loading[j] = Loading[k] => j = k
  /\ \A j, k \in 1 .. 7 : Unloading[j] = Unloading[k] => j = k
  /\ \A j \in 1 .. 7, k \in 1 .. 28 : Unloading[j] # Loading[k]
<1>1. DOMAIN Loading = 1 .. 28 /\ Len(Loading) = 28
  BY DEF Loading
<1>2. DOMAIN Unloading = 1 .. 7 /\ Len(Unloading) = 7
  BY DEF Unloading
<1>3. \A j, k \in 1 .. 28 : Loading[j] = Loading[k] => j = k
  BY DEF Loading
<1>4. \A j, k \in 1 .. 7 : Unloading[j] = Unloading[k] => j = k
  BY DEF Unloading
<1>5. \A j \in 1 .. 7, k \in 1 .. 28 : Unloading[j] # Loading[k]
  BY DEF Loading, Unloading
<1> QED
  BY <1>1, <1>2, <1>3, <1>4, <1>5

\* After a step comes the next one of its list.
LEMMA AfterStep ==
  /\ \A k \in 1 .. 27 : After(Loading[k]) = Loading[k + 1]
  /\ \A k \in 1 .. 6 : After(Unloading[k]) = Unloading[k + 1]
<1>1. ASSUME NEW k \in 1 .. 27 PROVE After(Loading[k]) = Loading[k + 1]
  <2>1. Contains(Loading, Loading[k])
    BY StepsDiffer DEF Contains
  <2>2. (CHOOSE j \in DOMAIN Loading : Loading[j] = Loading[k]) = k
    BY StepsDiffer
  <2>3. After(Loading[k])
          = Loading[1 + CHOOSE j \in DOMAIN Loading : Loading[j] = Loading[k]]
    BY <2>1, Zenon DEF After
  <2>4. 1 + k = k + 1
    OBVIOUS
  <2> QED
    BY <2>2, <2>3, <2>4, Zenon
<1>2. ASSUME NEW k \in 1 .. 6 PROVE After(Unloading[k]) = Unloading[k + 1]
  <2>1. ~Contains(Loading, Unloading[k])
    BY StepsDiffer DEF Contains
  <2>2. (CHOOSE j \in DOMAIN Unloading : Unloading[j] = Unloading[k]) = k
    BY StepsDiffer
  <2>3. After(Unloading[k])
          = Unloading[1 + CHOOSE j \in DOMAIN Unloading : Unloading[j] = Unloading[k]]
    BY <2>1, Zenon DEF After
  <2>4. 1 + k = k + 1
    OBVIOUS
  <2> QED
    BY <2>2, <2>3, <2>4, Zenon
<1> QED
  BY <1>1, <1>2

\* The steps, one by one.
LEMMA AfterFacts ==
  /\ After("fdt") = "map_mac" /\ After("map_mac") = "map_cfg"
  /\ After("map_cfg") = "restart" /\ After("restart") = "stop_1g"
  /\ After("stop_1g") = "start_1g" /\ After("start_1g") = "gem"
  /\ After("gem") = "sysctls" /\ After("sysctls") = "pads"
  /\ After("pads") = "assert" /\ After("assert") = "release"
  /\ After("release") = "early" /\ After("early") = "bmsr"
  /\ After("bmsr") = "delays" /\ After("delays") = "aneg"
  /\ After("aneg") = "resolve" /\ After("resolve") = "netcfg"
  /\ After("netcfg") = "stop_clk" /\ After("stop_clk") = "start_clk"
  /\ After("start_clk") = "enable" /\ After("enable") = "pause"
  /\ After("pause") = "softc" /\ After("softc") = "desc_tag"
  /\ After("desc_tag") = "mbuf_tag" /\ After("mbuf_tag") = "dmamem"
  /\ After("dmamem") = "dmaload" /\ After("dmaload") = "ifattach"
  /\ After("ifattach") = "loaded"
  /\ After("drain") = "ctx_free" /\ After("ctx_free") = "unmap_cfg"
  /\ After("unmap_cfg") = "unmap_mac" /\ After("unmap_mac") = "free"
  /\ After("free") = "unloaded"
BY AfterStep DEF Loading, Unloading

\* The steps are these.
LEMMA StepFacts ==
  {"fdt", "map_mac", "map_cfg", "restart", "stop_1g", "start_1g", "gem",
    "sysctls", "pads", "assert", "release", "early", "bmsr", "delays",
    "aneg", "resolve", "netcfg", "stop_clk", "start_clk", "enable", "pause",
    "softc", "desc_tag", "mbuf_tag", "dmamem", "dmaload", "ifattach",
    "loaded", "stop", "drain", "ctx_free", "unmap_cfg", "unmap_mac", "free",
    "unloaded"}
  \subseteq Pcs
<1>1. \A k \in 1 .. 28 : Loading[k] \in Pcs
  BY StepsDiffer DEF ToSet, Pcs
<1>2. \A k \in 1 .. 7 : Unloading[k] \in Pcs
  BY StepsDiffer DEF ToSet, Pcs
<1> QED
  BY <1>1, <1>2 DEF Loading, Unloading
-----------------------------------------------------------------------------
(* Types.                                                                  *)

\* The words stay those of their sets.
LEMMA WordStep == WordTypes /\ [Next]_vars => WordTypes'
<1> SUFFICES ASSUME WordTypes, [Next]_vars PROVE WordTypes'
  OBVIOUS
<1>1. CASE UNCHANGED <<reader, tick, lstate>>
  BY <1>1 DEF WordTypes
<1>2. CASE AttachReset
  BY <1>2 DEF AttachReset, Reset, WordTypes
<1>3. CASE TickFirst
  BY <1>3 DEF TickFirst, WordTypes
<1>4. CASE TickSecond
  BY <1>4 DEF TickSecond, Report, WordTypes
<1>5. CASE TickTimeout
  BY <1>5 DEF TickTimeout, Report, WordTypes
<1>6. CASE TickClk
  BY <1>6 DEF TickClk, WordTypes
<1>7. CASE ReadReg
  BY <1>7 DEF ReadReg, ifVars, WordTypes
<1>8. CASE ReadDone
  BY <1>8 DEF ReadDone, ifVars, WordTypes
<1>9. CASE Load \/ Allocate \/ LoadFail \/ ClkRestart \/ ClkStop
            \/ ClkStart \/ GemInit \/ Pads \/ AssertReset \/ NoGpio
            \/ ReleaseReset \/ EnableMac
  <2> SUFFICES UNCHANGED <<reader, tick, lstate>>
    BY <1>1
  <2> QED
    BY <1>9 DEF Load, Allocate, LoadFail, ClkRestart, ClkStop, ClkStart,
      GemInit, Pads, AssertReset, NoGpio, ReleaseReset, EnableMac, ifVars
<1>10. CASE ReadBmsr \/ SetDelays \/ Autoneg \/ ResolveMode \/ SetNetCfg
            \/ SendPause \/ AttachFail \/ Attached \/ Up \/ Down
            \/ Promisc \/ StartTx
  <2> SUFFICES UNCHANGED <<reader, tick, lstate>>
    BY <1>1
  <2> QED
    BY <1>10 DEF ReadBmsr, SetDelays, Autoneg, ResolveMode, SetNetCfg,
      SendPause, AttachFail, Attached, Up, Down, Promisc, StartTx, ifVars,
      Usable, Reset, NetCtl
<1>11. CASE FlushRx \/ LinkComes \/ LinkGoes \/ Unload \/ Drain \/ CtxFree
            \/ Unmap \/ UNCHANGED vars
  <2> SUFFICES UNCHANGED <<reader, tick, lstate>>
    BY <1>1
  <2> QED
    BY <1>11 DEF FlushRx, LinkComes, LinkGoes, Unload, Drain, CtxFree, Unmap,
      vars, NetCtl, Usable, ifVars, Reset
<1> QED
  BY <1>2, <1>3, <1>4, <1>5, <1>6, <1>7, <1>8, <1>9, <1>10, <1>11 DEF Next,
    LoadNext

\* The flags stay flags.
LEMMA FlagStep == FlagTypes /\ [Next]_vars => FlagTypes'
<1> SUFFICES ASSUME FlagTypes, [Next]_vars PROVE FlagTypes'
  OBVIOUS
<1>1. CASE UNCHANGED <<treefail, usrio, reset, latch, running, promisc, armed,
                       link_up>>
  BY <1>1 DEF FlagTypes
<1>2. CASE LoadFail
  BY <1>2 DEF LoadFail, regVars, phyVars, lineVars, ifVars, FlagTypes
<1>3. CASE GemInit
  BY <1>3 DEF GemInit, phyVars, lineVars, ifVars, FlagTypes
<1>4. CASE AssertReset
  BY <1>4 DEF AssertReset, regVars, ifVars, FlagTypes
<1>5. CASE ReleaseReset
  BY <1>5 DEF ReleaseReset, regVars, lineVars, ifVars, FlagTypes
<1>6. CASE EnableMac
  BY <1>6 DEF EnableMac, phyVars, lineVars, ifVars, FlagTypes
<1>7. CASE ReadBmsr
  BY <1>7 DEF ReadBmsr, regVars, phyVars, ifVars, FlagTypes
<1>8. CASE Autoneg
  BY <1>8 DEF Autoneg, regVars, phyVars, ifVars, FlagTypes
<1>9. CASE SendPause
  BY <1>9 DEF SendPause, phyVars, lineVars, ifVars, FlagTypes
<1>10. CASE AttachReset
  BY <1>10 DEF AttachReset, Reset, phyVars, lineVars, FlagTypes
<1>11. CASE Up
  BY <1>11 DEF Up, Usable, phyVars, lineVars, FlagTypes
<1>12. CASE Down
  BY <1>12 DEF Down, Reset, Usable, phyVars, lineVars, FlagTypes
<1>13. CASE Promisc
  BY <1>13 DEF Promisc, Usable, phyVars, lineVars, FlagTypes
<1>14. CASE StartTx
  BY <1>14 DEF StartTx, NetCtl, Usable, phyVars, lineVars, ifVars, FlagTypes
<1>15. CASE FlushRx
  BY <1>15 DEF FlushRx, NetCtl, Usable, phyVars, lineVars, ifVars, FlagTypes
<1>16. CASE TickFirst
  BY <1>16 DEF TickFirst, Early, regVars, phyVars, FlagTypes
<1>17. CASE TickSecond
  <2>1. PICK up \in {Bmsr, TRUE} : Report(up)
    BY <1>17 DEF TickSecond
  <2>2. up \in BOOLEAN
    BY DEF Bmsr, FlagTypes
  <2> QED
    BY <1>17, <2>1, <2>2 DEF TickSecond, Early, Report, phyVars, FlagTypes
<1>18. CASE TickTimeout
  BY <1>18 DEF TickTimeout, Report, phyVars, FlagTypes
<1>19. CASE TickClk
  BY <1>19 DEF TickClk, phyVars, lineVars, FlagTypes
<1>20. CASE LinkGoes
  BY <1>20 DEF LinkGoes, regVars, phyVars, ifVars, FlagTypes
<1>21. CASE Unload
  BY <1>21 DEF Unload, Reset, phyVars, lineVars, regVars, FlagTypes
<1>22. CASE Drain
  BY <1>22 DEF Drain, regVars, phyVars, lineVars, FlagTypes
<1>23. CASE Unmap
  BY <1>23 DEF Unmap, phyVars, lineVars, ifVars, FlagTypes
<1>24. CASE Load \/ Allocate \/ ClkRestart \/ ClkStop \/ ClkStart \/ Pads
            \/ NoGpio \/ SetDelays \/ ResolveMode \/ SetNetCfg
            \/ AttachFail \/ Attached
  <2> SUFFICES UNCHANGED <<treefail, usrio, reset, latch, running, promisc,
                           armed, link_up>>
    BY <1>1
  <2> QED
    BY <1>24 DEF Load, Allocate, ClkRestart, ClkStop, ClkStart, Pads, NoGpio,
      SetDelays, ResolveMode, SetNetCfg, AttachFail, Attached, regVars,
      phyVars, lineVars, ifVars
<1>25. CASE ReadReg \/ ReadDone \/ LinkComes \/ CtxFree \/ UNCHANGED vars
  <2> SUFFICES UNCHANGED <<treefail, usrio, reset, latch, running, promisc,
                           armed, link_up>>
    BY <1>1
  <2> QED
    BY <1>25 DEF ReadReg, ReadDone, LinkComes, CtxFree, vars, regVars, phyVars,
      lineVars, ifVars
<1> QED
  BY <1>2, <1>3, <1>4, <1>5, <1>6, <1>7, <1>8, <1>9, <1>10, <1>11, <1>12,
    <1>13, <1>14, <1>15, <1>16, <1>17, <1>18, <1>19, <1>20, <1>21, <1>22,
    <1>23, <1>24, <1>25 DEF Next, LoadNext

\* The bits of a mode are bits of NET_CFG; those of 1G have GIGE_EN only.
LEMMA BitsFacts ==
  /\ \A m \in Modes : Bits(m) \subseteq {"gige", "s100", "fd"}
  /\ Bits(<<2, "full">>) = {"gige", "fd"}
  /\ \A cfg : "gige" \in cfg /\ "s100" \notin cfg => Code(cfg) = 2
  /\ \A cfg : Code(cfg) \in 0 .. 3
<1>1. ASSUME NEW m \in Modes PROVE Bits(m) \subseteq {"gige", "s100", "fd"}
  BY DEF Bits, Modes
<1>2. Bits(<<2, "full">>) = {"gige", "fd"}
  BY DEF Bits
<1> QED
  BY <1>1, <1>2 DEF Code

\* The registers of the MAC have their bits only.
LEMMA RegStep == RegTypes /\ PhyTypes /\ [Next]_vars => RegTypes'
<1> SUFFICES ASSUME RegTypes, PhyTypes, [Next]_vars PROVE RegTypes'
  OBVIOUS
<1>1. CASE UNCHANGED <<netctl, netcfg, shadow>>
  BY <1>1 DEF RegTypes, CfgBits
<1>2. CASE GemInit
  BY <1>2, BitsFacts DEF GemInit, RegTypes, CfgBits, ifVars
<1>3. CASE EnableMac
  BY <1>3 DEF EnableMac, ifVars, RegTypes, CfgBits
<1>4. CASE SetNetCfg
  <2>1. Bits(mode) \subseteq CfgBits
    BY BitsFacts DEF PhyTypes, CfgBits
  <2> QED
    BY <1>4, <2>1 DEF SetNetCfg, RegTypes, ifVars
<1>5. CASE AttachReset
  BY <1>5 DEF AttachReset, Reset, RegTypes, CfgBits
<1>6. CASE Up
  BY <1>6, BitsFacts DEF Up, RegTypes, CfgBits
<1>7. CASE Down
  BY <1>7 DEF Down, Reset, Usable, RegTypes, CfgBits
<1>8. CASE Promisc
  BY <1>8 DEF Promisc, Usable, RegTypes, CfgBits
<1>9. CASE StartTx
  BY <1>9 DEF StartTx, NetCtl, Usable, ifVars, RegTypes, CfgBits
<1>10. CASE FlushRx
  BY <1>10 DEF FlushRx, NetCtl, Usable, ifVars, RegTypes, CfgBits
<1>11. CASE Unload
  BY <1>11 DEF Unload, Reset, regVars, RegTypes, CfgBits
<1>12. CASE Unmap
  BY <1>12 DEF Unmap, ifVars, RegTypes, CfgBits
<1>13. CASE Load \/ Allocate \/ LoadFail \/ ClkRestart \/ ClkStop
            \/ ClkStart \/ Pads \/ AssertReset \/ NoGpio \/ ReleaseReset
            \/ ReadBmsr \/ SetDelays
  <2> SUFFICES UNCHANGED <<netctl, netcfg, shadow>>
    BY <1>1
  <2> QED
    BY <1>13 DEF Load, Allocate, LoadFail, ClkRestart, ClkStop, ClkStart, Pads,
      AssertReset, NoGpio, ReleaseReset, ReadBmsr, SetDelays, regVars, ifVars
<1>14. CASE Autoneg \/ ResolveMode \/ SendPause \/ AttachFail \/ Attached
            \/ TickFirst \/ TickSecond \/ TickTimeout \/ TickClk
            \/ ReadReg \/ ReadDone \/ LinkComes
  <2> SUFFICES UNCHANGED <<netctl, netcfg, shadow>>
    BY <1>1
  <2> QED
    BY <1>14 DEF Autoneg, ResolveMode, SendPause, AttachFail, Attached,
      TickFirst, TickSecond, TickTimeout, TickClk, ReadReg, ReadDone,
      LinkComes, regVars, ifVars, Report
<1>15. CASE LinkGoes \/ Drain \/ CtxFree \/ UNCHANGED vars
  <2> SUFFICES UNCHANGED <<netctl, netcfg, shadow>>
    BY <1>1
  <2> QED
    BY <1>15 DEF LinkGoes, Drain, CtxFree, vars, regVars, ifVars
<1> QED
  BY <1>2, <1>3, <1>4, <1>5, <1>6, <1>7, <1>8, <1>9, <1>10, <1>11, <1>12,
    <1>13, <1>14, <1>15 DEF Next, LoadNext

\* Every step leads to a step.
LEMMA PcStep == PcTypes /\ [Next]_vars => PcTypes'
<1> SUFFICES ASSUME PcTypes, [Next]_vars PROVE PcTypes'
  OBVIOUS
<1> USE AfterFacts, StepFacts
<1>1. CASE UNCHANGED <<pc>>
  BY <1>1 DEF PcTypes
<1>2. CASE Load
  BY <1>2 DEF Load, PcTypes
<1>3. CASE Allocate
  BY <1>3 DEF Allocate, PcTypes
<1>4. CASE LoadFail
  BY <1>4 DEF LoadFail, PcTypes
<1>5. CASE ClkRestart
  BY <1>5 DEF ClkRestart, PcTypes
<1>6. CASE ClkStop
  BY <1>6 DEF ClkStop, PcTypes
<1>7. CASE ClkStart
  BY <1>7 DEF ClkStart, PcTypes
<1>8. CASE GemInit
  BY <1>8 DEF GemInit, PcTypes
<1>9. CASE Pads
  BY <1>9 DEF Pads, PcTypes
<1>10. CASE AssertReset
  BY <1>10 DEF AssertReset, PcTypes
<1>11. CASE NoGpio
  BY <1>11 DEF NoGpio, PcTypes
<1>12. CASE ReleaseReset
  BY <1>12 DEF ReleaseReset, PcTypes
<1>13. CASE EnableMac
  BY <1>13 DEF EnableMac, PcTypes
<1>14. CASE ReadBmsr
  BY <1>14 DEF ReadBmsr, PcTypes
<1>15. CASE SetDelays
  BY <1>15 DEF SetDelays, PcTypes
<1>16. CASE Autoneg
  BY <1>16 DEF Autoneg, PcTypes
<1>17. CASE ResolveMode
  BY <1>17 DEF ResolveMode, PcTypes
<1>18. CASE SetNetCfg
  BY <1>18 DEF SetNetCfg, PcTypes
<1>19. CASE SendPause
  BY <1>19 DEF SendPause, PcTypes
<1>20. CASE AttachReset
  BY <1>20 DEF AttachReset, Reset, PcTypes
<1>21. CASE AttachFail
  BY <1>21 DEF AttachFail, PcTypes
<1>22. CASE Attached
  BY <1>22 DEF Attached, PcTypes
<1>23. CASE Unload
  BY <1>23 DEF Unload, Reset, PcTypes
<1>24. CASE Drain
  BY <1>24 DEF Drain, PcTypes
<1>25. CASE CtxFree
  BY <1>25 DEF CtxFree, PcTypes
<1>26. CASE Unmap
  BY <1>26 DEF Unmap, PcTypes
<1>27. CASE Up \/ Down \/ Promisc \/ StartTx \/ FlushRx \/ TickFirst
            \/ TickSecond \/ TickTimeout \/ TickClk \/ ReadReg \/ ReadDone
            \/ LinkComes
  <2> SUFFICES UNCHANGED <<pc>>
    BY <1>1
  <2> QED
    BY <1>27 DEF Up, Down, Promisc, StartTx, FlushRx, TickFirst, TickSecond,
      TickTimeout, TickClk, ReadReg, ReadDone, LinkComes, Usable, Reset,
      NetCtl, Report
<1>28. CASE LinkGoes \/ UNCHANGED vars
  <2> SUFFICES UNCHANGED <<pc>>
    BY <1>1
  <2> QED
    BY <1>28 DEF LinkGoes, vars
<1> QED
  BY <1>2, <1>3, <1>4, <1>5, <1>6, <1>7, <1>8, <1>9, <1>10, <1>11, <1>12,
    <1>13, <1>14, <1>15, <1>16, <1>17, <1>18, <1>19, <1>20, <1>21, <1>22,
    <1>23, <1>24, <1>25, <1>26, <1>27, <1>28 DEF Next, LoadNext

\* What a partner's abilities resolve to is a mode.
LEMMA ResolveFacts == \A s : Resolve(s) \in Modes
<1> DEFINE M == Modes
<1>1. /\ <<2, "full">> \in M /\ <<2, "half">> \in M /\ <<1, "full">> \in M
      /\ <<1, "half">> \in M /\ <<0, "full">> \in M /\ <<0, "half">> \in M
  BY DEF Modes
<1> HIDE DEF M
<1>2. \A s : Resolve(s) \in M
  BY <1>1 DEF Resolve
<1> QED
  BY <1>2 DEF M

\* The TX clock is a speed, or none.
LEMMA TxClkFacts == ClkTypes => TxClk \in -1 .. 3
<1> SUFFICES ASSUME ClkTypes PROVE TxClk \in -1 .. 3
  OBVIOUS
<1>1. clk.spd \in 0 .. 2
  BY DEF ClkTypes
<1> QED
  BY <1>1, BitsFacts DEF TxClk

\* The PHY and what is resolved keep their types.
LEMMA PhyStep == PhyTypes /\ ClkTypes /\ [Next]_vars => PhyTypes'
<1> SUFFICES ASSUME PhyTypes, ClkTypes, [Next]_vars PROVE PhyTypes'
  OBVIOUS
<1> USE LinkAssumption
<1>1. CASE UNCHANGED <<sampled, delays, link, polls, mode>>
  BY <1>1 DEF PhyTypes
<1>2. CASE AssertReset
  BY <1>2 DEF AssertReset, loadVars, PhyTypes
<1>3. CASE ReleaseReset
  <2>1. sampled' \in -1 .. 3
    BY <1>3, TxClkFacts DEF ReleaseReset, PhyTypes
  <2> QED
    BY <1>3, <2>1 DEF ReleaseReset, PhyTypes, lineVars, loadVars
<1>4. CASE ReadBmsr
  BY <1>4 DEF ReadBmsr, phyVars, PhyTypes
<1>5. CASE SetDelays
  BY <1>5 DEF SetDelays, lineVars, loadVars, PhyTypes
<1>6. CASE Autoneg
  BY <1>6 DEF Autoneg, phyVars, PhyTypes
<1>7. CASE ResolveMode
  <2>1. mode' \in Modes
    BY <1>7, ResolveFacts DEF ResolveMode
  <2> QED
    BY <1>7, <2>1 DEF ResolveMode, PhyTypes, phyVars, lineVars
<1>8. CASE AttachReset
  <2>1. mode' \in Modes
    BY <1>8 DEF AttachReset, Modes
  <2> QED
    BY <1>8, <2>1 DEF AttachReset, Reset, PhyTypes, phyVars, lineVars
<1>9. CASE LinkComes
  BY <1>9 DEF LinkComes, phyVars, loadVars, PhyTypes
<1>10. CASE LinkGoes
  BY <1>10 DEF LinkGoes, phyVars, loadVars, PhyTypes
<1>11. CASE Load \/ Allocate \/ LoadFail \/ ClkRestart \/ ClkStop
            \/ ClkStart \/ GemInit \/ Pads \/ NoGpio \/ EnableMac
            \/ SetNetCfg \/ SendPause
  <2> SUFFICES UNCHANGED <<sampled, delays, link, polls, mode>>
    BY <1>1
  <2> QED
    BY <1>11 DEF Load, Allocate, LoadFail, ClkRestart, ClkStop, ClkStart,
      GemInit, Pads, NoGpio, EnableMac, SetNetCfg, SendPause, phyVars,
      lineVars, loadVars
<1>12. CASE AttachFail \/ Attached \/ Up \/ Down \/ Promisc \/ StartTx
            \/ FlushRx \/ TickFirst \/ TickSecond \/ TickTimeout
            \/ TickClk \/ ReadReg
  <2> SUFFICES UNCHANGED <<sampled, delays, link, polls, mode>>
    BY <1>1
  <2> QED
    BY <1>12 DEF AttachFail, Attached, Up, Down, Promisc, StartTx, FlushRx,
      TickFirst, TickSecond, TickTimeout, TickClk, ReadReg, phyVars, lineVars,
      loadVars, Usable, Reset, NetCtl, Report
<1>13. CASE ReadDone \/ Unload \/ Drain \/ CtxFree \/ Unmap
            \/ UNCHANGED vars
  <2> SUFFICES UNCHANGED <<sampled, delays, link, polls, mode>>
    BY <1>1
  <2> QED
    BY <1>13 DEF ReadDone, Unload, Drain, CtxFree, Unmap, vars, phyVars,
      lineVars, loadVars, Reset
<1> QED
  BY <1>2, <1>3, <1>4, <1>5, <1>6, <1>7, <1>8, <1>9, <1>10, <1>11, <1>12, <1>13
    DEF Next, LoadNext

-----------------------------------------------------------------------------
(* What is held, and who runs.                                             *)

\* Each step acquires or gives back what its place in the order says.
LEMMA ResStep == ResSound /\ [Next]_vars => ResSound'
<1> SUFFICES ASSUME ResSound, [Next]_vars PROVE ResSound'
  OBVIOUS
<1>1. CASE UNCHANGED <<pc, res, treefail>>
  BY <1>1 DEF ResSound
<1>2. CASE Load
  BY <1>2, AfterFacts DEF Load, ResSound, Held, Base, Interface
<1>3. CASE Allocate
  <2>1. CASE pc = "fdt"
    BY <1>3, <2>1, AfterFacts DEF Allocate, Acquires, ResSound,
      Held, Base, Interface
  <2>2. CASE pc = "map_mac"
    BY <1>3, <2>2, AfterFacts DEF Allocate, Acquires, ResSound,
      Held, Base, Interface
  <2>3. CASE pc = "map_cfg"
    BY <1>3, <2>3, AfterFacts DEF Allocate, Acquires, ResSound,
      Held, Base, Interface
  <2>4. CASE pc = "sysctls"
    BY <1>3, <2>4, AfterFacts DEF Allocate, Acquires, ResSound,
      Held, Base, Interface
  <2>5. CASE pc = "desc_tag"
    BY <1>3, <2>5, AfterFacts DEF Allocate, Acquires, ResSound,
      Held, Base, Interface
  <2>6. CASE pc = "mbuf_tag"
    BY <1>3, <2>6, AfterFacts DEF Allocate, Acquires, ResSound,
      Held, Base, Interface
  <2>7. CASE pc = "dmamem"
    BY <1>3, <2>7, AfterFacts DEF Allocate, Acquires, ResSound,
      Held, Base, Interface
  <2>8. CASE pc = "dmaload"
    BY <1>3, <2>8, AfterFacts DEF Allocate, Acquires, ResSound,
      Held, Base, Interface
  <2> QED
    BY <1>3, <2>1, <2>2, <2>3, <2>4, <2>5, <2>6, <2>7, <2>8 DEF Allocate
<1>4. CASE LoadFail
  BY <1>4, AfterFacts DEF LoadFail, ResSound, Held, Base
<1>5. CASE ClkRestart
  BY <1>5, AfterFacts DEF ClkRestart, ResSound, Held, Base
<1>6. CASE ClkStop
  <2>1. CASE pc = "stop_1g"
    BY <1>6, <2>1, AfterFacts DEF ClkStop, ResSound, Held, Base
  <2>2. CASE pc = "stop_clk"
    BY <1>6, <2>2, AfterFacts DEF ClkStop, ResSound, Held, Base
  <2> QED
    BY <1>6, <2>1, <2>2 DEF ClkStop
<1>7. CASE ClkStart
  <2>1. CASE pc = "start_1g"
    BY <1>7, <2>1, AfterFacts DEF ClkStart, ResSound, Held, Base
  <2>2. CASE pc = "start_clk"
    BY <1>7, <2>2, AfterFacts DEF ClkStart, ResSound, Held, Base
  <2> QED
    BY <1>7, <2>1, <2>2 DEF ClkStart
<1>8. CASE GemInit
  BY <1>8, AfterFacts DEF GemInit, ResSound, Held, Base
<1>9. CASE Pads
  BY <1>9, AfterFacts DEF Pads, ResSound, Held, Base
<1>10. CASE AssertReset
  BY <1>10, AfterFacts DEF AssertReset, ResSound, Held, Base
<1>11. CASE NoGpio
  BY <1>11, AfterFacts DEF NoGpio, ResSound, Held, Base
<1>12. CASE ReleaseReset
  BY <1>12, AfterFacts DEF ReleaseReset, ResSound, Held, Base
<1>13. CASE EnableMac
  <2>1. CASE pc = "early"
    BY <1>13, <2>1, AfterFacts DEF EnableMac, ResSound, Held, Base
  <2>2. CASE pc = "enable"
    BY <1>13, <2>2, AfterFacts DEF EnableMac, ResSound, Held, Base
  <2> QED
    BY <1>13, <2>1, <2>2 DEF EnableMac
<1>14. CASE ReadBmsr
  BY <1>14, AfterFacts DEF ReadBmsr, ResSound, Held, Base
<1>15. CASE SetDelays
  BY <1>15, AfterFacts DEF SetDelays, ResSound, Held, Base
<1>16. CASE Autoneg
  BY <1>16, AfterFacts DEF Autoneg, ResSound, Held, Base
<1>17. CASE ResolveMode
  BY <1>17, AfterFacts DEF ResolveMode, ResSound, Held, Base
<1>18. CASE SetNetCfg
  BY <1>18, AfterFacts DEF SetNetCfg, ResSound, Held, Base
<1>19. CASE SendPause
  BY <1>19, AfterFacts DEF SendPause, ResSound, Held, Base
<1>20. CASE AttachReset
  BY <1>20, AfterFacts DEF AttachReset, ResSound, Held, Base
<1>21. CASE AttachFail
  BY <1>21, AfterFacts DEF AttachFail, ResSound, Held, Base, Interface
<1>22. CASE Attached
  BY <1>22, AfterFacts DEF Attached, ResSound, Held, Base, Interface
<1>23. CASE Unload
  BY <1>23 DEF Unload, ResSound, Held, Base, Interface
<1>24. CASE Drain
  BY <1>24, AfterFacts DEF Drain, ResSound, Held, Base, Interface
<1>25. CASE CtxFree
  BY <1>25, AfterFacts DEF CtxFree, ResSound, Held, Base, Interface
<1>26. CASE Unmap
  <2>1. CASE pc = "unmap_cfg"
    BY <1>26, <2>1, AfterFacts DEF Unmap, ResSound, Held, Base
  <2>2. CASE pc = "unmap_mac"
    BY <1>26, <2>2, AfterFacts DEF Unmap, ResSound, Held, Base
  <2>3. CASE pc = "free"
    BY <1>26, <2>3, AfterFacts DEF Unmap, ResSound, Held, Base
  <2> QED
    BY <1>26, <2>1, <2>2, <2>3 DEF Unmap
<1>27. CASE Up \/ Down \/ Promisc \/ StartTx \/ FlushRx \/ TickFirst
            \/ TickSecond \/ TickTimeout \/ TickClk \/ ReadReg \/ ReadDone
            \/ LinkComes
  <2> SUFFICES UNCHANGED <<pc, res, treefail>>
    BY <1>1
  <2> QED
    BY <1>27 DEF Up, Down, Promisc, StartTx, FlushRx, TickFirst, TickSecond,
      TickTimeout, TickClk, ReadReg, ReadDone, LinkComes, Usable, Reset,
      NetCtl, Report
<1>28. CASE LinkGoes \/ UNCHANGED vars
  <2> SUFFICES UNCHANGED <<pc, res, treefail>>
    BY <1>1
  <2> QED
    BY <1>28 DEF LinkGoes, vars
<1> QED
  BY <1>2, <1>3, <1>4, <1>5, <1>6, <1>7, <1>8, <1>9, <1>10, <1>11, <1>12,
    <1>13, <1>14, <1>15, <1>16, <1>17, <1>18, <1>19, <1>20, <1>21, <1>22,
    <1>23, <1>24, <1>25, <1>26, <1>27, <1>28 DEF Next, LoadNext

\* A handler keeps its sysctl registered: sysctl_ctx_free waits for it.
LEMMA ReaderStep == ResSound /\ ReaderSound /\ [Next]_vars => ReaderSound'
<1> SUFFICES ASSUME ResSound, ReaderSound, [Next]_vars PROVE ReaderSound'
  OBVIOUS
<1>1. CASE UNCHANGED <<res, reader>>
  BY <1>1 DEF ReaderSound
<1>2. CASE Load
  BY <1>2 DEF Load, ReaderSound, ResSound
<1>3. CASE Allocate
  BY <1>3 DEF Allocate, ReaderSound
<1>4. CASE LoadFail
  BY <1>4 DEF LoadFail, ReaderSound, ResSound, Held, Base
<1>5. CASE Pads
  BY <1>5 DEF Pads, ReaderSound
<1>6. CASE NoGpio
  BY <1>6 DEF NoGpio, ReaderSound
<1>7. CASE ReleaseReset
  BY <1>7 DEF ReleaseReset, ReaderSound
<1>8. CASE AttachReset
  BY <1>8 DEF AttachReset, Reset, ReaderSound
<1>9. CASE AttachFail
  BY <1>9 DEF AttachFail, ReaderSound, Interface
<1>10. CASE Attached
  BY <1>10 DEF Attached, ReaderSound
<1>11. CASE ReadReg
  BY <1>11 DEF ReadReg, ReaderSound
<1>12. CASE ReadDone
  BY <1>12 DEF ReadDone, ReaderSound
<1>13. CASE Drain
  BY <1>13 DEF Drain, ReaderSound, Interface
<1>14. CASE CtxFree
  BY <1>14 DEF CtxFree, ReaderSound
<1>15. CASE Unmap
  BY <1>15 DEF Unmap, ReaderSound
<1>16. CASE ClkRestart \/ ClkStop \/ ClkStart \/ GemInit \/ AssertReset
            \/ EnableMac \/ ReadBmsr \/ SetDelays \/ Autoneg
            \/ ResolveMode \/ SetNetCfg \/ SendPause
  <2> SUFFICES UNCHANGED <<res, reader>>
    BY <1>1
  <2> QED
    BY <1>16 DEF ClkRestart, ClkStop, ClkStart, GemInit, AssertReset,
      EnableMac, ReadBmsr, SetDelays, Autoneg, ResolveMode, SetNetCfg,
      SendPause
<1>17. CASE Up \/ Down \/ Promisc \/ StartTx \/ FlushRx \/ TickFirst
            \/ TickSecond \/ TickTimeout \/ TickClk \/ LinkComes
            \/ LinkGoes \/ Unload \/ UNCHANGED vars
  <2> SUFFICES UNCHANGED <<res, reader>>
    BY <1>1
  <2> QED
    BY <1>17 DEF Up, Down, Promisc, StartTx, FlushRx, TickFirst, TickSecond,
      TickTimeout, TickClk, LinkComes, LinkGoes, Unload, vars, Usable, Reset,
      NetCtl, Report
<1> QED
  BY <1>2, <1>3, <1>4, <1>5, <1>6, <1>7, <1>8, <1>9, <1>10, <1>11, <1>12,
    <1>13, <1>14, <1>15, <1>16, <1>17 DEF Next, LoadNext

\* The poll ends with the interface: the stop disarms it and the unload waits
\* for it.
LEMMA TickStep ==
  ResSound /\ WordTypes /\ TickSound /\ [Next]_vars
    => TickSound'
<1> SUFFICES ASSUME ResSound, WordTypes, TickSound, [Next]_vars PROVE TickSound'
  OBVIOUS
<1> USE AfterFacts
<1>1. CASE UNCHANGED <<pc, res, running, armed, tick>>
  BY <1>1 DEF TickSound, WordTypes
<1>2. CASE Load
  BY <1>2 DEF Load, ifVars, TickSound, WordTypes
<1>3. CASE Allocate
  BY <1>3 DEF Allocate, ifVars, TickSound, WordTypes
<1>4. CASE LoadFail
  BY <1>4 DEF LoadFail, ifVars, TickSound, WordTypes
<1>5. CASE ClkRestart
  BY <1>5 DEF ClkRestart, ifVars, TickSound, WordTypes
<1>6. CASE ClkStop
  BY <1>6 DEF ClkStop, ifVars, TickSound, WordTypes
<1>7. CASE ClkStart
  BY <1>7 DEF ClkStart, ifVars, TickSound, WordTypes
<1>8. CASE GemInit
  BY <1>8 DEF GemInit, ifVars, TickSound, WordTypes
<1>9. CASE Pads
  BY <1>9 DEF Pads, ifVars, TickSound, WordTypes
<1>10. CASE AssertReset
  BY <1>10 DEF AssertReset, ifVars, TickSound, WordTypes
<1>11. CASE NoGpio
  BY <1>11 DEF NoGpio, ifVars, TickSound, WordTypes
<1>12. CASE ReleaseReset
  BY <1>12 DEF ReleaseReset, ifVars, TickSound, WordTypes
<1>13. CASE EnableMac
  BY <1>13 DEF EnableMac, ifVars, TickSound, WordTypes
<1>14. CASE ReadBmsr
  BY <1>14 DEF ReadBmsr, ifVars, TickSound, WordTypes
<1>15. CASE SetDelays
  BY <1>15 DEF SetDelays, ifVars, TickSound, WordTypes
<1>16. CASE Autoneg
  BY <1>16 DEF Autoneg, ifVars, TickSound, WordTypes
<1>17. CASE ResolveMode
  BY <1>17 DEF ResolveMode, ifVars, TickSound, WordTypes
<1>18. CASE SetNetCfg
  BY <1>18 DEF SetNetCfg, ifVars, TickSound, WordTypes
<1>19. CASE SendPause
  BY <1>19 DEF SendPause, ifVars, TickSound, WordTypes
<1>20. CASE AttachReset
  BY <1>20 DEF AttachReset, Reset, TickSound, WordTypes
<1>21. CASE AttachFail
  BY <1>21 DEF AttachFail, ifVars, TickSound, WordTypes
<1>22. CASE Attached
  BY <1>22 DEF Attached, ifVars, TickSound, WordTypes
<1>23. CASE Up
  BY <1>23 DEF Up, Usable, TickSound, WordTypes
<1>24. CASE Down
  BY <1>24 DEF Down, Reset, Usable, TickSound, WordTypes
<1>25. CASE TickFirst
  BY <1>25 DEF TickFirst, TickSound, WordTypes
<1>26. CASE TickSecond
  BY <1>26 DEF TickSecond, Report, TickSound, WordTypes
<1>27. CASE TickTimeout
  BY <1>27 DEF TickTimeout, Report, TickSound, WordTypes
<1>28. CASE TickClk
  BY <1>28 DEF TickClk, TickSound, WordTypes
<1>29. CASE Unload
  BY <1>29 DEF Unload, Reset, TickSound, WordTypes
<1>30. CASE Drain
  BY <1>30 DEF Drain, TickSound, WordTypes
<1>31. CASE CtxFree
  BY <1>31 DEF CtxFree, ifVars, TickSound, WordTypes
<1>32. CASE Unmap
  BY <1>32 DEF Unmap, ifVars, TickSound, WordTypes
<1>33. CASE Promisc \/ StartTx \/ FlushRx \/ ReadReg \/ ReadDone
            \/ LinkComes \/ LinkGoes \/ UNCHANGED vars
  <2> SUFFICES UNCHANGED <<pc, res, running, armed, tick>>
    BY <1>1
  <2> QED
    BY <1>33 DEF Promisc, StartTx, FlushRx, ReadReg, ReadDone, LinkComes,
      LinkGoes, vars, Usable, NetCtl, ifVars
<1> QED
  BY <1>2, <1>3, <1>4, <1>5, <1>6, <1>7, <1>8, <1>9, <1>10, <1>11, <1>12,
    <1>13, <1>14, <1>15, <1>16, <1>17, <1>18, <1>19, <1>20, <1>21, <1>22,
    <1>23, <1>24, <1>25, <1>26, <1>27, <1>28, <1>29, <1>30, <1>31, <1>32, <1>33
    DEF Next, LoadNext

\* What cgem_config and the filter write, they write to the shadow as well.
LEMMA MacStep == TickSound /\ MacSound /\ [Next]_vars => MacSound'
<1> SUFFICES ASSUME TickSound, MacSound, [Next]_vars PROVE MacSound'
  OBVIOUS
<1>1. CASE UNCHANGED <<netctl, netcfg, shadow, running>>
  BY <1>1 DEF MacSound, TickSound
<1>2. CASE GemInit
  BY <1>2 DEF GemInit, ifVars, MacSound, TickSound
<1>3. CASE EnableMac
  BY <1>3 DEF EnableMac, ifVars, MacSound, TickSound
<1>4. CASE SetNetCfg
  BY <1>4 DEF SetNetCfg, ifVars, MacSound, TickSound
<1>5. CASE AttachReset
  BY <1>5 DEF AttachReset, Reset, MacSound, TickSound
<1>6. CASE Up
  BY <1>6, BitsFacts DEF Up, MacSound
<1>7. CASE Down
  BY <1>7 DEF Down, Reset, Usable, MacSound, TickSound
<1>8. CASE Promisc
  BY <1>8 DEF Promisc, Usable, MacSound, TickSound
<1>9. CASE StartTx
  BY <1>9 DEF StartTx, NetCtl, Usable, ifVars, MacSound, TickSound
<1>10. CASE FlushRx
  BY <1>10 DEF FlushRx, NetCtl, Usable, ifVars, MacSound, TickSound
<1>11. CASE Unload
  BY <1>11 DEF Unload, Reset, regVars, MacSound, TickSound
<1>12. CASE Unmap
  BY <1>12 DEF Unmap, ifVars, MacSound, TickSound
<1>13. CASE Load \/ Allocate \/ LoadFail \/ ClkRestart \/ ClkStop
            \/ ClkStart \/ Pads \/ AssertReset \/ NoGpio \/ ReleaseReset
            \/ ReadBmsr \/ SetDelays
  <2> SUFFICES UNCHANGED <<netctl, netcfg, shadow, running>>
    BY <1>1
  <2> QED
    BY <1>13 DEF Load, Allocate, LoadFail, ClkRestart, ClkStop, ClkStart, Pads,
      AssertReset, NoGpio, ReleaseReset, ReadBmsr, SetDelays, regVars, ifVars
<1>14. CASE Autoneg \/ ResolveMode \/ SendPause \/ AttachFail \/ Attached
            \/ TickFirst \/ TickSecond \/ TickTimeout \/ TickClk
            \/ ReadReg \/ ReadDone \/ LinkComes
  <2> SUFFICES UNCHANGED <<netctl, netcfg, shadow, running>>
    BY <1>1
  <2> QED
    BY <1>14 DEF Autoneg, ResolveMode, SendPause, AttachFail, Attached,
      TickFirst, TickSecond, TickTimeout, TickClk, ReadReg, ReadDone,
      LinkComes, regVars, ifVars, Report
<1>15. CASE LinkGoes \/ Drain \/ CtxFree \/ UNCHANGED vars
  <2> SUFFICES UNCHANGED <<netctl, netcfg, shadow, running>>
    BY <1>1
  <2> QED
    BY <1>15 DEF LinkGoes, Drain, CtxFree, vars, regVars, ifVars
<1> QED
  BY <1>2, <1>3, <1>4, <1>5, <1>6, <1>7, <1>8, <1>9, <1>10, <1>11, <1>12,
    <1>13, <1>14, <1>15 DEF Next, LoadNext

-----------------------------------------------------------------------------
(* The clock, the PHY and the types that depend on the speed.              *)

\* The two settings of the clock that the steps hand on.
LEMMA ClkFacts ==
  /\ \A s : ~Stopped(s).txdel
  /\ ~At1G.txdel
  /\ At1G.enable /\ ~At1G.kill /\ At1G.ovr /\ At1G.spd = 2
  /\ \A s \in 0 .. 2 :
       Stopped(s) \in [enable : BOOLEAN, kill : BOOLEAN, txdel : BOOLEAN,
                      ovr : BOOLEAN, spd : 0 .. 2]
BY DEF Stopped, At1G

\* CLKGEN is set to a speed: of 1G when it follows NET_CFG.
LEMMA ClkTypesStep ==
  PhyTypes /\ TickSound /\ MacSound /\ ClkTypes /\ [Next]_vars
    => ClkTypes'
<1> SUFFICES ASSUME PhyTypes, TickSound, MacSound, ClkTypes, [Next]_vars
             PROVE  ClkTypes'
  OBVIOUS
<1>1. CASE UNCHANGED <<clk>>
  BY <1>1 DEF ClkTypes
<1>2. CASE ClkRestart
  BY <1>2 DEF ClkRestart, ClkTypes
<1>3. CASE ClkStop
  <2>1. mode[1] \in 0 .. 2
    BY DEF PhyTypes, Modes
  <2>2. clk' \in {Stopped(2), Stopped(mode[1])}
    BY <1>3 DEF ClkStop
  <2> QED
    BY <2>1, <2>2, ClkFacts DEF ClkTypes
<1>4. CASE ClkStart
  BY <1>4 DEF ClkStart, ClkTypes
<1>5. CASE AttachReset
  BY <1>5 DEF AttachReset, Reset, ClkTypes
<1>6. CASE Down
  BY <1>6 DEF Down, Reset, Usable, ClkTypes
<1>7. CASE TickSecond
  <2>1. Code(netcfg) = 2
    BY <1>7, BitsFacts DEF TickSecond, TickSound, MacSound
  <2>2. PICK up \in {Bmsr, TRUE} : Report(up)
    BY <1>7 DEF TickSecond
  <2>3. clk' \in {Stopped(2), clk}
    BY <2>1, <2>2 DEF Report
  <2> QED
    BY <2>3, ClkFacts DEF ClkTypes
<1>8. CASE TickTimeout
  BY <1>8 DEF TickTimeout, Report, ClkTypes
<1>9. CASE TickClk
  BY <1>9 DEF TickClk, ClkTypes
<1>10. CASE Unload
  BY <1>10 DEF Unload, Reset, regVars, ClkTypes
<1>11. CASE Load \/ Allocate \/ LoadFail \/ GemInit \/ Pads \/ AssertReset
            \/ NoGpio \/ ReleaseReset \/ EnableMac \/ ReadBmsr
            \/ SetDelays \/ Autoneg
  <2> SUFFICES UNCHANGED <<clk>>
    BY <1>1
  <2> QED
    BY <1>11 DEF Load, Allocate, LoadFail, GemInit, Pads, AssertReset, NoGpio,
      ReleaseReset, EnableMac, ReadBmsr, SetDelays, Autoneg, regVars
<1>12. CASE ResolveMode \/ SetNetCfg \/ SendPause \/ AttachFail
            \/ Attached \/ Up \/ Promisc \/ StartTx \/ FlushRx
            \/ TickFirst \/ ReadReg \/ ReadDone
  <2> SUFFICES UNCHANGED <<clk>>
    BY <1>1
  <2> QED
    BY <1>12 DEF ResolveMode, SetNetCfg, SendPause, AttachFail, Attached, Up,
      Promisc, StartTx, FlushRx, TickFirst, ReadReg, ReadDone, regVars, Usable,
      NetCtl
<1>13. CASE LinkComes \/ LinkGoes \/ Drain \/ CtxFree \/ Unmap
            \/ UNCHANGED vars
  <2> SUFFICES UNCHANGED <<clk>>
    BY <1>1
  <2> QED
    BY <1>13 DEF LinkComes, LinkGoes, Drain, CtxFree, Unmap, vars, regVars
<1> QED
  BY <1>2, <1>3, <1>4, <1>5, <1>6, <1>7, <1>8, <1>9, <1>10, <1>11, <1>12, <1>13
    DEF Next, LoadNext

\* Load sets the clock in the steps before the PHY leaves reset, and the poll
\* when the link comes up.
LEMMA ClkStep ==
  TickSound /\ MacSound /\ ClkTypes /\ ClkSound /\ [Next]_vars
    => ClkSound'
<1> SUFFICES ASSUME TickSound, MacSound, ClkTypes, ClkSound, [Next]_vars
             PROVE  ClkSound'
  OBVIOUS
<1> USE AfterFacts
<1>1. CASE UNCHANGED <<pc, clk, tick, link_up>>
  BY <1>1 DEF ClkSound
<1>2. CASE Load
  BY <1>2 DEF Load, regVars, ifVars, ClkSound
<1>3. CASE Allocate
  BY <1>3 DEF Allocate, regVars, ifVars, ClkSound
<1>4. CASE LoadFail
  BY <1>4 DEF LoadFail, regVars, ifVars, ClkSound
<1>5. CASE ClkRestart
  BY <1>5 DEF ClkRestart, ifVars, ClkSound
<1>6. CASE ClkStop
  <2>1. CASE pc = "stop_1g"
    BY <1>6, <2>1, ClkFacts, AfterFacts DEF ClkStop, ifVars, ClkSound
  <2>2. CASE pc = "stop_clk"
    BY <1>6, <2>2, ClkFacts, AfterFacts DEF ClkStop, ifVars, ClkSound
  <2> QED
    BY <1>6, <2>1, <2>2 DEF ClkStop
<1>7. CASE ClkStart
  <2>1. CASE pc = "start_1g"
    <3>1. clk' = At1G /\ pc' = "gem" /\ UNCHANGED <<link_up, tick>>
      BY <1>7, <2>1, AfterFacts DEF ClkStart, ifVars, ClkSound, At1G
    <3> QED
      BY <2>1, <3>1, ClkFacts DEF ClkSound
  <2>2. CASE pc = "start_clk"
    <3>1. ~clk'.txdel
      BY <1>7, <2>2 DEF ClkStart, ClkTypes, ClkSound
    <3> QED
      BY <1>7, <2>2, <3>1, AfterFacts DEF ClkStart, ifVars, ClkSound
  <2> QED
    BY <1>7, <2>1, <2>2 DEF ClkStart
<1>8. CASE GemInit
  BY <1>8 DEF GemInit, ifVars, ClkSound
<1>9. CASE Pads
  BY <1>9 DEF Pads, regVars, ifVars, ClkSound
<1>10. CASE AssertReset
  BY <1>10 DEF AssertReset, regVars, ifVars, ClkSound
<1>11. CASE NoGpio
  BY <1>11 DEF NoGpio, regVars, ifVars, ClkSound
<1>12. CASE ReleaseReset
  BY <1>12 DEF ReleaseReset, regVars, ifVars, ClkSound
<1>13. CASE EnableMac
  BY <1>13 DEF EnableMac, ifVars, ClkSound
<1>14. CASE ReadBmsr
  BY <1>14 DEF ReadBmsr, regVars, ifVars, ClkSound
<1>15. CASE SetDelays
  BY <1>15 DEF SetDelays, regVars, ifVars, ClkSound
<1>16. CASE Autoneg
  BY <1>16 DEF Autoneg, regVars, ifVars, ClkSound
<1>17. CASE ResolveMode
  BY <1>17 DEF ResolveMode, regVars, ifVars, ClkSound
<1>18. CASE SetNetCfg
  BY <1>18 DEF SetNetCfg, ifVars, ClkSound
<1>19. CASE SendPause
  BY <1>19 DEF SendPause, ifVars, ClkSound
<1>20. CASE AttachReset
  BY <1>20, AfterFacts DEF AttachReset, Reset, ClkSound, TickSound
<1>21. CASE AttachFail
  BY <1>21 DEF AttachFail, regVars, ifVars, ClkSound
<1>22. CASE Attached
  BY <1>22 DEF Attached, regVars, ifVars, ClkSound
<1>23. CASE Down
  BY <1>23 DEF Down, Reset, Usable, ClkSound
<1>24. CASE TickFirst
  BY <1>24 DEF TickFirst, regVars, ClkSound
<1>25. CASE TickSecond
  <2>1. Code(netcfg) = 2 /\ pc = "loaded"
    BY <1>25, BitsFacts DEF TickSecond, TickSound, MacSound
  <2>2. PICK up \in {Bmsr, TRUE} : Report(up)
    BY <1>25 DEF TickSecond
  <2>3. CASE up /\ ~link_up
    <3>1. clk' = Stopped(2) /\ tick' = "clk" /\ pc' = pc /\ link_up'
      BY <2>1, <2>2, <2>3 DEF Report
    <3> QED
      BY <2>1, <3>1, ClkFacts DEF ClkSound
  <2>4. CASE ~(up /\ ~link_up)
    <3>1. clk' = clk /\ tick' = "no" /\ pc' = pc /\ link_up' = up
      BY <2>2, <2>4 DEF Report
    <3> QED
      BY <1>25, <2>1, <2>4, <3>1 DEF ClkSound, TickSecond
  <2> QED
    BY <2>3, <2>4
<1>26. CASE TickTimeout
  BY <1>26 DEF TickTimeout, Report, ClkSound
<1>27. CASE TickClk
  <2>1. pc = "loaded" /\ link_up /\ clk = Stopped(2)
    BY <1>27 DEF TickClk, TickSound, ClkSound
  <2>2. clk' = At1G /\ tick' = "no" /\ UNCHANGED <<pc, link_up>>
    BY <1>27, <2>1 DEF TickClk, At1G
  <2> QED
    BY <2>1, <2>2, ClkFacts DEF ClkSound
<1>28. CASE Unload
  BY <1>28 DEF Unload, Reset, regVars, ClkSound
<1>29. CASE Drain
  BY <1>29 DEF Drain, regVars, ClkSound
<1>30. CASE CtxFree
  BY <1>30 DEF CtxFree, regVars, ifVars, ClkSound
<1>31. CASE Unmap
  BY <1>31 DEF Unmap, ifVars, ClkSound
<1>32. CASE Up \/ Promisc \/ StartTx \/ FlushRx \/ ReadReg \/ ReadDone
            \/ LinkComes \/ LinkGoes \/ UNCHANGED vars
  <2> SUFFICES UNCHANGED <<pc, clk, tick, link_up>>
    BY <1>1
  <2> QED
    BY <1>32 DEF Up, Promisc, StartTx, FlushRx, ReadReg, ReadDone, LinkComes,
      LinkGoes, vars, Usable, NetCtl, ifVars, regVars
<1> QED
  BY <1>2, <1>3, <1>4, <1>5, <1>6, <1>7, <1>8, <1>9, <1>10, <1>11, <1>12,
    <1>13, <1>14, <1>15, <1>16, <1>17, <1>18, <1>19, <1>20, <1>21, <1>22,
    <1>23, <1>24, <1>25, <1>26, <1>27, <1>28, <1>29, <1>30, <1>31, <1>32 DEF
    Next, LoadNext

\* The PHY leaves reset with the clock at 1G, and its delays are set after it.
LEMMA PhySoundStep == ClkSound /\ PhySound /\ [Next]_vars => PhySound'
<1> SUFFICES ASSUME ClkSound, PhySound, [Next]_vars PROVE PhySound'
  OBVIOUS
<1> USE AfterFacts
<1>1. CASE UNCHANGED <<pc, reset, sampled, delays>>
  BY <1>1 DEF PhySound
<1>2. CASE Load
  BY <1>2 DEF Load, phyVars, PhySound
<1>3. CASE Allocate
  BY <1>3 DEF Allocate, phyVars, PhySound
<1>4. CASE LoadFail
  BY <1>4 DEF LoadFail, phyVars, PhySound
<1>5. CASE ClkRestart
  BY <1>5 DEF ClkRestart, phyVars, PhySound
<1>6. CASE ClkStop
  BY <1>6 DEF ClkStop, phyVars, PhySound
<1>7. CASE ClkStart
  BY <1>7 DEF ClkStart, phyVars, PhySound
<1>8. CASE GemInit
  BY <1>8 DEF GemInit, phyVars, PhySound
<1>9. CASE Pads
  BY <1>9 DEF Pads, phyVars, PhySound
<1>10. CASE AssertReset
  BY <1>10 DEF AssertReset, PhySound
<1>11. CASE NoGpio
  BY <1>11 DEF NoGpio, phyVars, PhySound
<1>12. CASE ReleaseReset
  <2>1. TxClk = 2
    BY <1>12 DEF ReleaseReset, ClkSound, At1G, Stopped, TxClk
  <2> QED
    BY <1>12, <2>1, AfterFacts DEF ReleaseReset, PhySound
<1>13. CASE EnableMac
  BY <1>13 DEF EnableMac, phyVars, PhySound
<1>14. CASE ReadBmsr
  BY <1>14 DEF ReadBmsr, phyVars, PhySound
<1>15. CASE SetDelays
  BY <1>15 DEF SetDelays, PhySound
<1>16. CASE Autoneg
  BY <1>16 DEF Autoneg, phyVars, PhySound
<1>17. CASE ResolveMode
  BY <1>17 DEF ResolveMode, phyVars, PhySound
<1>18. CASE SetNetCfg
  BY <1>18 DEF SetNetCfg, phyVars, PhySound
<1>19. CASE SendPause
  BY <1>19 DEF SendPause, phyVars, PhySound
<1>20. CASE AttachReset
  BY <1>20 DEF AttachReset, Reset, phyVars, PhySound
<1>21. CASE AttachFail
  BY <1>21 DEF AttachFail, phyVars, PhySound
<1>22. CASE Attached
  BY <1>22 DEF Attached, phyVars, PhySound
<1>23. CASE Unload
  BY <1>23 DEF Unload, Reset, phyVars, PhySound
<1>24. CASE Drain
  BY <1>24 DEF Drain, phyVars, PhySound
<1>25. CASE CtxFree
  BY <1>25 DEF CtxFree, phyVars, PhySound
<1>26. CASE Unmap
  BY <1>26 DEF Unmap, phyVars, PhySound
<1>27. CASE Up \/ Down \/ Promisc \/ StartTx \/ FlushRx \/ TickFirst
            \/ TickSecond \/ TickTimeout \/ TickClk \/ ReadReg \/ ReadDone
            \/ LinkComes
  <2> SUFFICES UNCHANGED <<pc, reset, sampled, delays>>
    BY <1>1
  <2> QED
    BY <1>27 DEF Up, Down, Promisc, StartTx, FlushRx, TickFirst, TickSecond,
      TickTimeout, TickClk, ReadReg, ReadDone, LinkComes, Usable, phyVars,
      Reset, NetCtl, Report
<1>28. CASE LinkGoes \/ UNCHANGED vars
  <2> SUFFICES UNCHANGED <<pc, reset, sampled, delays>>
    BY <1>1
  <2> QED
    BY <1>28 DEF LinkGoes, vars, phyVars
<1> QED
  BY <1>2, <1>3, <1>4, <1>5, <1>6, <1>7, <1>8, <1>9, <1>10, <1>11, <1>12,
    <1>13, <1>14, <1>15, <1>16, <1>17, <1>18, <1>19, <1>20, <1>21, <1>22,
    <1>23, <1>24, <1>25, <1>26, <1>27, <1>28 DEF Next, LoadNext

\* Between resolving the mode and rp1eth_attach only load touches NET_CFG and
\* CLKGEN, and it sets both to the mode.
LEMMA LoadStep ==
  PhyTypes /\ TickSound /\ LoadSound /\ [Next]_vars => LoadSound'
<1> SUFFICES ASSUME PhyTypes, TickSound, LoadSound, [Next]_vars PROVE LoadSound'
  OBVIOUS
<1> USE AfterFacts
<1>1. CASE UNCHANGED <<pc, netcfg, clk, mode>>
  BY <1>1 DEF LoadSound
<1>2. CASE SetNetCfg
  <2>1. mode \in Modes
    BY DEF PhyTypes
  <2>2. Code(netcfg') = mode[1]
    BY <1>2, <2>1 DEF SetNetCfg, Code, Bits, Modes
  <2> QED
    BY <1>2, <2>2 DEF SetNetCfg, loadVars, LoadSound
<1>3. CASE ClkStop
  BY <1>3 DEF ClkStop, loadVars, LoadSound
<1>4. CASE ClkStart
  BY <1>4 DEF ClkStart, loadVars, LoadSound
<1>5. CASE EnableMac
  BY <1>5 DEF EnableMac, loadVars, LoadSound
<1>6. CASE SendPause
  BY <1>6 DEF SendPause, loadVars, LoadSound
<1>7. CASE Up \/ Down \/ Promisc \/ StartTx \/ FlushRx \/ TickFirst \/ TickSecond
           \/ TickTimeout \/ TickClk
  <2>1. pc = "loaded" /\ pc' = pc
    BY <1>7 DEF Up, Down, Promisc, StartTx, FlushRx, TickFirst, TickSecond,
      TickTimeout, TickClk, Report, Usable, TickSound
  <2> QED
    BY <2>1 DEF LoadSound
<1>8. CASE Load \/ Allocate \/ LoadFail \/ ClkRestart \/ GemInit \/ Pads
           \/ AssertReset \/ NoGpio \/ ReleaseReset \/ ReadBmsr
  <2>1. pc' \notin {"stop_clk", "start_clk", "enable", "pause", "softc"}
    BY <1>8 DEF Load, Allocate, LoadFail, ClkRestart, GemInit, Pads, AssertReset,
      NoGpio, ReleaseReset, ReadBmsr
  <2> QED
    BY <2>1 DEF LoadSound
<1>9. CASE SetDelays \/ Autoneg \/ ResolveMode \/ AttachReset \/ AttachFail
           \/ Attached \/ Unload \/ Drain \/ CtxFree \/ Unmap
  <2>1. pc' \notin {"stop_clk", "start_clk", "enable", "pause", "softc"}
    BY <1>9 DEF SetDelays, Autoneg, ResolveMode, AttachReset, AttachFail, Attached,
      Unload, Drain, CtxFree, Unmap
  <2> QED
    BY <2>1 DEF LoadSound
<1>10. CASE ReadReg \/ ReadDone \/ LinkComes \/ LinkGoes \/ UNCHANGED vars
  <2> SUFFICES UNCHANGED <<pc, netcfg, clk, mode>>
    BY <1>1
  <2> QED
    BY <1>10 DEF ReadReg, ReadDone, LinkComes, LinkGoes, vars, regVars, loadVars
<1> QED
  BY <1>2, <1>3, <1>4, <1>5, <1>6, <1>7, <1>8, <1>9, <1>10 DEF Next, LoadNext

\* A change to down is reported at once, one to up after the clock runs again.
LEMMA ToldStep == TickSound /\ ClkSound /\ ToldSound /\ [Next]_vars => ToldSound'
<1> SUFFICES ASSUME TickSound, ClkSound, ToldSound, [Next]_vars PROVE ToldSound'
  OBVIOUS
<1> USE AfterFacts
<1>1. CASE UNCHANGED <<pc, tick, link_up, lstate>>
  BY <1>1 DEF ToldSound
<1>2. CASE TickFirst
  BY <1>2 DEF TickFirst, ToldSound
<1>3. CASE TickSecond
  <2>1. PICK up \in {Bmsr, TRUE} : Report(up)
    BY <1>3 DEF TickSecond
  <2> QED
    BY <1>3, <2>1 DEF TickSecond, Report, TickSound, ToldSound
<1>4. CASE TickTimeout
  BY <1>4 DEF TickTimeout, Report, TickSound, ToldSound
<1>5. CASE TickClk
  BY <1>5 DEF TickClk, TickSound, ClkSound, ToldSound
<1>6. CASE AttachReset
  BY <1>6 DEF AttachReset, ToldSound
<1>7. CASE Attached \/ AttachFail \/ Allocate
  BY <1>7 DEF Attached, AttachFail, Allocate, ifVars, ToldSound
<1>8. CASE Load \/ LoadFail \/ ClkRestart \/ ClkStop \/ ClkStart \/ GemInit \/ Pads
           \/ AssertReset \/ NoGpio \/ ReleaseReset \/ EnableMac \/ ReadBmsr
  <2>1. pc' \notin {"desc_tag", "mbuf_tag", "dmamem", "dmaload", "ifattach",
                    "loaded"}
    BY <1>8 DEF Load, LoadFail, ClkRestart, ClkStop, ClkStart, GemInit, Pads,
      AssertReset, NoGpio, ReleaseReset, EnableMac, ReadBmsr
  <2> QED
    BY <2>1 DEF ToldSound
<1>9. CASE SetDelays \/ Autoneg \/ ResolveMode \/ SetNetCfg \/ SendPause \/ Unload
           \/ Drain \/ CtxFree \/ Unmap
  <2>1. pc' \notin {"desc_tag", "mbuf_tag", "dmamem", "dmaload", "ifattach",
                    "loaded"}
    BY <1>9 DEF SetDelays, Autoneg, ResolveMode, SetNetCfg, SendPause, Unload,
      Drain, CtxFree, Unmap
  <2> QED
    BY <2>1 DEF ToldSound
<1>10. CASE Up \/ Down \/ Promisc \/ StartTx \/ FlushRx \/ ReadReg \/ ReadDone
            \/ LinkComes \/ LinkGoes \/ UNCHANGED vars
  <2> SUFFICES UNCHANGED <<pc, tick, link_up, lstate>>
    BY <1>1
  <2> QED
    BY <1>10 DEF Up, Down, Promisc, StartTx, FlushRx, ReadReg, ReadDone, LinkComes,
      LinkGoes, vars, ifVars
<1> QED
  BY <1>2, <1>3, <1>4, <1>5, <1>6, <1>7, <1>8, <1>9, <1>10 DEF Next, LoadNext

-----------------------------------------------------------------------------
(* The invariant.                                                          *)

\* It implies the types, with those of what is held.
LEMMA TypesHold == IInv => TypeOK
<1> SUFFICES ASSUME IInv PROVE TypeOK
  OBVIOUS
<1>1. res \subseteq {"softc", "mtx", "ctx", "mac", "cfg", "sysctls", "pushpull"}
                    \cup Interface
  <2>1. CASE pc \in {"unloaded", "loaded"}
    BY <2>1 DEF IInv, ResSound, Base
  <2>2. CASE pc \notin {"unloaded", "loaded"}
    <3>1. res \ {"pushpull"} = Held(pc)
      BY <2>2 DEF IInv, ResSound
    <3>2. Held(pc) \subseteq Base \cup Interface
      BY DEF Held, Base, Interface
    <3> QED
      BY <3>1, <3>2 DEF Base
  <2> QED
    BY <2>1, <2>2
<1> QED
  BY <1>1 DEF IInv, TypeOK, PcTypes, FlagTypes, WordTypes, RegTypes, ClkTypes,
    PhyTypes, CfgBits, Pcs

\* It holds before the module is loaded, whatever the boot loader has left.
LEMMA InitInv == Init => IInv
<1> SUFFICES ASSUME Init PROVE IInv
  OBVIOUS
<1>1. PcTypes
  BY StepFacts DEF Init, PcTypes
<1>2. FlagTypes
  BY DEF Init, FlagTypes
<1>3. WordTypes /\ RegTypes
  BY DEF Init, WordTypes, RegTypes
<1>4. ClkTypes
  <2>1. /\ clk = [enable |-> clk.enable, kill |-> clk.kill, txdel |-> clk.txdel,
                  ovr |-> clk.ovr, spd |-> clk.spd]
        /\ {clk.enable, clk.kill, clk.txdel} \subseteq BOOLEAN
        /\ clk.ovr = FALSE /\ clk.spd = 0
    BY DEF Init
  <2>2. clk.spd \in 0 .. 2
    BY <2>1
  <2> QED
    BY <2>1, <2>2 DEF ClkTypes
<1>5. PhyTypes
  BY LinkAssumption DEF Init, PhyTypes, Modes
<1>6. ResSound /\ ReaderSound /\ TickSound /\ MacSound
  BY DEF Init, ResSound, ReaderSound, TickSound, MacSound
<1>7. ClkSound /\ PhySound /\ LoadSound /\ ToldSound
  BY DEF Init, ClkSound, PhySound, LoadSound, ToldSound
<1> QED
  BY <1>1, <1>2, <1>3, <1>4, <1>5, <1>6, <1>7 DEF IInv

\* It holds in every state.
LEMMA Invariant == Spec => []IInv
<1>1. IInv /\ [Next]_vars => IInv'
  BY PcStep, FlagStep, WordStep, RegStep, ClkTypesStep, PhyStep, ResStep,
    ReaderStep, TickStep, ClkStep, PhySoundStep, MacStep, LoadStep,
    ToldStep DEF IInv
<1> QED
  BY <1>1, InitInv, PTL DEF Spec

-----------------------------------------------------------------------------
(* The theorems.                                                           *)

\* Loading and unloading are safe at any time and after any failure: nothing is
\* left but on the path of a missing sysctl node, and no sysctl handler and no
\* link poll outlives the registers or the softc it uses (the module's event
\* handler, rp1eth_attach and rp1eth_detach).
THEOREM LoadUnload == Spec => []Unloadable
<1>1. IInv => NothingLeft
  BY DEF IInv, ResSound, NothingLeft
<1>2. IInv => MappedWhileUsed
  <2> SUFFICES ASSUME IInv PROVE MappedWhileUsed
    OBVIOUS
  <2>1. ASSUME reader # "none" PROVE reader \in res
    <3>1. "sysctls" \in res /\ reader \in {"mac", "cfg"}
      BY <2>1 DEF IInv, ReaderSound, WordTypes
    <3>2. CASE pc \in {"unloaded", "loaded"}
      BY <3>1, <3>2 DEF IInv, ResSound, Base
    <3>3. CASE pc \notin {"unloaded", "loaded"}
      <4>1. "sysctls" \in Held(pc) /\ Held(pc) = res \ {"pushpull"}
        BY <3>1, <3>3 DEF IInv, ResSound
      <4>2. {"mac", "cfg"} \subseteq Held(pc)
        <5>1. CASE pc \in {"fdt", "map_mac", "map_cfg", "restart", "stop_1g",
                           "start_1g", "gem", "sysctls", "unmap_cfg",
                           "unmap_mac", "free"}
          <6>1. Held(pc) \in {{"softc", "mtx", "ctx"}, {"softc", "mtx", "ctx", "mac"},
                              Base \ {"sysctls"}, {"softc", "mtx", "mac", "cfg"},
                              {"softc", "mtx", "mac"}, {"softc", "mtx"}}
            BY <5>1 DEF Held
          <6> QED
            BY <4>1, <6>1
        <5>2. CASE pc \notin {"fdt", "map_mac", "map_cfg", "restart", "stop_1g",
                              "start_1g", "gem", "sysctls", "unmap_cfg",
                              "unmap_mac", "free"}
          <6>1. Base \subseteq Held(pc)
            BY <5>2 DEF Held
          <6> QED
            BY <6>1 DEF Base
        <5> QED
          BY <5>1, <5>2
      <4> QED
        BY <3>1, <4>1, <4>2
    <3> QED
      BY <3>2, <3>3
  <2>2. ASSUME armed \/ tick # "no"
        PROVE  {"mac_softc", "mac", "cfg"} \subseteq res
    <3>1. pc = "loaded" /\ "ifnet" \in res
      BY <2>2 DEF IInv, TickSound
    <3>2. res = Base \cup Interface
      BY <3>1 DEF IInv, ResSound, Base
    <3> QED
      BY <3>2 DEF Base, Interface
  <2> QED
    BY <2>1, <2>2 DEF MappedWhileUsed
<1> QED
  BY <1>1, <1>2, TypesHold, Invariant, PTL DEF Unloadable

\* The RGMII: the PHY left reset with the TX clock at 125 MHz; load leaves clock and
\* MAC at the speed it has resolved with the partner; an interface that runs has its
\* MAC on and its delays set, and one reported up has the clock at the speed of the
\* MAC, which need not be that of the line (the module's event handler,
\* cgem_init_locked, cgem_stop, rp1eth_tick, rp1eth_update_speed).
THEOREM LineAgrees == Spec => []LineReady
<1>1. IInv => LineReady
  <2> SUFFICES ASSUME IInv PROVE LineReady
    OBVIOUS
  <2>1. SampledGigabit
    BY DEF IInv, PhySound, SampledGigabit
  <2>2. ReadyWhenUp
    <3> SUFFICES ASSUME running, tick = "no"
                 PROVE  /\ netctl = {"mdio", "rx", "tx"}
                        /\ netcfg = shadow
                        /\ ~reset => delays = Settings /\ ~clk.txdel
      BY DEF ReadyWhenUp
    <3>1. pc = "loaded"
      BY DEF IInv, TickSound
    <3>2. ~clk.txdel /\ (~reset => delays = Settings)
      BY <3>1 DEF IInv, ClkSound, PhySound
    <3> QED
      BY <3>2 DEF IInv, MacSound
  <2>3. ClockMatchesMac
    <3> SUFFICES ASSUME running, lstate = "up" PROVE TxClk = Code(netcfg)
      BY DEF ClockMatchesMac
    <3>1. pc = "loaded"
      BY DEF IInv, TickSound
    <3>2. clk = At1G
      BY <3>1 DEF IInv, ClkSound, ToldSound
    <3>3. Code(netcfg) = 2
      BY BitsFacts DEF IInv, MacSound
    <3> QED
      BY <3>2, <3>3, ClkFacts DEF TxClk
  <2>4. LoadMatchesLine
    BY DEF IInv, LoadSound, LoadMatchesLine, TxClk, Stopped
  <2> QED
    BY <2>1, <2>2, <2>3, <2>4 DEF LineReady
<1> QED
  BY <1>1, Invariant, PTL
=============================================================================
