---------------------------- MODULE CywBootProofs ----------------------------
(***************************************************************************)
(* Proofs about CywBoot and the parser of CywNvram in it.  cyw_attach and  *)
(* cyw_detach are straight lines of steps with entries for the failures,   *)
(* so that what is held, whether the ARM may run and what its RAM holds    *)
(* are invariants indexed by the step; the accesses of a step that are     *)
(* still to be done are told apart by their place from the end.            *)
(***************************************************************************)
EXTENDS CywBoot, FiniteSetTheorems, TLAPS

-----------------------------------------------------------------------------
(* The inductive invariant.                                                *)

\* What cyw_attach holds before the firmware runs, ...
Early == {"mtx", "ioctl_sx", "sysctl", "f1"}

\* ... with both functions enabled, ...
Base == Early \union {"sdio_attached", "f2"}

\* ... and with net80211.
Net == Base \union {"ic", "handlers", "callbacks"}

\* What may be held at a step of cyw_attach, and, failing or not, behind it.
May(p, f) ==
  CASE p \in {"funcs", "sysctl"} -> {"mtx", "ioctl_sx", "f1"}
    [] p \in {"blksize", "enable_f1", "clock", "chipid", "probe", "f2_blksize",
              "halt"} -> Early
    [] p \in {"get_fw", "fw", "get_nvram", "parse", "nvram", "release",
              "force_ht", "kick", "enable_f2"} -> Base \ {"f2"}
    [] p \in {"handshake", "get_clm", "clm", "clm_status", "mac", "ifattach"}
         -> Base
    [] p \in {"event_msgs", "handlers"} -> Base \union {"ic"}
    [] p = "callbacks"     -> Net \ {"callbacks"}
    [] p = "cv"            -> Net
    [] p = "rx_tq"         -> Net \union {"cv", "f2_sx"}
    [] p = "scan_tq"       -> Net \union {"cv", "f2_sx", "rx_tq"}
    [] p = "start"         -> Net \union {"cv", "f2_sx", "rx_tq", "scan_tq"}
    [] p = "cfg_handlers"  -> IF f THEN Net \union {"cv", "f2_sx"} ELSE Resources
    [] p = "cfg_ic"        -> IF f THEN (Net \ {"handlers"}) \union {"cv", "f2_sx"}
                              ELSE Resources \ {"handlers"}
    [] p = "sdpcm_stop"    -> Resources \ {"handlers", "ic", "callbacks"}
    [] p = "sdpcm_scan_tq" -> Base \union {"cv", "f2_sx", "tx_queue", "scan_tq"}
    [] p = "sdpcm_cv"      -> Base \union {"cv", "f2_sx", "tx_queue"}
    [] p \in {"sdio_clock", "sdio_halt", "sdio_off"}
         -> IF f THEN Base \union {"cv", "f2_sx"} ELSE Base
    [] p = "sysctl_free"   -> IF f THEN Early \union {"cv", "f2_sx"}
                              ELSE {"mtx", "ioctl_sx", "sysctl"}
    [] p = "locks"         -> IF f THEN {"mtx", "ioctl_sx", "f1", "cv", "f2_sx"}
                              ELSE {"mtx", "ioctl_sx"}
    [] p = "idle"          -> IF f THEN {"ioctl_sx", "f1", "cv", "f2_sx"} ELSE {}
    [] OTHER               -> Resources

\* The steps before F1 has a clock, and those behind cyw_sdio_detach.
Dark == {"funcs", "sysctl", "blksize", "enable_f1", "clock", "sysctl_free",
         "locks", "idle"}

\* The steps of cyw_attach that lead to the next one.
Doing == {"funcs", "sysctl", "blksize", "enable_f1", "clock", "chipid", "probe",
          "f2_blksize", "halt", "get_fw", "fw", "get_nvram", "parse", "nvram",
          "release", "force_ht", "kick", "enable_f2", "handshake", "clm",
          "clm_status", "mac", "ifattach", "event_msgs", "handlers", "callbacks",
          "cv", "rx_tq", "scan_tq", "start"}

\* Those of them that may fail.
Fallible == {"funcs", "blksize", "enable_f1", "clock", "chipid", "f2_blksize",
             "get_fw", "fw", "get_nvram", "nvram", "force_ht", "enable_f2",
             "clm", "clm_status", "mac", "event_msgs", "rx_tq", "scan_tq"}

\* What is held, at most and at least.
ResSound ==
  /\ res \subseteq May(pc, failing)
  /\ failing => pc \in {"cfg_handlers", "cfg_ic", "sdio_clock", "sdio_halt",
                        "sdio_off", "sysctl_free", "locks", "idle"}
  /\ pc \notin Dark \/ pc = "clock" => "f1" \in res
  /\ pc \notin Dark \union {"chipid", "probe", "f2_blksize", "halt"}
       => "sdio_attached" \in res

\* There is a clock whenever the backplane may be accessed, and F1 with it.
ClkSound ==
  /\ pc \notin Dark => clk # "none"
  /\ clk # "none" => "f1" \in res

\* net80211 has a VAP only while it has the driver's callbacks; a scan is queued
\* only while its queue is there.
UserSound ==
  /\ vap => "callbacks" \in res
  /\ queued => "scan_tq" \in res

\* The firmware's copy of the blob between two chunks.
ClmSound ==
  /\ pc = "clm" =>
       /\ blob # -1
       /\ cumulative <= blob
       /\ begin => cumulative = 0
       /\ ~begin => clm.open /\ clm.len = cumulative /\ cumulative < blob
  /\ ClmWhole

\* The steps that access the backplane.
Halting == {"halt", "sdio_halt"}
Accessing == Halting \union {"chipid", "probe", "release", "kick", "handshake"}

\* An access to the backplane.
Op == [win : Nat, reg : {"none", "ioctl", "reset_ctl", "vector"},
       bits : SUBSET {"FGC", "CLK", "CPUHALT", "RESET"}]

\* The accesses s of step p, by their place from the end: which of them reach the
\* wrapper of the ARM and the reset vector.
Ordered(s, p) ==
  \A j \in 1 .. Len(s) :
    LET op == s[j]
        r  == Len(s) - j
    IN
    /\ op.reg = "ioctl" => "RESET" \notin op.bits
    /\ op.reg = "reset_ctl" => op.bits \subseteq {"RESET"}
    /\ op.reg # "none" => p \in Halting \union {"release"}
    /\ p \in Halting =>
         /\ op.reg = "ioctl" => "CPUHALT" \in op.bits
         /\ op.reg = "reset_ctl" => r < 3
         /\ r = 3 => op.reg = "ioctl"
    /\ p = "release" =>
         /\ op.reg \in {"ioctl", "reset_ctl"} => r < 11
         /\ r = 11 => op.reg = "vector"

\* What a step has left to access.
OpsSound ==
  /\ todo \in Seq(Op)
  /\ todo # << >> => pc \in Accessing
  /\ Ordered(todo, pc)

\* The registers hold the window the driver has set, unless a change of it failed
\* or there was none yet; then the first access is not to window 0.
WindowSound ==
  /\ \/ torn
     \/ sbaddr = Bytes(bp_window)
     \/ bp_window = 0 /\ pc \in Dark
     \/ bp_window = 0 /\ pc = "chipid" /\ todo = << Read(Cores) >>
  /\ NeverAstray

\* The steps at which the ARM may run.
Live == {"release", "force_ht", "kick", "enable_f2", "handshake", "get_clm", "clm",
         "clm_status", "mac", "ifattach", "event_msgs", "handlers", "callbacks",
         "cv", "rx_tq", "scan_tq", "start", "attached", "cfg_handlers", "cfg_ic",
         "sdpcm_stop", "sdpcm_scan_tq", "sdpcm_cv", "sdio_clock", "sdio_halt"}

\* As long as no error was swallowed, the ARM runs at those steps only: it is
\* halted while its RAM is written and when a change of the window has failed.
HaltSound ==
  errors = 0 =>
    /\ pc \notin Live => ~Running
    /\ pc \in {"get_fw", "fw", "get_nvram", "parse", "nvram"}
         => "CPUHALT" \in arm.ioctl
    /\ torn => pc \in {"sdio_clock", "sdio_halt", "sdio_off", "sysctl_free",
                       "locks", "idle"}
    /\ torn /\ pc \in {"sdio_clock", "sdio_halt"} => "CPUHALT" \in arm.ioctl
    /\ pc \in Halting /\ Len(todo) <= 3 => "CPUHALT" \in arm.ioctl

\* What the RAM holds while it is written.
RamIs(fw, lo, hi) ==
  \A a \in 0 .. (RamSize - 1) :
    ram[a] = CASE a < fw -> "fw"
               [] a >= lo /\ a < hi -> "nvram"
               [] OTHER -> "old"

\* The images, piece by piece, as long as no error was swallowed.
RamSound ==
  /\ pc = "fw" => done <= fw_size
  /\ pc = "nvram" => done <= nvlen
  /\ errors = 0 =>
       /\ ~misread
       /\ pc \in {"f2_blksize", "halt", "get_fw", "fw", "get_nvram", "parse",
                  "nvram"} => ram_size = RamSize
       /\ pc \in {"funcs", "sysctl", "blksize", "enable_f1", "clock", "chipid",
                  "probe", "f2_blksize", "halt", "get_fw"} => RamIs(0, 0, 0)
       /\ pc = "fw" => RamIs(done, 0, 0)
       /\ pc \in {"get_nvram", "parse"} => RamIs(fw_size, 0, 0)
       /\ pc = "nvram" /\ fw_size + nvlen <= RamSize
            => RamIs(fw_size, RamSize - nvlen, RamSize - nvlen + done)
       /\ pc = "release" => ImagesInRam

\* The reset vector is written before the ARM is touched.
VecSound ==
  errors = 0 /\ pc = "release" /\ Len(todo) <= 11 => vec

\* While the text is read no more bytes are packed than characters are read; when
\* it is done the packed text is as long as the padding makes it.
NvInv ==
  /\ NvTypeOK
  /\ nvpc # "done" => Len(buf) <= i
  /\ nvpc = "done" => Len(buf) + 4 <= Allocated /\ Len(buf) = 4 * token

\* The two flags say what the line of the next character has had so far.
FlagsSound ==
  /\ in_comment <=> \E q \in 1 .. i : /\ SameLine(raw, q, i + 1)
                                      /\ StartsComment(raw, q)
  /\ at_bol <=> \A r \in 1 .. i : SameLine(raw, r, i + 1) => raw[r] = "cr"
  /\ ~in_comment /\ ~at_bol <=> HasKept(raw, i + 1)

\* The buffer holds the bytes of the characters read, in their order, and ends
\* with a NUL unless the line has some.
Holds(t, n, b) ==
  /\ Len(b) = Place(t, n)
  /\ \A p \in Packed(t, n) : b[Place(t, p)] = ByteOf(t, p)
  /\ (b # << >> /\ b[Len(b)] # Nul) <=> HasKept(t, n + 1)

\* The invariant for NvramIsTheFile.
FileInv ==
  /\ nvpc = "scan" => FlagsSound /\ Holds(raw, i, buf)
  /\ NvramIsTheFile

\* The parts of TypeOK: the steps, ...
Pcs == ToSet(Attaching) \union ToSet(Detaching)

PcTypes == pc \in Pcs

\* ... the flags, ...
FlagTypes ==
  /\ failing \in BOOLEAN
  /\ torn \in BOOLEAN /\ astray \in BOOLEAN
  /\ misread \in BOOLEAN
  /\ vec \in BOOLEAN
  /\ core_base \in BOOLEAN
  /\ begin \in BOOLEAN
  /\ vap \in BOOLEAN /\ queued \in BOOLEAN /\ crashed \in BOOLEAN

\* ... the window, ...
WinTypes ==
  /\ bp_window \in Int
  /\ sbaddr \in [1 .. 3 -> 0 .. 255]

\* ... the chip, ...
ArmTypes ==
  arm \in [ioctl : SUBSET {"FGC", "CLK", "CPUHALT"}, reset_ctl : SUBSET {"RESET"}]

\* ... the images and the blob.
ImageTypes ==
  /\ clk \in {"none", "alp", "ht"}
  /\ errors \in 0 .. MaxErrors
  /\ ram_size \in {0, RamSize, 2 * RamSize}
  /\ fw_size \in FwSizes \union {0}
  /\ nvlen \in Nat /\ done \in Nat
  /\ ram \in [0 .. (2 * RamSize - 1) -> {"old", "fw", "nvram"}]

ClmTypes ==
  /\ blob \in BlobSizes \union {-1}
  /\ cumulative \in Nat
  /\ clm \in [open : BOOLEAN, len : Nat, whole : BOOLEAN]

\* The inductive invariant.
IInv ==
  /\ PcTypes /\ FlagTypes /\ WinTypes /\ ArmTypes /\ ImageTypes /\ ClmTypes
  /\ NvInv
  /\ ResSound
  /\ ClkSound
  /\ UserSound
  /\ ClmSound
  /\ OpsSound
  /\ WindowSound
  /\ HaltSound
  /\ RamSound
  /\ VecSound

-----------------------------------------------------------------------------
(* The steps.                                                              *)

\* No step of cyw_attach comes twice.
LEMMA StepsDiffer ==
  /\ DOMAIN Attaching = 1 .. 32 /\ Len(Attaching) = 32
  /\ DOMAIN Detaching = 1 .. 11 /\ Len(Detaching) = 11
  /\ \A j, k \in 1 .. 32 : Attaching[j] = Attaching[k] => j = k
<1>1. DOMAIN Attaching = 1 .. 32 /\ Len(Attaching) = 32
  BY DEF Attaching
<1>2. DOMAIN Detaching = 1 .. 11 /\ Len(Detaching) = 11
  BY DEF Detaching
<1>3. \A j, k \in 1 .. 32 : Attaching[j] = Attaching[k] => j = k
  BY SMTT(30) DEF Attaching
<1> QED
  BY <1>1, <1>2, <1>3

\* After a step comes the next one.
LEMMA AfterStep ==
  \A k \in 1 .. 31 : After(Attaching[k]) = Attaching[k + 1]
<1> SUFFICES ASSUME NEW k \in 1 .. 31
             PROVE  After(Attaching[k]) = Attaching[k + 1]
  OBVIOUS
<1>1. Contains(Attaching, Attaching[k])
  BY StepsDiffer DEF Contains
<1>2. (CHOOSE j \in DOMAIN Attaching : Attaching[j] = Attaching[k]) = k
  BY StepsDiffer
<1>3. After(Attaching[k])
        = Attaching[1 + CHOOSE j \in DOMAIN Attaching : Attaching[j] = Attaching[k]]
  BY <1>1, Zenon DEF After
<1>4. 1 + k = k + 1
  OBVIOUS
<1> QED
  BY <1>2, <1>3, <1>4, Zenon

\* The steps, one by one.
LEMMA AfterFacts ==
  /\ After("funcs") = "sysctl" /\ After("sysctl") = "blksize"
  /\ After("blksize") = "enable_f1" /\ After("enable_f1") = "clock"
  /\ After("clock") = "chipid" /\ After("chipid") = "probe"
  /\ After("probe") = "f2_blksize" /\ After("f2_blksize") = "halt"
  /\ After("halt") = "get_fw" /\ After("get_fw") = "fw"
  /\ After("fw") = "get_nvram" /\ After("get_nvram") = "parse"
  /\ After("parse") = "nvram" /\ After("nvram") = "release"
  /\ After("release") = "force_ht" /\ After("force_ht") = "kick"
  /\ After("kick") = "enable_f2" /\ After("enable_f2") = "handshake"
  /\ After("handshake") = "get_clm" /\ After("get_clm") = "clm"
  /\ After("clm") = "clm_status" /\ After("clm_status") = "mac"
  /\ After("mac") = "ifattach" /\ After("ifattach") = "event_msgs"
  /\ After("event_msgs") = "handlers" /\ After("handlers") = "callbacks"
  /\ After("callbacks") = "cv" /\ After("cv") = "rx_tq"
  /\ After("rx_tq") = "scan_tq" /\ After("scan_tq") = "start"
  /\ After("start") = "attached"
BY AfterStep DEF Attaching

\* The steps are these.
LEMMA StepFacts ==
  {"funcs", "sysctl", "blksize", "enable_f1", "clock", "chipid", "probe",
   "f2_blksize", "halt", "get_fw", "fw", "get_nvram", "parse", "nvram",
   "release", "force_ht", "kick", "enable_f2", "handshake", "get_clm", "clm",
   "clm_status", "mac", "ifattach", "event_msgs", "handlers", "callbacks",
   "cv", "rx_tq", "scan_tq", "start", "attached", "cfg_handlers", "cfg_ic",
   "sdpcm_stop", "sdpcm_scan_tq", "sdpcm_cv", "sdio_clock", "sdio_halt",
   "sdio_off", "sysctl_free", "locks", "idle"}
  \subseteq Pcs
<1>1. \A k \in 1 .. 32 : Attaching[k] \in Pcs
  BY StepsDiffer DEF ToSet, Pcs
<1>2. \A k \in 1 .. 11 : Detaching[k] \in Pcs
  BY StepsDiffer DEF ToSet, Pcs
<1> QED
  BY <1>1, <1>2 DEF Attaching, Detaching

\* The labels of cyw_attach, and the steps that enter the last two of them.
LEMMA FailFacts ==
  \A p : /\ FailTo(p) \in {"locks", "sysctl_free", "cfg_handlers", "sdio_clock"}
         /\ FailTo(p) = "locks" <=> p = "funcs"
         /\ FailTo(p) = "sysctl_free" <=>
              p \in {"blksize", "enable_f1", "clock", "chipid", "f2_blksize"}
         /\ FailTo(p) = "cfg_handlers" <=> p \in {"rx_tq", "scan_tq"}
BY DEF FailTo

-----------------------------------------------------------------------------
(* Types.                                                                  *)

\* Every step leads to a step.
LEMMA PcStep == PcTypes /\ [Next]_vars => PcTypes'
<1> SUFFICES ASSUME PcTypes, [Next]_vars PROVE PcTypes'
  OBVIOUS
<1> USE AfterFacts, FailFacts, StepFacts
<1>1. CASE UNCHANGED <<pc>>
  BY <1>1 DEF PcTypes
<1>2. CASE Attach
  BY <1>2 DEF Attach, Goto, PcTypes
<1>3. CASE AttachStep
  BY <1>3 DEF AttachStep, Done, Goto, PcTypes
<1>4. CASE AttachFail
  BY <1>4 DEF AttachFail, Fail, Goto, PcTypes
<1>5. CASE Clock
  BY <1>5 DEF Clock, Done, Goto, Fail, PcTypes
<1>6. CASE EnableF2
  BY <1>6 DEF EnableF2, Done, Goto, Fail, PcTypes
<1>7. CASE ChipId
  BY <1>7 DEF ChipId, Done, Goto, Fail, PcTypes
<1>8. CASE Probe
  BY <1>8 DEF Probe, Done, Goto, PcTypes
<1>9. CASE BpDone
  BY <1>9 DEF BpDone, Done, Goto, PcTypes
<1>10. CASE GetFw
  BY <1>10 DEF GetFw, Done, Goto, Fail, PcTypes
<1>11. CASE GetNvram
  BY <1>11 DEF GetNvram, Done, Goto, Fail, PcTypes
<1>12. CASE Parse
  BY <1>12 DEF Parse, Done, Goto, stepVars, PcTypes
<1>13. CASE WriteBlock
  BY <1>13 DEF WriteBlock, Done, Goto, stepVars, PcTypes
<1>14. CASE WriteBlockFail
  BY <1>14 DEF WriteBlockFail, Fail, Goto, PcTypes
<1>15. CASE GetClm
  BY <1>15 DEF GetClm, Goto, PcTypes
<1>16. CASE ClmChunk
  BY <1>16 DEF ClmChunk, Done, Goto, stepVars, PcTypes
<1>17. CASE ClmFail
  BY <1>17 DEF ClmFail, Fail, Goto, PcTypes
<1>18. CASE ClmStatus
  BY <1>18 DEF ClmStatus, Done, Goto, Fail, PcTypes
<1>19. CASE Detach
  BY <1>19 DEF Detach, Goto, PcTypes
<1>20. CASE CfgHandlers
  BY <1>20 DEF CfgHandlers, Release, Goto, PcTypes
<1>21. CASE CfgIc
  BY <1>21 DEF CfgIc, Release, Goto, PcTypes
<1>22. CASE SdpcmStop
  BY <1>22 DEF SdpcmStop, Release, Goto, PcTypes
<1>23. CASE SdioClock
  BY <1>23 DEF SdioClock, Release, Goto, PcTypes
<1>24. CASE SdioHalt
  BY <1>24 DEF SdioHalt, Release, Goto, PcTypes
<1>25. CASE SdioOff
  BY <1>25 DEF SdioOff, Release, Goto, PcTypes
<1>26. CASE Free
  BY <1>26 DEF Free, Release, Goto, PcTypes
<1>27. CASE BpAccess \/ BpLost \/ Vap \/ ScanStart \/ ScanTask
            \/ UNCHANGED vars
  <2> SUFFICES UNCHANGED <<pc>>
    BY <1>1
  <2> QED
    BY <1>27 DEF BpAccess, BpLost, Vap, ScanStart, ScanTask, vars, stepVars
<1> QED
  BY <1>2, <1>3, <1>4, <1>5, <1>6, <1>7, <1>8, <1>9, <1>10, <1>11, <1>12,
    <1>13, <1>14, <1>15, <1>16, <1>17, <1>18, <1>19, <1>20, <1>21, <1>22,
    <1>23, <1>24, <1>25, <1>26, <1>27 DEF Next, Boot, Undo

\* The flags stay flags.
LEMMA FlagStep == FlagTypes /\ [Next]_vars => FlagTypes'
<1> SUFFICES ASSUME FlagTypes, [Next]_vars PROVE FlagTypes'
  OBVIOUS
<1>1. CASE UNCHANGED <<misread, failing, torn, astray, vec, core_base, begin,
                       vap, queued, crashed>>
  BY <1>1 DEF FlagTypes
<1>2. CASE Attach
  BY <1>2 DEF Attach, Goto, userVars, FlagTypes
<1>3. CASE AttachStep
  BY <1>3 DEF AttachStep, Done, Goto, winVars, chipVars, imgVars, clmVars,
    userVars, FlagTypes
<1>4. CASE AttachFail
  BY <1>4 DEF AttachFail, Fail, Goto, winVars, chipVars, imgVars, clmVars,
    userVars, FlagTypes
<1>5. CASE Clock
  BY <1>5 DEF Clock, Done, Goto, Fail, winVars, chipVars, imgVars, clmVars,
    userVars, FlagTypes
<1>6. CASE EnableF2
  BY <1>6 DEF EnableF2, Done, Goto, Fail, winVars, chipVars, imgVars, clmVars,
    userVars, FlagTypes
<1>7. CASE BpAccess
  BY <1>7 DEF BpAccess, SetWindow, Effect, imgVars, clmVars, userVars,
    FlagTypes
<1>8. CASE BpLost
  BY <1>8 DEF BpLost, SetWindow, SetWindowFails, chipVars, imgVars, clmVars,
    userVars, FlagTypes
<1>9. CASE ChipId
  BY <1>9 DEF ChipId, Done, Goto, Fail, winVars, chipVars, imgVars, clmVars,
    userVars, FlagTypes
<1>10. CASE Probe
  BY <1>10 DEF Probe, Done, Goto, CoreFound, winVars, chipVars, clmVars,
    userVars, FlagTypes
<1>11. CASE BpDone
  BY <1>11 DEF BpDone, Done, Goto, winVars, chipVars, imgVars, clmVars,
    userVars, FlagTypes
<1>12. CASE GetFw
  BY <1>12 DEF GetFw, Done, Goto, Fail, winVars, chipVars, clmVars, userVars,
    FlagTypes
<1>13. CASE GetNvram
  BY <1>13 DEF GetNvram, Done, Goto, Fail, winVars, chipVars, imgVars, clmVars,
    userVars, FlagTypes
<1>14. CASE Parse
  BY <1>14 DEF Parse, Done, Goto, winVars, chipVars, clmVars, userVars,
    stepVars, FlagTypes
<1>15. CASE WriteBlock
  BY <1>15 DEF WriteBlock, Done, Goto, SetWindow, clmVars, userVars, stepVars,
    FlagTypes
<1>16. CASE WriteBlockFail
  BY <1>16 DEF WriteBlockFail, Fail, Goto, SetWindow, SetWindowFails, chipVars,
    imgVars, clmVars, userVars, FlagTypes
<1>17. CASE GetClm
  BY <1>17 DEF GetClm, Goto, winVars, chipVars, imgVars, userVars, FlagTypes
<1>18. CASE ClmChunk
  BY <1>18 DEF ClmChunk, Done, Goto, winVars, chipVars, imgVars, userVars,
    stepVars, FlagTypes
<1>19. CASE ClmFail
  BY <1>19 DEF ClmFail, Fail, Goto, winVars, chipVars, imgVars, userVars,
    FlagTypes
<1>20. CASE ClmStatus
  BY <1>20 DEF ClmStatus, Done, Goto, Fail, winVars, chipVars, imgVars,
    clmVars, userVars, FlagTypes
<1>21. CASE Detach
  BY <1>21 DEF Detach, Goto, winVars, chipVars, imgVars, clmVars, userVars,
    FlagTypes
<1>22. CASE CfgHandlers
  BY <1>22 DEF CfgHandlers, Release, Goto, winVars, chipVars, imgVars, clmVars,
    FlagTypes
<1>23. CASE CfgIc
  BY <1>23 DEF CfgIc, Release, Goto, winVars, chipVars, imgVars, clmVars,
    FlagTypes
<1>24. CASE SdpcmStop
  BY <1>24, ZenonT(40) DEF SdpcmStop, Release, Goto, winVars, chipVars, imgVars,
    clmVars, FlagTypes
<1>25. CASE SdioClock
  BY <1>25 DEF SdioClock, Release, Goto, winVars, chipVars, imgVars, clmVars,
    FlagTypes
<1>26. CASE SdioHalt
  BY <1>26 DEF SdioHalt, Release, Goto, winVars, chipVars, imgVars, clmVars,
    FlagTypes
<1>27. CASE SdioOff
  BY <1>27 DEF SdioOff, Release, Goto, winVars, chipVars, imgVars, clmVars,
    FlagTypes
<1>28. CASE Free
  BY <1>28, ZenonT(40) DEF Free, Release, Goto, winVars, chipVars, imgVars,
    clmVars, FlagTypes
<1>29. CASE Vap
  BY <1>29 DEF Vap, winVars, chipVars, imgVars, clmVars, stepVars, FlagTypes
<1>30. CASE ScanStart
  BY <1>30 DEF ScanStart, winVars, chipVars, imgVars, clmVars, stepVars,
    FlagTypes
<1>31. CASE ScanTask
  BY <1>31 DEF ScanTask, winVars, chipVars, imgVars, clmVars, stepVars,
    FlagTypes
<1>32. CASE UNCHANGED vars
  BY <1>32 DEF vars, stepVars, winVars, chipVars, imgVars, clmVars, userVars,
    nvVars, FlagTypes
<1> QED
  BY <1>2, <1>3, <1>4, <1>5, <1>6, <1>7, <1>8, <1>9, <1>10, <1>11, <1>12,
    <1>13, <1>14, <1>15, <1>16, <1>17, <1>18, <1>19, <1>20, <1>21, <1>22,
    <1>23, <1>24, <1>25, <1>26, <1>27, <1>28, <1>29, <1>30, <1>31, <1>32 DEF
    Next, Boot, Undo

\* The windows have numbers, and only the ITCM's is 0.
LEMMA WindowFacts ==
  /\ Itcm \in Nat
  /\ Cores \in Nat /\ Cores # 0
  /\ Wraps \in Nat /\ Wraps # 0
  /\ Erom \in Nat
  /\ \A n \in Int : RamWindow(n) \in Int
  /\ \A w \in Int : Bytes(w) \in [1 .. 3 -> 0 .. 255]
<1>1. /\ Itcm \in Nat /\ Cores \in Nat /\ Cores # 0
      /\ Wraps \in Nat /\ Wraps # 0 /\ Erom \in Nat
  BY DEF Itcm, Cores, Wraps, Erom
<1>2. ASSUME NEW n \in Int PROVE RamWindow(n) \in Int
  BY BootAssumption DEF RamWindow
<1>3. ASSUME NEW w \in Int PROVE Bytes(w) \in [1 .. 3 -> 0 .. 255]
  BY DEF Bytes
<1> QED
  BY <1>1, <1>2, <1>3

\* The first access and the rest.
LEMMA HeadFacts ==
  ASSUME OpsSound, todo # << >>
  PROVE  /\ Len(todo) \in Nat \ {0}
         /\ Head(todo) = todo[1]
         /\ Head(todo) \in Op
         /\ Head(todo).win \in Int
         /\ Tail(todo) \in Seq(Op)
         /\ Len(Tail(todo)) = Len(todo) - 1
         /\ \A j \in 1 .. Len(Tail(todo)) : Tail(todo)[j] = todo[j + 1]
<1>1. todo \in Seq(Op)
  BY DEF OpsSound
<1>2. Len(todo) \in Nat \ {0} /\ Head(todo) = todo[1] /\ todo[1] \in Op
  BY <1>1
<1>3. /\ Tail(todo) \in Seq(Op) /\ Len(Tail(todo)) = Len(todo) - 1
      /\ \A j \in 1 .. Len(Tail(todo)) : Tail(todo)[j] = todo[j + 1]
  BY <1>1
<1>4. \A op \in Op : op.win \in Int
  BY DEF Op
<1> QED
  BY <1>2, <1>3, <1>4

\* An access is one.
LEMMA OpFacts ==
  /\ Read(Cores) \in Op /\ Read(Wraps) \in Op /\ Read(Erom) \in Op
  /\ Write(Cores) \in Op /\ Write(Wraps) \in Op
  /\ Access(Itcm, "vector", {}) \in Op
  /\ \A b \in SUBSET {"FGC", "CLK", "CPUHALT", "RESET"} :
       Access(Wraps, "ioctl", b) \in Op /\ Access(Wraps, "reset_ctl", b) \in Op
  /\ \A w : Read(w).reg = "none" /\ Write(w).reg = "none"
  /\ \A w, r, b : Access(w, r, b).reg = r /\ Access(w, r, b).bits = b
<1>1. \A w \in Nat : Read(w) \in Op /\ Write(w) \in Op
  BY DEF Read, Write, Access, Op
<1>2. \A w \in Nat : Access(w, "vector", {}) \in Op
  BY DEF Access, Op
<1>3. \A w \in Nat, b \in SUBSET {"FGC", "CLK", "CPUHALT", "RESET"} :
        Access(w, "ioctl", b) \in Op /\ Access(w, "reset_ctl", b) \in Op
  BY DEF Access, Op
<1>4. \A w : Read(w).reg = "none" /\ Write(w).reg = "none"
  BY DEF Read, Write, Access
<1>5. \A w, r, b : Access(w, r, b).reg = r /\ Access(w, r, b).bits = b
  BY DEF Access
<1> QED
  BY <1>1, <1>2, <1>3, <1>4, <1>5, WindowFacts

\* cyw_arm_halt: CPUHALT with every write of IOCTL, the first of them before
\* RESET_CTL.
LEMMA HaltFacts ==
  /\ HaltArm \in Seq(Op)
  /\ Len(HaltArm) = 8
  /\ \A p \in Halting : Ordered(HaltArm, p)
<1>1. /\ HaltArm \in Seq(Op)
      /\ Len(HaltArm) = 8
  BY OpFacts DEF HaltArm
<1>2. /\ HaltArm[1] = Write(Wraps) /\ HaltArm[2] = Write(Wraps)
      /\ HaltArm[3] = Write(Wraps) /\ HaltArm[4] = Write(Wraps)
      /\ HaltArm[5] = Access(Wraps, "ioctl", {"FGC", "CLK", "CPUHALT"})
      /\ HaltArm[6] = Read(Wraps)
      /\ HaltArm[7] = Access(Wraps, "reset_ctl", {})
      /\ HaltArm[8] = Access(Wraps, "ioctl", {"CLK", "CPUHALT"})
  BY DEF HaltArm
<1>3. ASSUME NEW p \in Halting PROVE Ordered(HaltArm, p)
  BY <1>1, <1>2, OpFacts DEF Ordered, Halting
<1> QED
  BY <1>1, <1>3

\* Reads and writes that reach no register of the wrapper do no harm anywhere.
LEMMA PlainFacts ==
  ASSUME NEW s \in Seq(Op), NEW p,
         \A j \in 1 .. Len(s) : s[j].reg = "none",
         p \notin Halting \union {"release"}
  PROVE  Ordered(s, p)
BY DEF Ordered

\* One list of accesses behind another.
LEMMA ConcatFacts ==
  ASSUME NEW a \in Seq(Op), NEW b \in Seq(Op)
  PROVE  /\ a \o b \in Seq(Op)
         /\ Len(a \o b) = Len(a) + Len(b)
         /\ \A j \in 1 .. Len(a) : (a \o b)[j] = a[j]
         /\ \A j \in 1 .. Len(b) : (a \o b)[Len(a) + j] = b[j]
<1>1. Len(a) \in Nat /\ Len(b) \in Nat /\ Len(a \o b) = Len(a) + Len(b)
  OBVIOUS
<1>2. a \o b \in Seq(Op)
  OBVIOUS
<1>3. ASSUME NEW j \in 1 .. Len(a) PROVE (a \o b)[j] = a[j]
  BY <1>1
<1>4. ASSUME NEW j \in 1 .. Len(b) PROVE (a \o b)[Len(a) + j] = b[j]
  BY <1>1
<1> QED
  BY <1>1, <1>2, <1>3, <1>4

\* cyw_arm_release: the reset vector, and then the wrapper.
LEMMA ReleaseFacts ==
  /\ ReleaseArm \in Seq(Op)
  /\ Len(ReleaseArm) > 11
  /\ Ordered(ReleaseArm, "release")
<1> DEFINE s == << Write(Cores), Write(Cores) >>
           c == IF core_base THEN << Write(Cores) >> ELSE << >>
           t == << Access(Itcm, "vector", {}),
                   Access(Wraps, "ioctl", {"FGC", "CLK", "CPUHALT"}), Read(Wraps),
                   Access(Wraps, "reset_ctl", {"RESET"}),
                   Access(Wraps, "ioctl", {"CPUHALT"}),
                   Access(Wraps, "ioctl", {"FGC", "CLK"}), Read(Wraps),
                   Access(Wraps, "reset_ctl", {}),
                   Access(Wraps, "ioctl", {"CLK"}), Read(Wraps), Read(Wraps),
                   Read(Wraps) >>
<1>1. ReleaseArm = (s \o c) \o t
  BY DEF ReleaseArm
<1>2. s \in Seq(Op) /\ Len(s) = 2 /\ \A j \in 1 .. 2 : s[j].reg = "none"
  BY OpFacts
<1>3. c \in Seq(Op) /\ Len(c) \in 0 .. 1 /\ \A j \in 1 .. Len(c) : c[j].reg = "none"
  <2>1. CASE core_base
    BY <2>1, OpFacts
  <2>2. CASE ~core_base
    BY <2>2
  <2> QED
    BY <2>1, <2>2
<1>4. t \in Seq(Op) /\ Len(t) = 12
  BY OpFacts
<1>5. /\ t[1].reg = "vector"
      /\ t[2].reg = "ioctl" /\ t[2].bits = {"FGC", "CLK", "CPUHALT"}
      /\ t[3].reg = "none"
      /\ t[4].reg = "reset_ctl" /\ t[4].bits = {"RESET"}
      /\ t[5].reg = "ioctl" /\ t[5].bits = {"CPUHALT"}
      /\ t[6].reg = "ioctl" /\ t[6].bits = {"FGC", "CLK"}
      /\ t[7].reg = "none"
      /\ t[8].reg = "reset_ctl" /\ t[8].bits = {}
      /\ t[9].reg = "ioctl" /\ t[9].bits = {"CLK"}
      /\ t[10].reg = "none" /\ t[11].reg = "none" /\ t[12].reg = "none"
  BY OpFacts
<1> HIDE DEF s, c, t
<1> DEFINE u == s \o c
<1>6. /\ u \in Seq(Op) /\ Len(u) \in 2 .. 3
      /\ \A j \in 1 .. Len(u) : u[j].reg = "none"
  <2>1. /\ u \in Seq(Op) /\ Len(u) = 2 + Len(c)
        /\ \A j \in 1 .. 2 : u[j] = s[j]
        /\ \A j \in 1 .. Len(c) : u[2 + j] = c[j]
    <3>1. /\ s \o c \in Seq(Op) /\ Len(s \o c) = Len(s) + Len(c)
          /\ \A j \in 1 .. Len(s) : (s \o c)[j] = s[j]
          /\ \A j \in 1 .. Len(c) : (s \o c)[Len(s) + j] = c[j]
      BY <1>2, <1>3, ConcatFacts, Zenon
    <3> QED
      BY <1>2, <3>1, Zenon
  <2>2. Len(u) \in 2 .. 3
    BY <1>3, <2>1
  <2>3. ASSUME NEW j \in 1 .. Len(u) PROVE u[j].reg = "none"
    <3>1. CASE j \in 1 .. 2
      BY <1>2, <2>1, <3>1
    <3>2. CASE j = 3
      <4>1. Len(c) = 1 /\ u[2 + 1] = c[1] /\ 2 + 1 = 3
        BY <1>3, <2>1, <3>2
      <4> QED
        BY <1>3, <3>2, <4>1
    <3> QED
      BY <2>2, <3>1, <3>2
  <2> QED
    BY <2>1, <2>2, <2>3
<1> HIDE DEF u
<1>7. /\ u \o t \in Seq(Op) /\ Len(u \o t) = Len(u) + 12
      /\ \A j \in 1 .. Len(u) : (u \o t)[j] = u[j]
      /\ \A j \in 1 .. 12 : (u \o t)[Len(u) + j] = t[j]
  <2>1. /\ u \o t \in Seq(Op) /\ Len(u \o t) = Len(u) + Len(t)
        /\ \A j \in 1 .. Len(u) : (u \o t)[j] = u[j]
        /\ \A j \in 1 .. Len(t) : (u \o t)[Len(u) + j] = t[j]
    BY <1>4, <1>6, ConcatFacts, Zenon
  <2> QED
    BY <1>4, <2>1, Zenon
<1> DEFINE v == u \o t
<1> HIDE DEF v
<1>8. ASSUME NEW j \in 1 .. Len(v), j <= Len(u)
      PROVE  v[j].reg = "none" /\ Len(v) - j > 11
  BY <1>6, <1>7, <1>8 DEF v
<1>9. ASSUME NEW j \in 1 .. Len(v), j > Len(u)
      PROVE  /\ v[j].reg \in {"none", "vector", "ioctl", "reset_ctl"}
             /\ v[j].reg = "ioctl" => "RESET" \notin v[j].bits
             /\ v[j].reg = "reset_ctl" => v[j].bits \subseteq {"RESET"}
             /\ v[j].reg \in {"ioctl", "reset_ctl"} => Len(v) - j < 11
             /\ Len(v) - j = 11 => v[j].reg = "vector"
  <2>1. PICK k \in 1 .. 12 : j = Len(u) + k
    <3>1. Len(u) \in Nat /\ Len(v) = Len(u) + 12
      BY <1>6, <1>7 DEF v
    <3>2. j - Len(u) \in 1 .. 12 /\ j = Len(u) + (j - Len(u))
      BY <1>9, <3>1
    <3> QED
      BY <3>2
  <2>2. v[j] = t[k]
    BY <1>7, <2>1 DEF v
  <2>3. Len(v) - j = 12 - k
    BY <1>6, <1>7, <2>1 DEF v
  <2>4. /\ t[k].reg \in {"none", "vector", "ioctl", "reset_ctl"}
        /\ t[k].reg = "ioctl" => "RESET" \notin t[k].bits
        /\ t[k].reg = "reset_ctl" => t[k].bits \subseteq {"RESET"}
        /\ t[k].reg \in {"ioctl", "reset_ctl"} => k # 1
        /\ k = 1 => t[k].reg = "vector"
    BY <1>5, SMTT(30)
  <2> QED
    BY <2>2, <2>3, <2>4
<1>10. Ordered(v, "release")
  <2>1. "release" \notin Halting
    BY DEF Halting
  <2>2. ASSUME NEW j \in 1 .. Len(v) PROVE j <= Len(u) \/ j > Len(u)
    BY <1>6, <1>7 DEF v
  <2>3. Len(v) \in Nat
    BY <1>6, <1>7 DEF v
  <2> QED
    BY <1>8, <1>9, <2>1, <2>2, <2>3 DEF Ordered
<1> QED
  BY <1>1, <1>6, <1>7, <1>10 DEF u, v

\* The accesses of every step.
LEMMA AccessFacts ==
  /\ \A p : /\ Accesses(p) \in Seq(Op)
            /\ Ordered(Accesses(p), p)
            /\ Accesses(p) # << >> => p \in Accessing
            /\ p \in Halting => Len(Accesses(p)) = 8
            /\ p = "release" => Len(Accesses(p)) > 11
  /\ Accesses("chipid") = << Read(Cores) >>
<1>1. ASSUME NEW p
      PROVE  /\ Accesses(p) \in Seq(Op)
             /\ Ordered(Accesses(p), p)
             /\ Accesses(p) # << >> => p \in Accessing
             /\ p \in Halting => Len(Accesses(p)) = 8
             /\ p = "release" => Len(Accesses(p)) > 11
  <2>1. CASE p \in Halting
    <3>1. Accesses(p) = HaltArm
      BY <2>1 DEF Accesses, Halting
    <3> QED
      BY <2>1, <3>1, HaltFacts DEF Halting, Accessing
  <2>2. CASE p = "release"
    <3>1. Accesses(p) = ReleaseArm
      BY <2>2 DEF Accesses
    <3> QED
      BY <2>2, <3>1, ReleaseFacts DEF Halting, Accessing
  <2>3. CASE p = "probe"
    <3>1. Accesses(p) = << Write(Cores), Read(Cores), Read(Cores), Read(Erom),
                           Read(Cores), Write(Cores), Read(Cores) >>
      BY <2>3 DEF Accesses
    <3>2. /\ Accesses(p) \in Seq(Op)
          /\ \A j \in 1 .. Len(Accesses(p)) : Accesses(p)[j].reg = "none"
      BY <3>1, OpFacts
    <3> QED
      BY <2>3, <3>2, PlainFacts DEF Halting, Accessing
  <2>4. CASE p \in {"chipid", "kick", "handshake"}
    <3>1. Accesses(p) \in {<< >>, << Read(Cores) >>, << Write(Cores) >>,
                           << Write(Cores), Read(Cores), Read(Cores) >>}
      BY <2>4 DEF Accesses
    <3>2. /\ Accesses(p) \in Seq(Op)
          /\ \A j \in 1 .. Len(Accesses(p)) : Accesses(p)[j].reg = "none"
      <4>1. CASE Accesses(p) = << >>
        BY <4>1
      <4>2. CASE Accesses(p) = << Read(Cores) >>
        BY <4>2, OpFacts
      <4>3. CASE Accesses(p) = << Write(Cores) >>
        BY <4>3, OpFacts
      <4>4. CASE Accesses(p) = << Write(Cores), Read(Cores), Read(Cores) >>
        BY <4>4, OpFacts
      <4> QED
        BY <3>1, <4>1, <4>2, <4>3, <4>4
    <3> QED
      BY <2>4, <3>2, PlainFacts DEF Halting, Accessing
  <2>5. CASE p \notin Accessing
    <3>1. Accesses(p) = << >>
      BY <2>5 DEF Accesses, Accessing, Halting
    <3>2. /\ << >> \in Seq(Op) /\ Len(<< >>) = 0
          /\ p \notin Halting /\ p # "release"
      BY <2>5 DEF Accessing, Halting
    <3> QED
      BY <3>1, <3>2 DEF Ordered
  <2> QED
    BY <2>1, <2>2, <2>3, <2>4, <2>5 DEF Accessing
<1>2. Accesses("chipid") = << Read(Cores) >>
  BY DEF Accesses
<1> QED
  BY <1>1, <1>2

\* To enter a step is to have its accesses to do.
LEMMA GotoFacts ==
  ASSUME NEW p, Goto(p)
  PROVE  OpsSound'
BY AccessFacts DEF Goto, OpsSound

\* And to have done one is to have the others to do.
LEMMA TailFacts ==
  ASSUME OpsSound, todo # << >>, todo' = Tail(todo), pc' = pc
  PROVE  OpsSound'
<1>1. /\ Len(todo) \in Nat \ {0} /\ Len(todo') = Len(todo) - 1
      /\ \A j \in 1 .. Len(todo') : todo'[j] = todo[j + 1]
      /\ todo' \in Seq(Op)
  BY HeadFacts
<1>2. \A j \in 1 .. Len(todo') :
        /\ j + 1 \in 1 .. Len(todo)
        /\ Len(todo') - j = Len(todo) - (j + 1)
        /\ todo'[j] = todo[j + 1]
  BY <1>1
<1>3. Ordered(todo, pc)
  BY DEF OpsSound
<1>4. Ordered(todo', pc)
  BY <1>2, <1>3 DEF Ordered
<1> QED
  BY <1>1, <1>4 DEF OpsSound

-----------------------------------------------------------------------------
(* The accesses, the window and the chip.                                  *)

\* The accesses that are still to be done are those of the step, to its end.
LEMMA OpsStep == OpsSound /\ [Next]_vars => OpsSound'
<1> SUFFICES ASSUME OpsSound, [Next]_vars PROVE OpsSound'
  OBVIOUS
<1>1. CASE UNCHANGED <<pc, todo>>
  BY <1>1 DEF OpsSound
<1>2. CASE Attach
  BY <1>2, GotoFacts DEF Attach
<1>3. CASE AttachStep
  BY <1>3, GotoFacts DEF AttachStep, Done
<1>4. CASE AttachFail
  BY <1>4, GotoFacts DEF AttachFail, Fail
<1>5. CASE Clock
  BY <1>5, GotoFacts DEF Clock, Done, Fail
<1>6. CASE EnableF2
  BY <1>6, GotoFacts DEF EnableF2, Done, Fail
<1>7. CASE BpAccess
  BY <1>7, TailFacts DEF BpAccess
<1>8. CASE BpLost
  BY <1>8, TailFacts DEF BpLost
<1>9. CASE ChipId
  BY <1>9, GotoFacts DEF ChipId, Done, Fail
<1>10. CASE Probe
  BY <1>10, GotoFacts DEF Probe, Done
<1>11. CASE BpDone
  BY <1>11, GotoFacts DEF BpDone, Done
<1>12. CASE GetFw
  BY <1>12, GotoFacts DEF GetFw, Done, Fail
<1>13. CASE GetNvram
  BY <1>13, GotoFacts DEF GetNvram, Done, Fail
<1>14. CASE Parse
  <2>1. CASE NvChar /\ UNCHANGED stepVars
    BY <1>1, <2>1 DEF stepVars
  <2>2. CASE Done
    BY <2>2, GotoFacts DEF Done
  <2> QED
    BY <1>14, <2>1, <2>2 DEF Parse, stepVars
<1>15. CASE WriteBlock
  <2>1. CASE UNCHANGED stepVars
    BY <1>1, <2>1 DEF stepVars
  <2>2. CASE Done
    BY <2>2, GotoFacts DEF Done
  <2> QED
    BY <1>15, <2>1, <2>2 DEF WriteBlock
<1>16. CASE WriteBlockFail
  BY <1>16, GotoFacts DEF WriteBlockFail, Fail
<1>17. CASE GetClm
  BY <1>17, GotoFacts DEF GetClm
<1>18. CASE ClmChunk
  <2>1. CASE UNCHANGED stepVars
    BY <1>1, <2>1 DEF stepVars
  <2>2. CASE Done
    BY <2>2, GotoFacts DEF Done
  <2> QED
    BY <1>18, <2>1, <2>2 DEF ClmChunk
<1>19. CASE ClmFail
  BY <1>19, GotoFacts DEF ClmFail, Fail
<1>20. CASE ClmStatus
  BY <1>20, GotoFacts DEF ClmStatus, Done, Fail
<1>21. CASE Detach
  BY <1>21, GotoFacts DEF Detach
<1>22. CASE CfgHandlers
  BY <1>22, GotoFacts DEF CfgHandlers, Release
<1>23. CASE CfgIc
  BY <1>23, GotoFacts DEF CfgIc, Release
<1>24. CASE SdpcmStop
  BY <1>24, GotoFacts DEF SdpcmStop, Release
<1>25. CASE SdioClock
  BY <1>25, GotoFacts DEF SdioClock, Release
<1>26. CASE SdioHalt
  BY <1>26, GotoFacts DEF SdioHalt, Release
<1>27. CASE SdioOff
  BY <1>27, GotoFacts DEF SdioOff, Release
<1>28. CASE Free
  BY <1>28, GotoFacts DEF Free, Release
<1>29. CASE Vap \/ ScanStart \/ ScanTask \/ UNCHANGED vars
  <2> SUFFICES UNCHANGED <<pc, todo>>
    BY <1>1
  <2> QED
    BY <1>29 DEF Vap, ScanStart, ScanTask, vars, stepVars
<1> QED
  BY <1>2, <1>3, <1>4, <1>5, <1>6, <1>7, <1>8, <1>9, <1>10, <1>11, <1>12,
    <1>13, <1>14, <1>15, <1>16, <1>17, <1>18, <1>19, <1>20, <1>21, <1>22,
    <1>23, <1>24, <1>25, <1>26, <1>27, <1>28, <1>29 DEF Next, Boot, Undo

\* A write that arrives changes one register of the wrapper, or none.
LEMMA EffectFacts ==
  ASSUME ArmTypes, NEW op, Effect(op)
  PROVE  /\ DOMAIN arm' = {"ioctl", "reset_ctl"}
         /\ arm'.ioctl = IF op.reg = "ioctl" THEN op.bits ELSE arm.ioctl
         /\ arm'.reset_ctl = IF op.reg = "reset_ctl" THEN op.bits ELSE arm.reset_ctl
<1>1. DOMAIN arm = {"ioctl", "reset_ctl"}
  BY DEF ArmTypes
<1>2. arm' = [r \in DOMAIN arm |-> IF r = op.reg THEN op.bits ELSE arm[r]]
  BY DEF Effect
<1> QED
  BY <1>1, <1>2

\* The registers of the wrapper keep to their bits.
LEMMA ArmStep == OpsSound /\ ArmTypes /\ [Next]_vars => ArmTypes'
<1> SUFFICES ASSUME OpsSound, ArmTypes, [Next]_vars PROVE ArmTypes'
  OBVIOUS
<1>1. CASE UNCHANGED <<arm>>
  BY <1>1 DEF ArmTypes
<1>2. CASE BpAccess
  <2> DEFINE op == Head(todo)
  <2>1. op \in Op /\ op = todo[1] /\ 1 \in 1 .. Len(todo)
    BY <1>2, HeadFacts DEF BpAccess
  <2> HIDE DEF op
  <2>2. /\ op.reg = "ioctl" => op.bits \subseteq {"FGC", "CLK", "CPUHALT"}
        /\ op.reg = "reset_ctl" => op.bits \subseteq {"RESET"}
    <3>1. /\ op.reg = "ioctl" => "RESET" \notin op.bits
          /\ op.reg = "reset_ctl" => op.bits \subseteq {"RESET"}
      BY <2>1 DEF OpsSound, Ordered
    <3>2. op.bits \subseteq {"FGC", "CLK", "CPUHALT", "RESET"}
      BY <2>1 DEF Op
    <3> QED
      BY <3>1, <3>2
  <2>3. CASE UNCHANGED arm
    BY <2>3 DEF ArmTypes
  <2>4. CASE Effect(op)
    <3>1. arm' = [ioctl |-> arm'.ioctl, reset_ctl |-> arm'.reset_ctl]
      BY <2>4, EffectFacts DEF Effect
    <3>2. /\ arm'.ioctl \subseteq {"FGC", "CLK", "CPUHALT"}
          /\ arm'.reset_ctl \subseteq {"RESET"}
      BY <2>2, <2>4, EffectFacts DEF ArmTypes
    <3> QED
      BY <3>1, <3>2 DEF ArmTypes
  <2> QED
    BY <1>2, <2>3, <2>4 DEF BpAccess, op
<1>3. CASE Attach \/ AttachStep \/ AttachFail \/ Clock \/ EnableF2
            \/ BpLost \/ ChipId \/ Probe \/ BpDone \/ GetFw \/ GetNvram
            \/ Parse
  <2> SUFFICES UNCHANGED <<arm>>
    BY <1>1
  <2> QED
    BY <1>3 DEF Attach, AttachStep, AttachFail, Clock, EnableF2, BpLost,
      ChipId, Probe, BpDone, GetFw, GetNvram, Parse, chipVars
<1>4. CASE WriteBlock \/ WriteBlockFail \/ GetClm \/ ClmChunk \/ ClmFail
            \/ ClmStatus \/ Detach \/ CfgHandlers \/ CfgIc \/ SdpcmStop
            \/ SdioClock \/ SdioHalt
  <2> SUFFICES UNCHANGED <<arm>>
    BY <1>1
  <2> QED
    BY <1>4 DEF WriteBlock, WriteBlockFail, GetClm, ClmChunk, ClmFail,
      ClmStatus, Detach, CfgHandlers, CfgIc, SdpcmStop, SdioClock, SdioHalt,
      chipVars, Release
<1>5. CASE SdioOff \/ Free \/ Vap \/ ScanStart \/ ScanTask
            \/ UNCHANGED vars
  <2> SUFFICES UNCHANGED <<arm>>
    BY <1>1
  <2> QED
    BY <1>5 DEF SdioOff, Free, Vap, ScanStart, ScanTask, vars, Release,
      chipVars
<1> QED
  BY <1>2, <1>3, <1>4, <1>5 DEF Next, Boot, Undo

\* Where the images are written is a number.
LEMMA StartFacts ==
  ASSUME ImageTypes
  PROVE  /\ Start \in Int /\ Total \in Nat /\ done \in Nat
         /\ RamWindow(Start + done) \in Int
<1>1. /\ fw_size \in Nat /\ nvlen \in Nat /\ ram_size \in Nat /\ done \in Nat
  BY BootAssumption DEF ImageTypes
<1>2. Start \in Int /\ Total \in Nat
  BY <1>1 DEF Start, Total
<1> QED
  BY <1>1, <1>2, WindowFacts

\* A change of the window, whole or not, leaves numbers behind ...
LEMMA SetWindowTypes ==
  ASSUME WinTypes, NEW w \in Int, SetWindow(w) \/ SetWindowFails(w)
  PROVE  WinTypes'
<1>1. Bytes(w) \in [1 .. 3 -> 0 .. 255]
  BY WindowFacts
<1>2. CASE SetWindow(w)
  BY <1>1, <1>2 DEF SetWindow, WinTypes
<1>3. CASE SetWindowFails(w)
  <2>1. PICK n \in 0 .. 3 :
          sbaddr' = [k \in 1 .. 3 |-> IF k <= n THEN Bytes(w)[k] ELSE sbaddr[k]]
    BY <1>3 DEF SetWindowFails
  <2>2. \A k \in 1 .. 3 : Bytes(w)[k] \in 0 .. 255 /\ sbaddr[k] \in 0 .. 255
    BY <1>1 DEF WinTypes
  <2>3. sbaddr' \in [1 .. 3 -> 0 .. 255]
    BY <2>1, <2>2
  <2> QED
    BY <1>3, <2>3 DEF SetWindowFails, WinTypes
<1> QED
  BY <1>2, <1>3

\* ... and the window that was meant, unless the registers did not hold the one
\* the driver thought they held.
LEMMA SetWindowFacts ==
  ASSUME NEW w, SetWindow(w),
         torn \/ sbaddr = Bytes(bp_window) \/ bp_window # w
  PROVE  bp_window' = w /\ (torn' \/ sbaddr' = Bytes(w))
BY DEF SetWindow

\* The window and its registers have numbers.
LEMMA WinStep == WinTypes /\ OpsSound /\ ImageTypes /\ [Next]_vars => WinTypes'
<1> SUFFICES ASSUME WinTypes, OpsSound, ImageTypes, [Next]_vars PROVE WinTypes'
  OBVIOUS
<1>1. CASE UNCHANGED <<bp_window, sbaddr>>
  BY <1>1 DEF WinTypes
<1>2. CASE Attach
  BY <1>2 DEF Attach, WinTypes
<1>3. CASE BpAccess
  BY <1>3, HeadFacts, SetWindowTypes DEF BpAccess
<1>4. CASE BpLost
  BY <1>4, HeadFacts, SetWindowTypes DEF BpLost
<1>5. CASE WriteBlock
  BY <1>5, StartFacts, SetWindowTypes DEF WriteBlock
<1>6. CASE WriteBlockFail
  BY <1>6, StartFacts, SetWindowTypes DEF WriteBlockFail
<1>7. CASE AttachStep \/ AttachFail \/ Clock \/ EnableF2 \/ ChipId
            \/ Probe \/ BpDone \/ GetFw \/ GetNvram \/ Parse \/ GetClm
            \/ ClmChunk
  <2> SUFFICES UNCHANGED <<bp_window, sbaddr>>
    BY <1>1
  <2> QED
    BY <1>7 DEF AttachStep, AttachFail, Clock, EnableF2, ChipId, Probe, BpDone,
      GetFw, GetNvram, Parse, GetClm, ClmChunk, winVars
<1>8. CASE ClmFail \/ ClmStatus \/ Detach \/ CfgHandlers \/ CfgIc
            \/ SdpcmStop \/ SdioClock \/ SdioHalt \/ SdioOff \/ Free
            \/ Vap \/ ScanStart
  <2> SUFFICES UNCHANGED <<bp_window, sbaddr>>
    BY <1>1
  <2> QED
    BY <1>8 DEF ClmFail, ClmStatus, Detach, CfgHandlers, CfgIc, SdpcmStop,
      SdioClock, SdioHalt, SdioOff, Free, Vap, ScanStart, winVars, Release
<1>9. CASE ScanTask \/ UNCHANGED vars
  <2> SUFFICES UNCHANGED <<bp_window, sbaddr>>
    BY <1>1
  <2> QED
    BY <1>9 DEF ScanTask, vars, winVars
<1> QED
  BY <1>2, <1>3, <1>4, <1>5, <1>6, <1>7, <1>8, <1>9 DEF Next, Boot, Undo

\* The registers of the window follow the driver, and no access goes astray.
LEMMA WindowStep == WindowSound /\ OpsSound /\ [Next]_vars => WindowSound'
<1> SUFFICES ASSUME WindowSound, OpsSound, [Next]_vars PROVE WindowSound'
  OBVIOUS
<1> USE AfterFacts, FailFacts, AccessFacts
<1>1. CASE UNCHANGED <<pc, todo, bp_window, sbaddr, torn, astray>>
  BY <1>1 DEF WindowSound, NeverAstray, Dark
<1>2. CASE Attach
  BY <1>2 DEF Attach, Goto, WindowSound, NeverAstray, Dark
<1>3. CASE AttachStep
  BY <1>3 DEF AttachStep, Done, Goto, winVars, WindowSound, NeverAstray, Dark
<1>4. CASE AttachFail
  BY <1>4 DEF AttachFail, Fail, Goto, winVars, WindowSound, NeverAstray, Dark
<1>5. CASE Clock
  BY <1>5 DEF Clock, Done, Goto, Fail, winVars, WindowSound, NeverAstray, Dark
<1>6. CASE EnableF2
  BY <1>6 DEF EnableF2, Done, Goto, Fail, winVars, WindowSound, NeverAstray,
    Dark
<1>7. CASE BpAccess
  <2>1. torn \/ sbaddr = Bytes(bp_window) \/ bp_window # Head(todo).win
    <3>1. pc \notin Dark
      BY <1>7 DEF BpAccess, OpsSound, Accessing, Halting, Dark
    <3>2. todo = << Read(Cores) >> => Head(todo).win # 0
      BY WindowFacts DEF Read, Access
    <3> QED
      BY <3>1, <3>2 DEF WindowSound
  <2>2. /\ bp_window' = Head(todo).win
        /\ torn' \/ sbaddr' = Bytes(Head(todo).win)
    BY <1>7, <2>1, SetWindowFacts DEF BpAccess
  <2> QED
    BY <1>7, <2>2 DEF BpAccess, WindowSound, NeverAstray
<1>8. CASE BpLost
  <2>1. torn \/ sbaddr = Bytes(bp_window) \/ bp_window # Head(todo).win
    <3>1. pc \notin Dark
      BY <1>8 DEF BpLost, OpsSound, Accessing, Halting, Dark
    <3>2. todo = << Read(Cores) >> => Head(todo).win # 0
      BY WindowFacts DEF Read, Access
    <3> QED
      BY <3>1, <3>2 DEF WindowSound
  <2>2. SetWindow(Head(todo).win) => torn' \/ sbaddr' = Bytes(bp_window')
    BY <2>1, SetWindowFacts
  <2> QED
    BY <1>8, <2>2 DEF BpLost, SetWindowFails, WindowSound, NeverAstray
<1>9. CASE ChipId
  BY <1>9 DEF ChipId, Done, Goto, Fail, winVars, WindowSound, NeverAstray, Dark
<1>10. CASE Probe
  BY <1>10 DEF Probe, Done, Goto, winVars, WindowSound, NeverAstray, Dark
<1>11. CASE BpDone
  BY <1>11 DEF BpDone, Done, Goto, winVars, WindowSound, NeverAstray, Dark
<1>12. CASE GetFw
  BY <1>12 DEF GetFw, Done, Goto, Fail, winVars, WindowSound, NeverAstray, Dark
<1>13. CASE GetNvram
  BY <1>13 DEF GetNvram, Done, Goto, Fail, winVars, WindowSound, NeverAstray,
    Dark
<1>14. CASE Parse
  BY <1>14 DEF Parse, Done, Goto, winVars, stepVars, WindowSound, NeverAstray,
    Dark
<1>15. CASE WriteBlock
  <2>1. torn \/ sbaddr = Bytes(bp_window) \/ bp_window # RamWindow(Start + done)
    BY <1>15 DEF WriteBlock, WindowSound, Dark
  <2>2. /\ bp_window' = RamWindow(Start + done)
        /\ torn' \/ sbaddr' = Bytes(RamWindow(Start + done))
    BY <1>15, <2>1, SetWindowFacts DEF WriteBlock
  <2> QED
    BY <1>15, <2>2 DEF WriteBlock, WindowSound, NeverAstray
<1>16. CASE WriteBlockFail
  <2>1. torn \/ sbaddr = Bytes(bp_window) \/ bp_window # RamWindow(Start + done)
    BY <1>16 DEF WriteBlockFail, WindowSound, Dark
  <2>2. SetWindow(RamWindow(Start + done)) => torn' \/ sbaddr' = Bytes(bp_window')
    BY <2>1, SetWindowFacts
  <2> QED
    BY <1>16, <2>2 DEF WriteBlockFail, SetWindowFails, WindowSound, NeverAstray
<1>17. CASE GetClm
  BY <1>17 DEF GetClm, Goto, winVars, WindowSound, NeverAstray, Dark
<1>18. CASE ClmChunk
  BY <1>18 DEF ClmChunk, Done, Goto, winVars, stepVars, WindowSound,
    NeverAstray, Dark
<1>19. CASE ClmFail
  BY <1>19 DEF ClmFail, Fail, Goto, winVars, WindowSound, NeverAstray, Dark
<1>20. CASE ClmStatus
  BY <1>20 DEF ClmStatus, Done, Goto, Fail, winVars, WindowSound, NeverAstray,
    Dark
<1>21. CASE Detach
  BY <1>21 DEF Detach, Goto, winVars, WindowSound, NeverAstray, Dark
<1>22. CASE CfgHandlers
  BY <1>22 DEF CfgHandlers, Release, Goto, winVars, WindowSound, NeverAstray,
    Dark
<1>23. CASE CfgIc
  BY <1>23 DEF CfgIc, Release, Goto, winVars, WindowSound, NeverAstray, Dark
<1>24. CASE SdpcmStop
  BY <1>24 DEF SdpcmStop, Release, Goto, winVars, WindowSound, NeverAstray,
    Dark
<1>25. CASE SdioClock
  BY <1>25 DEF SdioClock, Release, Goto, winVars, WindowSound, NeverAstray,
    Dark
<1>26. CASE SdioHalt
  BY <1>26 DEF SdioHalt, Release, Goto, winVars, WindowSound, NeverAstray, Dark
<1>27. CASE SdioOff
  BY <1>27 DEF SdioOff, Release, Goto, winVars, WindowSound, NeverAstray, Dark
<1>28. CASE Free
  BY <1>28 DEF Free, Release, Goto, winVars, WindowSound, NeverAstray, Dark
<1>29. CASE Vap \/ ScanStart \/ ScanTask \/ UNCHANGED vars
  <2> SUFFICES UNCHANGED <<pc, todo, bp_window, sbaddr, torn, astray>>
    BY <1>1
  <2> QED
    BY <1>29 DEF Vap, ScanStart, ScanTask, vars, winVars, stepVars
<1> QED
  BY <1>2, <1>3, <1>4, <1>5, <1>6, <1>7, <1>8, <1>9, <1>10, <1>11, <1>12,
    <1>13, <1>14, <1>15, <1>16, <1>17, <1>18, <1>19, <1>20, <1>21, <1>22,
    <1>23, <1>24, <1>25, <1>26, <1>27, <1>28, <1>29 DEF Next, Boot, Undo

-----------------------------------------------------------------------------
(* The parser of the NVRAM file.                                           *)

\* The empty buffer.
LEMMA Empty ==
  << >> \in Seq(Chars) /\ << >> \in Seq(Chars \union {Nul}) /\ Len(<< >>) = 0
OBVIOUS

\* roundup(m, 4) does not shrink and is a multiple of 4 ...
LEMMA RoundUpFacts ==
  \A m \in Nat : /\ RoundUp4(m) \in Nat
                 /\ m <= RoundUp4(m)
                 /\ RoundUp4(m) = 4 * (RoundUp4(m) \div 4)
                 /\ RoundUp4(m) \div 4 \in Nat
BY DEF RoundUp4

\* ... and grows with m.
LEMMA RoundUpGrows ==
  \A m, n \in Nat : m <= n => RoundUp4(m) <= RoundUp4(n)
BY DEF RoundUp4

\* A terminator is at most one byte more.
LEMMA TerminateFacts ==
  ASSUME NEW b \in Seq(Chars \union {Nul})
  PROVE  /\ Terminate(b) \in Seq(Chars \union {Nul})
         /\ Len(Terminate(b)) \in Nat
         /\ Len(Terminate(b)) <= Len(b) + 1
BY DEF Terminate, Nul

\* The padded list has the length of the terminated one and its NUL, in words.
LEMMA PadFacts ==
  ASSUME NEW b \in Seq(Chars \union {Nul})
  PROVE  /\ Pad(b) \in Seq(Chars \union {Nul})
         /\ Len(Pad(b)) = RoundUp4(Len(Terminate(b)) + 1)
<1> DEFINE t == Terminate(b)
           n == RoundUp4(Len(t) + 1) - Len(t)
           z == [k \in 1 .. n |-> Nul]
<1>1. t \in Seq(Chars \union {Nul}) /\ Len(t) \in Nat
  BY TerminateFacts
<1>2. RoundUp4(Len(t) + 1) \in Nat /\ Len(t) + 1 <= RoundUp4(Len(t) + 1)
  <2>1. Len(t) + 1 \in Nat
    BY <1>1
  <2>2. QED
    BY <2>1, RoundUpFacts
<1>3. n \in Nat
  BY <1>1, <1>2
<1>4. z \in Seq(Chars \union {Nul}) /\ Len(z) = n
  BY <1>3
<1>5. Pad(b) = t \o z
  BY DEF Pad
<1> HIDE DEF t, n, z
<1>6. t \o z \in Seq(Chars \union {Nul}) /\ Len(t \o z) = Len(t) + Len(z)
  BY <1>1, <1>4
<1>7. QED
  BY <1>1, <1>2, <1>4, <1>5, <1>6 DEF n, t

\* One character packs one byte at most.
LEMMA CharStep == NvInv /\ NvChar => NvInv'
<1> SUFFICES ASSUME NvInv, NvChar PROVE NvInv'
  OBVIOUS
<1> USE DEF NvInv, NvTypeOK
<1>1. /\ nvpc' = "scan" /\ raw' = raw /\ token' = token
      /\ i' = i + 1 /\ i < Len(raw) /\ nvpc = "scan"
  BY DEF NvChar
<1>2. Len(raw) \in Nat /\ i + 1 \in 1 .. Len(raw)
  BY <1>1
<1>3. raw[i + 1] \in Chars
  BY <1>2
<1>4. /\ buf' \in {buf, Terminate(buf), Append(buf, raw[i + 1])}
      /\ in_comment' \in BOOLEAN
      /\ at_bol' \in BOOLEAN
  BY DEF NvChar
<1>5. Append(buf, raw[i + 1]) \in Seq(Chars \union {Nul})
      /\ Len(Append(buf, raw[i + 1])) = Len(buf) + 1
  BY <1>3
<1>6. buf' \in Seq(Chars \union {Nul}) /\ Len(buf') <= Len(buf) + 1
  <2>1. CASE buf' = buf
    BY <2>1
  <2>2. CASE buf' = Terminate(buf)
    BY <2>2, TerminateFacts
  <2>3. CASE buf' = Append(buf, raw[i + 1])
    BY <2>3, <1>5
  <2>4. QED
    BY <1>4, <2>1, <2>2, <2>3
<1>7. Len(buf) \in Nat /\ Len(buf') \in Nat
  BY <1>6
<1>8. QED
  BY <1>1, <1>2, <1>4, <1>6, <1>7

\* The end packs no more than was allocated.
LEMMA EndStep == NvInv /\ NvEnd => NvInv'
<1> SUFFICES ASSUME NvInv, NvEnd PROVE NvInv'
  OBVIOUS
<1> USE DEF NvInv, NvTypeOK
<1> DEFINE m == Len(Terminate(buf)) + 1
<1>1. /\ nvpc' = "done" /\ raw' = raw /\ i' = i /\ i = Len(raw) /\ nvpc = "scan"
      /\ in_comment' = in_comment /\ at_bol' = at_bol
      /\ buf' = Pad(buf) /\ token' = Len(Pad(buf)) \div 4
  BY DEF NvEnd
<1>2. Len(raw) \in Nat /\ Len(buf) \in Nat /\ Len(buf) <= Len(raw)
  BY <1>1
<1>3. m \in Nat /\ m <= Len(raw) + 2
  BY <1>2, TerminateFacts
<1>4. /\ RoundUp4(m) \in Nat
      /\ RoundUp4(m) <= RoundUp4(Len(raw) + 2)
      /\ RoundUp4(m) = 4 * (RoundUp4(m) \div 4)
  <2> HIDE DEF m
  <2>1. Len(raw) + 2 \in Nat
    BY <1>2
  <2>2. RoundUp4(m) <= RoundUp4(Len(raw) + 2)
    BY <1>3, <2>1, RoundUpGrows
  <2>3. QED
    BY <1>3, <2>2, RoundUpFacts
<1>5. Pad(buf) \in Seq(Chars \union {Nul}) /\ Len(Pad(buf)) = RoundUp4(m)
  BY PadFacts
<1>6. RoundUp4(Len(raw) + 2) \in Nat
  <2>1. Len(raw) + 2 \in Nat
    BY <1>2
  <2>2. QED
    BY <2>1, RoundUpFacts
<1> HIDE DEF m
<1>7. RoundUp4(m) \div 4 \in Nat
  BY <1>3, RoundUpFacts
<1>8. QED
  BY <1>1, <1>4, <1>5, <1>6, <1>7 DEF Allocated

\* Every step keeps the invariant.
LEMMA NvStep == NvInv /\ [NvNext]_nvVars => NvInv'
<1> SUFFICES ASSUME NvInv, [NvNext]_nvVars PROVE NvInv'
  OBVIOUS
<1>1. CASE NvCall
  <2>1. raw' \in Seq(Chars)
    BY <1>1, TextsAssumption DEF NvCall
  <2>2. Len(raw') \in Nat
    BY <2>1
  <2>3. /\ nvpc' = "scan" /\ i' = 0 /\ buf' = << >> /\ token' = 0
        /\ in_comment' \in BOOLEAN /\ at_bol' \in BOOLEAN
    BY <1>1 DEF NvCall
  <2>4. buf' \in Seq(Chars \union {Nul}) /\ Len(buf') = 0
    BY <2>3, Empty
  <2>5. QED
    BY <2>1, <2>2, <2>3, <2>4 DEF NvInv, NvTypeOK
<1>2. CASE NvChar
  BY <1>2, CharStep
<1>3. CASE NvEnd
  BY <1>3, EndStep
<1>4. CASE NvFree
  <2>1. /\ nvpc' = "idle" /\ raw' = << >> /\ i' = 0 /\ buf' = << >> /\ token' = 0
        /\ in_comment' \in BOOLEAN /\ at_bol' \in BOOLEAN
    BY <1>4 DEF NvFree
  <2>2. raw' \in Seq(Chars) /\ buf' \in Seq(Chars \union {Nul})
        /\ Len(raw') = 0 /\ Len(buf') = 0
    BY <2>1, Empty
  <2>3. QED
    BY <2>1, <2>2 DEF NvInv, NvTypeOK
<1>5. CASE UNCHANGED nvVars
  BY <1>5 DEF nvVars, NvInv, NvTypeOK, Allocated
<1>6. QED
  BY <1>1, <1>2, <1>3, <1>4, <1>5 DEF NvNext

\* The parser begins idle.
LEMMA NvInitInv == NvInit => NvInv
<1> SUFFICES ASSUME NvInit PROVE NvInv
  OBVIOUS
<1>1. /\ nvpc = "idle" /\ raw = << >> /\ i = 0 /\ buf = << >> /\ token = 0
      /\ in_comment \in BOOLEAN /\ at_bol \in BOOLEAN
  BY DEF NvInit
<1>2. raw \in Seq(Chars) /\ buf \in Seq(Chars \union {Nul})
      /\ Len(raw) = 0 /\ Len(buf) = 0
  BY <1>1, Empty
<1> QED
  BY <1>1, <1>2 DEF NvInv, NvTypeOK

\* What is packed fits.
LEMMA NvFits == NvInv => NvramFits
<1> SUFFICES ASSUME NvInv PROVE NvramFits
  OBVIOUS
<1>1. Len(raw) \in Nat /\ Len(buf) \in Nat /\ i <= Len(raw)
  BY DEF NvInv, NvTypeOK
<1>2. RoundUp4(Len(raw) + 2) \in Nat /\ Len(raw) + 2 <= RoundUp4(Len(raw) + 2)
  <2>1. Len(raw) + 2 \in Nat
    BY <1>1
  <2> QED
    BY <2>1, RoundUpFacts
<1> QED
  BY <1>1, <1>2 DEF NvInv, NvTypeOK, NvramFits, Allocated

\* One character on in the line, or in the next one.
LEMMA LineOn ==
  ASSUME NEW t \in Seq(Chars), NEW n \in Nat, n < Len(t), NEW q \in 1 .. (n + 1)
  PROVE  SameLine(t, q, n + 2) <=> SameLine(t, q, n + 1) /\ t[n + 1] # "nl"
BY DEF SameLine

\* A character is in its own line.
LEMMA OwnLine ==
  ASSUME NEW t, NEW n \in Nat PROVE SameLine(t, n, n)
BY DEF SameLine

\* How many characters leave a byte.
LEMMA PlaceFacts ==
  ASSUME NEW t \in Seq(Chars), NEW n \in Nat
  PROVE  /\ IsFiniteSet(Packed(t, n))
         /\ Place(t, n) \in Nat
         /\ Place(t, 0) = 0
<1>1. Packed(t, n) \in SUBSET (1 .. n) /\ IsFiniteSet(1 .. n)
  BY FS_Interval DEF Packed
<1>2. IsFiniteSet(Packed(t, n))
  BY <1>1, FS_Subset
<1>3. Packed(t, 0) = {}
  BY DEF Packed
<1> QED
  BY <1>2, <1>3, FS_CardinalityType, FS_EmptySet DEF Place

\* The next character leaves a byte behind the others, ...
LEMMA PlaceNext ==
  ASSUME NEW t \in Seq(Chars), NEW n \in Nat,
         Kept(t, n + 1) \/ EndsToken(t, n + 1)
  PROVE  /\ Packed(t, n + 1) = Packed(t, n) \union {n + 1}
         /\ Place(t, n + 1) = Place(t, n) + 1
<1>1. Packed(t, n + 1) = Packed(t, n) \union {n + 1}
  BY DEF Packed
<1>2. n + 1 \notin Packed(t, n)
  BY DEF Packed
<1> QED
  BY <1>1, <1>2, PlaceFacts, FS_AddElement DEF Place

\* ... or it leaves none.
LEMMA PlaceSame ==
  ASSUME NEW t \in Seq(Chars), NEW n \in Nat,
         ~Kept(t, n + 1), ~EndsToken(t, n + 1)
  PROVE  /\ Packed(t, n + 1) = Packed(t, n)
         /\ Place(t, n + 1) = Place(t, n)
<1>1. Packed(t, n + 1) = Packed(t, n)
  BY DEF Packed
<1> QED
  BY <1>1 DEF Place

\* Every byte has its place among the ones before it.
LEMMA PlaceWithin ==
  ASSUME NEW t \in Seq(Chars), NEW n \in Nat, NEW p \in Packed(t, n)
  PROVE  p \in 1 .. n /\ Place(t, p) \in 1 .. Place(t, n)
<1>1. p \in 1 .. n /\ p \in Packed(t, p) /\ Packed(t, p) \in SUBSET Packed(t, n)
  BY DEF Packed
<1>2. Place(t, p) <= Place(t, n)
  BY <1>1, PlaceFacts, FS_Subset DEF Place
<1>3. Place(t, p) # 0
  BY <1>1, PlaceFacts, FS_EmptySet DEF Place
<1> QED
  BY <1>1, <1>2, <1>3, PlaceFacts

\* A byte more in the buffer.
LEMMA HoldsMore ==
  ASSUME NEW t \in Seq(Chars), NEW n \in Nat, NEW b \in Seq(Chars \union {Nul}),
         n < Len(t), Holds(t, n, b),
         Kept(t, n + 1) \/ EndsToken(t, n + 1),
         Kept(t, n + 1) <=> HasKept(t, n + 2)
  PROVE  Holds(t, n + 1, Append(b, ByteOf(t, n + 1)))
<1> DEFINE c == Append(b, ByteOf(t, n + 1))
<1>1. t[n + 1] \in Chars /\ ByteOf(t, n + 1) \in Chars \union {Nul}
  BY DEF ByteOf
<1>2. /\ Len(b) \in Nat
      /\ c \in Seq(Chars \union {Nul}) /\ Len(c) = Len(b) + 1 /\ c # << >>
      /\ \A k \in 1 .. Len(b) : c[k] = b[k]
      /\ c[Len(b) + 1] = ByteOf(t, n + 1)
  BY <1>1
<1> HIDE DEF c
<1>3. Len(c) = Place(t, n + 1)
  BY <1>2, PlaceNext DEF Holds
<1>4. ASSUME NEW p \in Packed(t, n + 1)
      PROVE  c[Place(t, p)] = ByteOf(t, p)
  <2>1. CASE p = n + 1
    BY <2>1, <1>2, <1>3
  <2>2. CASE p \in Packed(t, n)
    BY <2>2, <1>2, PlaceWithin DEF Holds
  <2> QED
    BY <2>1, <2>2, PlaceNext
<1>5. ByteOf(t, n + 1) # Nul <=> Kept(t, n + 1)
  BY <1>1 DEF ByteOf, Kept, EndsToken, Chars, Nul
<1>6. c[Len(c)] # Nul <=> HasKept(t, n + 2)
  BY <1>2, <1>5
<1>7. (n + 1) + 1 = n + 2
  OBVIOUS
<1> QED
  BY <1>2, <1>3, <1>4, <1>6, <1>7 DEF Holds, c

\* No byte more.
LEMMA HoldsSame ==
  ASSUME NEW t \in Seq(Chars), NEW n \in Nat, NEW b, Holds(t, n, b),
         ~Kept(t, n + 1), ~EndsToken(t, n + 1),
         HasKept(t, n + 1) <=> HasKept(t, n + 2)
  PROVE  Holds(t, n + 1, b)
<1>1. (n + 1) + 1 = n + 2
  OBVIOUS
<1> QED
  BY <1>1, PlaceSame DEF Holds

\* What the next character is, from the two flags.
LEMMA NextIs ==
  ASSUME NvTypeOK, FlagsSound, i < Len(raw)
  PROVE  /\ StartsComment(raw, i + 1) <=> raw[i + 1] = "hash" /\ at_bol
         /\ Kept(raw, i + 1) <=> /\ raw[i + 1] \notin {"cr", "nl"}
                                 /\ ~in_comment
                                 /\ ~StartsComment(raw, i + 1)
         /\ EndsToken(raw, i + 1) <=> /\ raw[i + 1] = "nl"
                                      /\ ~in_comment /\ ~at_bol
<1>1. i \in Nat /\ i + 1 \in Nat /\ (i + 1) - 1 = i
  BY DEF NvTypeOK
<1>2. StartsComment(raw, i + 1) <=> raw[i + 1] = "hash" /\ at_bol
  BY <1>1 DEF StartsComment, FlagsSound
<1>3. (\E q \in 1 .. (i + 1) : SameLine(raw, q, i + 1) /\ StartsComment(raw, q))
        <=> in_comment \/ StartsComment(raw, i + 1)
  <2>1. 1 .. (i + 1) = (1 .. i) \union {i + 1}
    BY <1>1
  <2>2. SameLine(raw, i + 1, i + 1)
    BY <1>1, OwnLine
  <2> QED
    BY <2>1, <2>2 DEF FlagsSound
<1>4. Kept(raw, i + 1) <=> /\ raw[i + 1] \notin {"cr", "nl"}
                           /\ ~in_comment
                           /\ ~StartsComment(raw, i + 1)
  BY <1>3 DEF Kept
<1>5. EndsToken(raw, i + 1) <=> raw[i + 1] = "nl" /\ ~in_comment /\ ~at_bol
  BY DEF EndsToken, FlagsSound
<1> QED
  BY <1>2, <1>4, <1>5

\* The line of the next character but one.
LEMMA NextLine ==
  ASSUME NvTypeOK, FlagsSound, i < Len(raw)
  PROVE  /\ (\E q \in 1 .. (i + 1) : /\ SameLine(raw, q, i + 2)
                                     /\ StartsComment(raw, q))
              <=> /\ raw[i + 1] # "nl"
                  /\ in_comment \/ StartsComment(raw, i + 1)
         /\ (\A r \in 1 .. (i + 1) : SameLine(raw, r, i + 2) => raw[r] = "cr")
              <=> \/ raw[i + 1] = "nl"
                  \/ at_bol /\ raw[i + 1] = "cr"
         /\ HasKept(raw, i + 2)
              <=> /\ raw[i + 1] # "nl"
                  /\ (~in_comment /\ ~at_bol) \/ Kept(raw, i + 1)
<1>1. i \in Nat /\ raw \in Seq(Chars) /\ (i + 2) - 1 = i + 1 /\ (i + 1) - 1 = i
  BY DEF NvTypeOK
<1>2. 1 .. (i + 1) = (1 .. i) \union {i + 1}
  BY <1>1
<1>3. \A q \in 1 .. (i + 1) :
        SameLine(raw, q, i + 2) <=> SameLine(raw, q, i + 1) /\ raw[i + 1] # "nl"
  BY <1>1, LineOn
<1>4. SameLine(raw, i + 1, i + 1)
  BY <1>1, OwnLine
<1>5. (\E q \in 1 .. (i + 1) : SameLine(raw, q, i + 2) /\ StartsComment(raw, q))
        <=> raw[i + 1] # "nl" /\ (in_comment \/ StartsComment(raw, i + 1))
  BY <1>2, <1>3, <1>4 DEF FlagsSound
<1>6. (\A r \in 1 .. (i + 1) : SameLine(raw, r, i + 2) => raw[r] = "cr")
        <=> raw[i + 1] = "nl" \/ (at_bol /\ raw[i + 1] = "cr")
  BY <1>2, <1>3, <1>4 DEF FlagsSound
<1>7. HasKept(raw, i + 2)
        <=> raw[i + 1] # "nl" /\ (HasKept(raw, i + 1) \/ Kept(raw, i + 1))
  BY <1>1, <1>2, <1>3, <1>4 DEF HasKept
<1> QED
  BY <1>5, <1>6, <1>7 DEF FlagsSound

\* One character of cyw_parse_nvram.
LEMMA FileChar == NvInv /\ FileInv /\ NvChar => FileInv'
<1> SUFFICES ASSUME NvInv, FileInv, NvChar PROVE FileInv'
  OBVIOUS
<1>1. /\ nvpc = "scan" /\ nvpc' = "scan" /\ raw' = raw /\ i' = i + 1
      /\ i < Len(raw) /\ NvTypeOK /\ FlagsSound /\ Holds(raw, i, buf)
  BY DEF NvChar, NvInv, FileInv
<1>2. /\ i \in Nat /\ raw \in Seq(Chars) /\ (i + 1) + 1 = i + 2
      /\ buf \in Seq(Chars \union {Nul})
      /\ in_comment \in BOOLEAN /\ at_bol \in BOOLEAN
  BY <1>1 DEF NvTypeOK
<1>3. raw[i + 1] \in Chars
  BY <1>1, <1>2
<1>4. raw[i + 1] \in {"x", "hash", "nl", "cr"}
  BY <1>3 DEF Chars
<1> DEFINE c == raw[i + 1]
<1>5. /\ in_comment' <=> c # "nl" /\ (in_comment \/ (c = "hash" /\ at_bol))
      /\ at_bol' <=> c = "nl" \/ (at_bol /\ c = "cr")
  BY <1>2, <1>4 DEF NvChar
<1>6. ~(in_comment /\ at_bol)
  <2> SUFFICES ASSUME in_comment, at_bol PROVE FALSE
    OBVIOUS
  <2>1. PICK q \in 1 .. i : SameLine(raw, q, i + 1) /\ StartsComment(raw, q)
    BY <1>1 DEF FlagsSound
  <2> QED
    BY <2>1, <1>1 DEF FlagsSound, StartsComment
<1>7. FlagsSound'
  <2>1. /\ in_comment' <=> \E q \in 1 .. (i + 1) : /\ SameLine(raw, q, i + 2)
                                                   /\ StartsComment(raw, q)
        /\ at_bol' <=> \A r \in 1 .. (i + 1) :
                         SameLine(raw, r, i + 2) => raw[r] = "cr"
        /\ ~in_comment' /\ ~at_bol' <=> HasKept(raw, i + 2)
    BY <1>1, <1>2, <1>4, <1>5, <1>6, NextIs, NextLine
  <2> QED
    BY <2>1, <1>1, <1>2 DEF FlagsSound
<1>8. Holds(raw, i + 1, buf')
  <2>1. CASE Kept(raw, i + 1)
    <3>1. c \in {"x", "hash"} /\ ~in_comment /\ ~(c = "hash" /\ at_bol)
      BY <2>1, <1>1, <1>4, NextIs
    <3>2. buf' = Append(buf, ByteOf(raw, i + 1))
      BY <3>1 DEF NvChar, ByteOf
    <3>3. HasKept(raw, i + 2)
      BY <2>1, <3>1, <1>1, NextLine
    <3> QED
      BY <2>1, <3>2, <3>3, <1>1, <1>2, HoldsMore
  <2>2. CASE EndsToken(raw, i + 1)
    <3>1. c = "nl" /\ ~in_comment /\ ~at_bol
      BY <2>2, <1>1, NextIs
    <3>2. buf # << >> /\ buf[Len(buf)] # Nul
      BY <3>1, <1>1 DEF Holds, FlagsSound
    <3>3. buf' = Append(buf, ByteOf(raw, i + 1))
      BY <3>1, <3>2 DEF NvChar, Terminate, ByteOf
    <3>4. ~HasKept(raw, i + 2) /\ ~Kept(raw, i + 1)
      BY <3>1, <1>1, NextLine DEF Kept
    <3> QED
      BY <2>2, <3>3, <3>4, <1>1, <1>2, HoldsMore
  <2>3. CASE ~Kept(raw, i + 1) /\ ~EndsToken(raw, i + 1)
    <3>1. \/ c = "cr"
          \/ c = "nl" /\ (in_comment \/ at_bol)
          \/ c \in {"x", "hash"} /\ (in_comment \/ (c = "hash" /\ at_bol))
      BY <2>3, <1>1, <1>4, NextIs
    <3>2. buf' = buf
      BY <3>1 DEF NvChar
    <3>3. HasKept(raw, i + 1) <=> HasKept(raw, i + 2)
      BY <2>3, <3>1, <1>1, <1>6, NextLine DEF FlagsSound
    <3> QED
      BY <2>3, <3>2, <3>3, <1>1, <1>2, HoldsSame
  <2> QED
    BY <2>1, <2>2, <2>3
<1>9. NvramIsTheFile'
  BY <1>1 DEF NvramIsTheFile
<1> QED
  BY <1>1, <1>7, <1>8, <1>9 DEF FileInv

\* The terminator.
LEMMA TerminateIs ==
  ASSUME NEW t \in Seq(Chars), NEW n \in Nat, NEW b \in Seq(Chars \union {Nul}),
         Holds(t, n, b)
  PROVE  /\ Len(Terminate(b)) = Place(t, n)
                                  + (IF HasKept(t, n + 1) THEN 1 ELSE 0)
         /\ \A k \in 1 .. Place(t, n) : Terminate(b)[k] = b[k]
         /\ \A k \in (Place(t, n) + 1) .. Len(Terminate(b)) :
              Terminate(b)[k] = Nul
<1>1. Len(b) \in Nat /\ Len(b) = Place(t, n)
  BY DEF Holds
<1>2. CASE HasKept(t, n + 1)
  <2>1. Terminate(b) = Append(b, Nul)
    BY <1>2 DEF Holds, Terminate
  <2> QED
    BY <2>1, <1>1, <1>2
<1>3. CASE ~HasKept(t, n + 1)
  <2>1. Terminate(b) = b
    BY <1>3 DEF Holds, Terminate
  <2> QED
    BY <2>1, <1>1, <1>3
<1> QED
  BY <1>2, <1>3

\* roundup(m, 4) adds less than a word.
LEMMA RoundUpNear == \A m \in Nat : RoundUp4(m) \in m .. (m + 3)
BY DEF RoundUp4

\* The padding.
LEMMA PadIs ==
  ASSUME NEW b \in Seq(Chars \union {Nul})
  PROVE  /\ Len(Pad(b)) \in (Len(Terminate(b)) + 1) .. (Len(Terminate(b)) + 4)
         /\ \A k \in 1 .. Len(Terminate(b)) : Pad(b)[k] = Terminate(b)[k]
         /\ \A k \in (Len(Terminate(b)) + 1) .. Len(Pad(b)) : Pad(b)[k] = Nul
<1> DEFINE t == Terminate(b)
           n == RoundUp4(Len(t) + 1) - Len(t)
           z == [k \in 1 .. n |-> Nul]
<1>1. t \in Seq(Chars \union {Nul}) /\ Len(t) \in Nat
  BY DEF Terminate
<1>2. n \in 1 .. 4
  <2>1. Len(t) + 1 \in Nat
    BY <1>1
  <2>2. RoundUp4(Len(t) + 1) \in (Len(t) + 1) .. ((Len(t) + 1) + 3)
    BY <2>1, RoundUpNear
  <2> HIDE DEF t
  <2> QED
    BY <1>1, <2>2
<1>3. z \in Seq({Nul}) /\ Len(z) = n /\ \A k \in 1 .. n : z[k] = Nul
  BY <1>2
<1>4. Pad(b) = t \o z
  BY DEF Pad
<1> HIDE DEF t, n, z
<1>5. /\ Len(t \o z) = Len(t) + n
      /\ \A k \in 1 .. Len(t) : (t \o z)[k] = t[k]
      /\ \A k \in (Len(t) + 1) .. (Len(t) + n) : (t \o z)[k] = z[k - Len(t)]
  BY <1>1, <1>2, <1>3
<1>6. \A k \in (Len(t) + 1) .. (Len(t) + n) : k - Len(t) \in 1 .. n
  BY <1>1, <1>2
<1> QED
  BY <1>1, <1>2, <1>3, <1>4, <1>5, <1>6 DEF t

\* The end of cyw_parse_nvram.
LEMMA FileEnd == NvInv /\ FileInv /\ NvEnd => FileInv'
<1> SUFFICES ASSUME NvInv, FileInv, NvEnd PROVE FileInv'
  OBVIOUS
<1> DEFINE n == Len(raw)
           m == Place(raw, n)
           t == Terminate(buf)
<1>1. /\ nvpc = "scan" /\ nvpc' = "done" /\ raw' = raw /\ i = n
      /\ buf' = Pad(buf)
  BY DEF NvEnd
<1>2. /\ raw \in Seq(Chars) /\ n \in Nat /\ buf \in Seq(Chars \union {Nul})
      /\ Holds(raw, n, buf)
  BY <1>1 DEF NvInv, NvTypeOK, FileInv
<1>3. m \in Nat
  BY <1>2, PlaceFacts
<1>4. /\ Len(t) = m + (IF HasKept(raw, n + 1) THEN 1 ELSE 0)
      /\ \A k \in 1 .. m : t[k] = buf[k]
      /\ \A k \in (m + 1) .. Len(t) : t[k] = Nul
  BY <1>2, TerminateIs
<1>5. /\ Len(buf') \in (Len(t) + 1) .. (Len(t) + 4)
      /\ \A k \in 1 .. Len(t) : buf'[k] = t[k]
      /\ \A k \in (Len(t) + 1) .. Len(buf') : buf'[k] = Nul
  BY <1>1, <1>2, PadIs
<1> HIDE DEF n, m, t
<1>6. Len(t) \in Nat /\ m <= Len(t)
  BY <1>3, <1>4
<1>7. ASSUME NEW p \in Packed(raw, n)
      PROVE  buf'[Place(raw, p)] = ByteOf(raw, p)
  <2>1. Place(raw, p) \in 1 .. m
    BY <1>2, PlaceWithin DEF m
  <2>2. buf[Place(raw, p)] = ByteOf(raw, p)
    BY <1>2 DEF Holds
  <2>3. Place(raw, p) \in 1 .. Len(t)
    BY <2>1, <1>3, <1>6
  <2> QED
    BY <2>1, <2>2, <2>3, <1>4, <1>5
<1>8. ASSUME NEW k \in (m + 1) .. Len(buf')
      PROVE  buf'[k] = Nul
  <2>1. k \in (m + 1) .. Len(t) \/ k \in (Len(t) + 1) .. Len(buf')
    BY <1>3, <1>5, <1>6
  <2>2. k \in (m + 1) .. Len(t) => k \in 1 .. Len(t)
    BY <1>3, <1>6
  <2> QED
    BY <2>1, <2>2, <1>4, <1>5
<1>9. LET tokens == m + (IF HasKept(raw, n + 1) THEN 1 ELSE 0)
      IN  /\ \A p \in Packed(raw, n) : buf'[Place(raw, p)] = ByteOf(raw, p)
          /\ Len(buf') \in (tokens + 1) .. (tokens + 4)
          /\ \A k \in (m + 1) .. Len(buf') : buf'[k] = Nul
  BY <1>4, <1>5, <1>7, <1>8
<1>10. NvramIsTheFile'
  BY <1>1, <1>9 DEF NvramIsTheFile, n, m
<1> QED
  BY <1>1, <1>10 DEF FileInv

\* Nothing is read and nothing packed.
LEMMA FileBegin ==
  ASSUME NEW t PROVE /\ Place(t, 0) = 0 /\ Packed(t, 0) = {}
                     /\ ~HasKept(t, 1)
<1>1. Packed(t, 0) = {}
  BY DEF Packed
<1>2. ~HasKept(t, 1)
  BY DEF HasKept
<1> QED
  BY <1>1, <1>2, FS_EmptySet DEF Place

\* The parser keeps FileInv, whatever its caller does.
LEMMA FileStep == NvInv /\ FileInv /\ [NvNext]_nvVars => FileInv'
<1> SUFFICES ASSUME NvInv, FileInv, [NvNext]_nvVars PROVE FileInv'
  OBVIOUS
<1>1. CASE NvCall
  <2>1. nvpc' = "scan" /\ i' = 0 /\ buf' = << >> /\ ~in_comment' /\ at_bol'
    BY <1>1 DEF NvCall
  <2>2. FlagsSound'
    BY <2>1 DEF FlagsSound, HasKept
  <2>3. Holds(raw', 0, << >>)
    BY FileBegin DEF Holds
  <2>4. NvramIsTheFile'
    BY <2>1 DEF NvramIsTheFile
  <2> QED
    BY <2>1, <2>2, <2>3, <2>4 DEF FileInv
<1>2. CASE NvChar
  BY <1>2, FileChar
<1>3. CASE NvEnd
  BY <1>3, FileEnd
<1>4. CASE NvFree
  BY <1>4 DEF NvFree, FileInv, NvramIsTheFile
<1>5. CASE UNCHANGED nvVars
  BY <1>5 DEF nvVars, FileInv, NvramIsTheFile, FlagsSound
<1> QED
  BY <1>1, <1>2, <1>3, <1>4, <1>5 DEF NvNext

\* What the driver does with the parser is a step of the parser or none.
LEMMA Parses == [Next]_vars => [NvNext]_nvVars
<1> SUFFICES ASSUME [Next]_vars PROVE [NvNext]_nvVars
  OBVIOUS
<1>1. CASE UNCHANGED <<nvpc, raw, i, in_comment, at_bol, buf, token>>
  BY <1>1 DEF nvVars
<1>2. CASE Attach
  BY <1>2 DEF Attach, NvNext, nvVars
<1>3. CASE GetNvram
  BY <1>3 DEF GetNvram, NvNext, nvVars
<1>4. CASE Parse
  BY <1>4 DEF Parse, NvNext, nvVars
<1>5. CASE WriteBlock
  BY <1>5 DEF WriteBlock, NvNext, nvVars
<1>6. CASE WriteBlockFail
  BY <1>6 DEF WriteBlockFail, NvNext, nvVars
<1>7. CASE AttachStep \/ AttachFail \/ Clock \/ EnableF2 \/ BpAccess
            \/ BpLost \/ ChipId \/ Probe \/ BpDone \/ GetFw \/ GetClm
            \/ ClmChunk
  <2> SUFFICES UNCHANGED <<nvpc, raw, i, in_comment, at_bol, buf, token>>
    BY <1>1
  <2> QED
    BY <1>7 DEF AttachStep, AttachFail, Clock, EnableF2, BpAccess, BpLost,
      ChipId, Probe, BpDone, GetFw, GetClm, ClmChunk, nvVars
<1>8. CASE ClmFail \/ ClmStatus \/ Detach \/ CfgHandlers \/ CfgIc
            \/ SdpcmStop \/ SdioClock \/ SdioHalt \/ SdioOff \/ Free
            \/ Vap \/ ScanStart
  <2> SUFFICES UNCHANGED <<nvpc, raw, i, in_comment, at_bol, buf, token>>
    BY <1>1
  <2> QED
    BY <1>8 DEF ClmFail, ClmStatus, Detach, CfgHandlers, CfgIc, SdpcmStop,
      SdioClock, SdioHalt, SdioOff, Free, Vap, ScanStart, nvVars, Release
<1>9. CASE ScanTask \/ UNCHANGED vars
  <2> SUFFICES UNCHANGED <<nvpc, raw, i, in_comment, at_bol, buf, token>>
    BY <1>1
  <2> QED
    BY <1>9 DEF ScanTask, vars, nvVars
<1> QED
  BY <1>2, <1>3, <1>4, <1>5, <1>6, <1>7, <1>8, <1>9 DEF Next, Boot, Undo

\* The parser keeps its invariant in every step of the driver.
LEMMA ParseStep == NvInv /\ [Next]_vars => NvInv'
BY Parses, NvStep

-----------------------------------------------------------------------------
(* What is held.                                                           *)

\* Nothing else is ever held.
LEMMA MayFacts == \A p, f : May(p, f) \subseteq Resources
<1> SUFFICES ASSUME NEW p, NEW f, NEW r \in May(p, f) PROVE r \in Resources
  OBVIOUS
<1> QED
  BY DEF May, Early, Base, Net, Resources

\* A step of cyw_attach that succeeds: the next one may hold what it leaves.
LEMMA DoneFacts == ResSound /\ pc \in Doing /\ Done => ResSound'
<1> SUFFICES ASSUME ResSound, pc \in Doing, Done PROVE ResSound'
  OBVIOUS
<1>1. /\ pc' = After(pc) /\ res' = res \union Acquires(pc) /\ failing' = failing
  BY DEF Done, Goto
<1>2. ~failing
  BY DEF ResSound, Doing
<1> USE DEF ResSound, May, Acquires, Dark
<1>3. CASE pc \in {"funcs", "sysctl", "blksize"}
  BY <1>1, <1>2, <1>3, AfterFacts DEF Early, Base, Net, Resources
<1>4. CASE pc \in {"enable_f1", "clock", "chipid"}
  BY <1>1, <1>2, <1>4, AfterFacts DEF Early, Base, Net, Resources
<1>5. CASE pc \in {"probe", "f2_blksize", "halt"}
  BY <1>1, <1>2, <1>5, AfterFacts DEF Early, Base, Net, Resources
<1>6. CASE pc \in {"get_fw", "fw", "get_nvram"}
  BY <1>1, <1>2, <1>6, AfterFacts DEF Early, Base, Net, Resources
<1>7. CASE pc \in {"parse", "nvram", "release"}
  BY <1>1, <1>2, <1>7, AfterFacts DEF Early, Base, Net, Resources
<1>8. CASE pc \in {"force_ht", "kick"}
  BY <1>1, <1>2, <1>8, AfterFacts DEF Early, Base, Net, Resources
<1>9. CASE pc \in {"enable_f2", "handshake"}
  BY <1>1, <1>2, <1>9, AfterFacts DEF Early, Base, Net, Resources
<1>10. CASE pc \in {"clm", "clm_status"}
  BY <1>1, <1>2, <1>10, AfterFacts DEF Early, Base, Net, Resources
<1>11. CASE pc \in {"mac", "ifattach", "event_msgs"}
  BY <1>1, <1>2, <1>11, AfterFacts DEF Early, Base, Net, Resources
<1>12. CASE pc \in {"handlers", "callbacks"}
  BY <1>1, <1>2, <1>12, AfterFacts DEF Early, Base, Net, Resources
<1>13. CASE pc \in {"cv", "rx_tq"}
  BY <1>1, <1>2, <1>13, AfterFacts DEF Early, Base, Net, Resources
<1>14. CASE pc \in {"scan_tq", "start"}
  BY <1>1, <1>2, <1>14, AfterFacts DEF Early, Base, Net, Resources
<1> QED
  BY <1>3, <1>4, <1>5, <1>6, <1>7, <1>8, <1>9, <1>10, <1>11, <1>12, <1>13,
    <1>14 DEF Doing

\* A step that fails: its label undoes what is held.
LEMMA LabelFacts == ResSound /\ pc \in Fallible /\ Fail => ResSound'
<1> SUFFICES ASSUME ResSound, pc \in Fallible, Fail PROVE ResSound'
  OBVIOUS
<1>1. /\ pc' = FailTo(pc) /\ res' = res \ Undoes(pc) /\ failing' = TRUE
  BY DEF Fail, Goto
<1>2. ~failing
  BY DEF ResSound, Fallible
<1> USE DEF ResSound, May, Undoes, Dark
<1>3. CASE pc \in {"funcs", "blksize", "enable_f1", "clock", "chipid", "f2_blksize"}
  BY <1>1, <1>2, <1>3, FailFacts DEF Early
<1>4. CASE pc \in {"get_fw", "fw", "get_nvram", "nvram", "force_ht", "enable_f2"}
  BY <1>1, <1>2, <1>4, FailFacts DEF Early, Base
<1>5. CASE pc \in {"clm", "clm_status", "mac", "event_msgs"}
  BY <1>1, <1>2, <1>5, FailFacts DEF Early, Base
<1>6. CASE pc \in {"rx_tq", "scan_tq"}
  BY <1>1, <1>2, <1>6, FailFacts DEF Early, Base, Net
<1> QED
  BY <1>3, <1>4, <1>5, <1>6 DEF Fallible

\* What is held follows the steps.
LEMMA ResStep == ResSound /\ [Next]_vars => ResSound'
<1> SUFFICES ASSUME ResSound, [Next]_vars PROVE ResSound'
  OBVIOUS
<1>1. CASE UNCHANGED <<pc, res, failing>>
  BY <1>1 DEF ResSound, May, Dark, Early, Base, Net, Resources
<1>2. CASE Attach
  BY <1>2 DEF Attach, Goto, ResSound, May, Dark, Early, Base, Net, Resources
<1>3. CASE AttachStep
  BY <1>3, DoneFacts DEF AttachStep, Doing
<1>4. CASE AttachFail
  BY <1>4, LabelFacts DEF AttachFail, Fallible
<1>5. CASE Clock
  BY <1>5, DoneFacts, LabelFacts DEF Clock, Doing, Fallible
<1>6. CASE EnableF2
  BY <1>6, DoneFacts, LabelFacts DEF EnableF2, Doing, Fallible
<1>7. CASE ChipId
  BY <1>7, DoneFacts, LabelFacts DEF ChipId, Doing, Fallible
<1>8. CASE Probe
  BY <1>8, DoneFacts DEF Probe, Doing
<1>9. CASE BpDone
  BY <1>9, DoneFacts DEF BpDone, Doing
<1>10. CASE GetFw
  BY <1>10, DoneFacts, LabelFacts DEF GetFw, Doing, Fallible
<1>11. CASE GetNvram
  BY <1>11, DoneFacts, LabelFacts DEF GetNvram, Doing, Fallible
<1>12. CASE Parse
  <2>1. CASE UNCHANGED stepVars
    BY <1>1, <2>1 DEF stepVars
  <2>2. CASE Done
    BY <1>12, <2>2, DoneFacts DEF Parse, Doing
  <2> QED
    BY <1>12, <2>1, <2>2 DEF Parse
<1>13. CASE WriteBlock
  <2>1. CASE UNCHANGED stepVars
    BY <1>1, <2>1 DEF stepVars
  <2>2. CASE Done
    BY <1>13, <2>2, DoneFacts DEF WriteBlock, Doing
  <2> QED
    BY <1>13, <2>1, <2>2 DEF WriteBlock
<1>14. CASE WriteBlockFail
  BY <1>14, LabelFacts DEF WriteBlockFail, Fallible
<1>15. CASE GetClm
  BY <1>15 DEF GetClm, Goto, ResSound, May, Dark, Early, Base, Net, Resources
<1>16. CASE ClmChunk
  <2>1. CASE UNCHANGED stepVars
    BY <1>1, <2>1 DEF stepVars
  <2>2. CASE Done
    BY <1>16, <2>2, DoneFacts DEF ClmChunk, Doing
  <2> QED
    BY <1>16, <2>1, <2>2 DEF ClmChunk
<1>17. CASE ClmFail
  BY <1>17, LabelFacts DEF ClmFail, Fallible
<1>18. CASE ClmStatus
  BY <1>18, DoneFacts, LabelFacts DEF ClmStatus, Doing, Fallible
<1>19. CASE Detach
  BY <1>19 DEF Detach, Goto, ResSound, May, Dark, Early, Base, Net, Resources
<1>20. CASE CfgHandlers
  BY <1>20 DEF CfgHandlers, Release, Goto, ResSound, May, Dark, Early, Base,
    Net, Resources
<1>21. CASE CfgIc
  BY <1>21 DEF CfgIc, Release, Goto, ResSound, May, Dark, Early, Base, Net,
    Resources
<1>22. CASE SdpcmStop
  BY <1>22 DEF SdpcmStop, Release, Goto, ResSound, May, Dark, Early, Base, Net,
    Resources
<1>23. CASE SdioClock
  BY <1>23 DEF SdioClock, Release, Goto, ResSound, May, Dark, Early, Base, Net,
    Resources
<1>24. CASE SdioHalt
  BY <1>24 DEF SdioHalt, Release, Goto, ResSound, May, Dark, Early, Base, Net,
    Resources
<1>25. CASE SdioOff
  BY <1>25 DEF SdioOff, Release, Goto, ResSound, May, Dark, Early, Base, Net,
    Resources
<1>26. CASE Free
  BY <1>26 DEF Free, Release, Goto, ResSound, May, Dark, Early, Base, Net,
    Resources
<1>27. CASE BpAccess \/ BpLost \/ Vap \/ ScanStart \/ ScanTask
            \/ UNCHANGED vars
  <2> SUFFICES UNCHANGED <<pc, res, failing>>
    BY <1>1
  <2> QED
    BY <1>27 DEF BpAccess, BpLost, Vap, ScanStart, ScanTask, vars, stepVars
<1> QED
  BY <1>2, <1>3, <1>4, <1>5, <1>6, <1>7, <1>8, <1>9, <1>10, <1>11, <1>12,
    <1>13, <1>14, <1>15, <1>16, <1>17, <1>18, <1>19, <1>20, <1>21, <1>22,
    <1>23, <1>24, <1>25, <1>26, <1>27 DEF Next, Boot, Undo

\* There is a clock as long as the backplane may be accessed.
LEMMA ClkStep == ClkSound /\ ResSound /\ [Next]_vars => ClkSound'
<1> SUFFICES ASSUME ClkSound, ResSound, [Next]_vars PROVE ClkSound'
  OBVIOUS
<1> USE AfterFacts, FailFacts
<1>1. CASE UNCHANGED <<pc, res, clk>>
  BY <1>1 DEF ClkSound, ResSound, Dark, Undoes
<1>2. CASE Attach
  BY <1>2 DEF Attach, Goto, ClkSound, ResSound, Dark, Undoes
<1>3. CASE AttachStep
  BY <1>3 DEF AttachStep, Done, Goto, ClkSound, ResSound, Dark, Undoes
<1>4. CASE AttachFail
  BY <1>4 DEF AttachFail, Fail, Goto, ClkSound, ResSound, Dark, Undoes
<1>5. CASE Clock
  BY <1>5 DEF Clock, Done, Goto, Fail, ClkSound, ResSound, Dark, Undoes
<1>6. CASE EnableF2
  BY <1>6 DEF EnableF2, Done, Goto, Fail, ClkSound, ResSound, Dark, Undoes
<1>7. CASE ChipId
  BY <1>7 DEF ChipId, Done, Goto, Fail, ClkSound, ResSound, Dark, Undoes
<1>8. CASE Probe
  BY <1>8 DEF Probe, Done, Goto, ClkSound, ResSound, Dark, Undoes
<1>9. CASE BpDone
  BY <1>9 DEF BpDone, Done, Goto, ClkSound, ResSound, Dark, Undoes
<1>10. CASE GetFw
  BY <1>10 DEF GetFw, Done, Goto, Fail, ClkSound, ResSound, Dark, Undoes
<1>11. CASE GetNvram
  BY <1>11 DEF GetNvram, Done, Goto, Fail, ClkSound, ResSound, Dark, Undoes
<1>12. CASE Parse
  BY <1>12 DEF Parse, Done, Goto, stepVars, ClkSound, ResSound, Dark, Undoes
<1>13. CASE WriteBlock
  BY <1>13 DEF WriteBlock, Done, Goto, stepVars, ClkSound, ResSound, Dark,
    Undoes
<1>14. CASE WriteBlockFail
  BY <1>14 DEF WriteBlockFail, Fail, Goto, ClkSound, ResSound, Dark, Undoes
<1>15. CASE GetClm
  BY <1>15 DEF GetClm, Goto, ClkSound, ResSound, Dark, Undoes
<1>16. CASE ClmChunk
  BY <1>16 DEF ClmChunk, Done, Goto, stepVars, ClkSound, ResSound, Dark, Undoes
<1>17. CASE ClmFail
  BY <1>17 DEF ClmFail, Fail, Goto, ClkSound, ResSound, Dark, Undoes
<1>18. CASE ClmStatus
  BY <1>18 DEF ClmStatus, Done, Goto, Fail, ClkSound, ResSound, Dark, Undoes
<1>19. CASE Detach
  BY <1>19 DEF Detach, Goto, ClkSound, ResSound, Dark, Undoes
<1>20. CASE CfgHandlers
  BY <1>20 DEF CfgHandlers, Release, Goto, ClkSound, ResSound, Dark, Undoes
<1>21. CASE CfgIc
  BY <1>21 DEF CfgIc, Release, Goto, ClkSound, ResSound, Dark, Undoes
<1>22. CASE SdpcmStop
  BY <1>22 DEF SdpcmStop, Release, Goto, ClkSound, ResSound, Dark, Undoes
<1>23. CASE SdioClock
  BY <1>23 DEF SdioClock, Release, Goto, ClkSound, ResSound, Dark, Undoes
<1>24. CASE SdioHalt
  BY <1>24 DEF SdioHalt, Release, Goto, ClkSound, ResSound, Dark, Undoes
<1>25. CASE SdioOff
  BY <1>25 DEF SdioOff, Release, Goto, ClkSound, ResSound, Dark, Undoes
<1>26. CASE Free
  BY <1>26 DEF Free, Release, Goto, ClkSound, ResSound, Dark, Undoes
<1>27. CASE BpAccess \/ BpLost \/ Vap \/ ScanStart \/ ScanTask
            \/ UNCHANGED vars
  <2> SUFFICES UNCHANGED <<pc, res, clk>>
    BY <1>1
  <2> QED
    BY <1>27 DEF BpAccess, BpLost, Vap, ScanStart, ScanTask, vars, stepVars
<1> QED
  BY <1>2, <1>3, <1>4, <1>5, <1>6, <1>7, <1>8, <1>9, <1>10, <1>11, <1>12,
    <1>13, <1>14, <1>15, <1>16, <1>17, <1>18, <1>19, <1>20, <1>21, <1>22,
    <1>23, <1>24, <1>25, <1>26, <1>27 DEF Next, Boot, Undo

\* net80211 and its scan are gone with what they use.
LEMMA UserStep == UserSound /\ ResSound /\ [Next]_vars => UserSound'
<1> SUFFICES ASSUME UserSound, ResSound, [Next]_vars PROVE UserSound'
  OBVIOUS
<1>1. CASE UNCHANGED <<res, vap, queued>>
  BY <1>1 DEF UserSound, Undoes
<1>2. CASE Attach
  BY <1>2 DEF Attach, userVars, UserSound, ResSound, May
<1>3. CASE AttachStep
  BY <1>3 DEF AttachStep, Done, userVars, UserSound, Undoes
<1>4. CASE AttachFail
  BY <1>4 DEF AttachFail, Fail, userVars, UserSound, Undoes
<1>5. CASE Clock
  BY <1>5 DEF Clock, Done, Fail, userVars, UserSound, Undoes
<1>6. CASE EnableF2
  BY <1>6 DEF EnableF2, Done, Fail, userVars, UserSound, Undoes
<1>7. CASE ChipId
  BY <1>7 DEF ChipId, Done, Fail, userVars, UserSound, Undoes
<1>8. CASE Probe
  BY <1>8 DEF Probe, Done, userVars, UserSound, Undoes
<1>9. CASE BpDone
  BY <1>9 DEF BpDone, Done, userVars, UserSound, Undoes
<1>10. CASE GetFw
  BY <1>10 DEF GetFw, Done, Fail, userVars, UserSound, Undoes
<1>11. CASE GetNvram
  BY <1>11 DEF GetNvram, Done, Fail, userVars, UserSound, Undoes
<1>12. CASE Parse
  BY <1>12 DEF Parse, Done, userVars, stepVars, UserSound, Undoes
<1>13. CASE WriteBlock
  BY <1>13 DEF WriteBlock, Done, userVars, stepVars, UserSound, Undoes
<1>14. CASE WriteBlockFail
  BY <1>14 DEF WriteBlockFail, Fail, userVars, UserSound, Undoes
<1>15. CASE ClmChunk
  BY <1>15 DEF ClmChunk, Done, userVars, stepVars, UserSound, Undoes
<1>16. CASE ClmFail
  BY <1>16 DEF ClmFail, Fail, userVars, UserSound, Undoes
<1>17. CASE ClmStatus
  BY <1>17 DEF ClmStatus, Done, Fail, userVars, UserSound, Undoes
<1>18. CASE CfgHandlers
  BY <1>18 DEF CfgHandlers, Release, UserSound, Undoes
<1>19. CASE CfgIc
  BY <1>19 DEF CfgIc, Release, UserSound, Undoes
<1>20. CASE SdpcmStop
  BY <1>20 DEF SdpcmStop, Release, UserSound, Undoes
<1>21. CASE SdioClock
  BY <1>21 DEF SdioClock, Release, UserSound, Undoes
<1>22. CASE SdioHalt
  BY <1>22 DEF SdioHalt, Release, UserSound, Undoes
<1>23. CASE SdioOff
  BY <1>23 DEF SdioOff, Release, UserSound, Undoes
<1>24. CASE Free
  BY <1>24 DEF Free, Release, UserSound, Undoes
<1>25. CASE Vap
  BY <1>25 DEF Vap, stepVars, UserSound, Undoes
<1>26. CASE ScanStart
  BY <1>26 DEF ScanStart, stepVars, UserSound, Undoes
<1>27. CASE ScanTask
  BY <1>27 DEF ScanTask, stepVars, UserSound, Undoes
<1>28. CASE BpAccess \/ BpLost \/ GetClm \/ Detach \/ UNCHANGED vars
  <2> SUFFICES UNCHANGED <<res, vap, queued>>
    BY <1>1
  <2> QED
    BY <1>28 DEF BpAccess, BpLost, GetClm, Detach, vars, userVars, stepVars
<1> QED
  BY <1>2, <1>3, <1>4, <1>5, <1>6, <1>7, <1>8, <1>9, <1>10, <1>11, <1>12,
    <1>13, <1>14, <1>15, <1>16, <1>17, <1>18, <1>19, <1>20, <1>21, <1>22,
    <1>23, <1>24, <1>25, <1>26, <1>27, <1>28 DEF Next, Boot, Undo

-----------------------------------------------------------------------------
(* The CLM blob.                                                           *)

\* A chunk that arrives: with the last one the copy is whole, and with every other
\* one it is open and as long as what was sent.
LEMMA ChunkFacts ==
  ASSUME ClmTypes, ClmSound, FlagTypes, pc = "clm"
  PROVE  /\ ClmLen \in Nat
         /\ cumulative + ClmLen <= blob
         /\ cumulative + ClmLen < blob <=> ~ClmEnd
         /\ Receive => /\ clm' \in [open : BOOLEAN, len : Nat, whole : BOOLEAN]
                       /\ clm'.len = cumulative + ClmLen
                       /\ clm'.open <=> ~ClmEnd
                       /\ ClmEnd => clm'.whole
<1>1. /\ blob \in Nat /\ cumulative \in Nat /\ cumulative <= blob
      /\ ChunkLen \in Nat \ {0}
  BY BootAssumption DEF ClmTypes, ClmSound
<1>2. /\ ClmEnd \in BOOLEAN /\ ClmLen \in Nat /\ cumulative + ClmLen <= blob
      /\ cumulative + ClmLen < blob <=> ~ClmEnd
  BY <1>1 DEF ClmLen, ClmEnd
<1>3. /\ begin => cumulative = 0
      /\ ~begin => clm.open /\ clm.len = cumulative
      /\ begin \in BOOLEAN
  BY DEF ClmSound, FlagTypes
<1>4. ASSUME Receive
      PROVE  /\ clm' \in [open : BOOLEAN, len : Nat, whole : BOOLEAN]
             /\ clm'.len = cumulative + ClmLen
             /\ clm'.open <=> ~ClmEnd
             /\ ClmEnd => clm'.whole
  <2> DEFINE n == IF begin THEN ClmLen ELSE clm.len + ClmLen
             o == ~ClmEnd
             h == ClmEnd /\ (begin \/ clm.open)
  <2>1. n = cumulative + ClmLen
    BY <1>1, <1>2, <1>3
  <2>2. n \in Nat /\ o \in BOOLEAN /\ h \in BOOLEAN
    BY <1>1, <1>2, <2>1
  <2>3. ClmEnd => h
    BY <1>3
  <2>4. clm' = [open |-> o, len |-> n, whole |-> h]
    BY <1>4 DEF Receive
  <2> HIDE DEF n, h
  <2> QED
    BY <2>1, <2>2, <2>3, <2>4
<1> QED
  BY <1>2, <1>4

\* The blob and the firmware's copy have their types.
LEMMA ClmTypeStep == ClmTypes /\ ClmSound /\ FlagTypes /\ [Next]_vars => ClmTypes'
<1> SUFFICES ASSUME ClmTypes, ClmSound, FlagTypes, [Next]_vars PROVE ClmTypes'
  OBVIOUS
<1>1. CASE UNCHANGED <<blob, cumulative, clm>>
  BY <1>1 DEF ClmTypes
<1>2. CASE Attach
  BY <1>2 DEF Attach, ClmTypes
<1>3. CASE GetClm
  BY <1>3 DEF GetClm, ClmTypes
<1>4. CASE ClmChunk
  BY <1>4, ChunkFacts DEF ClmChunk, ClmTypes
<1>5. CASE ClmFail
  BY <1>5, ChunkFacts DEF ClmFail, ClmTypes
<1>6. CASE AttachStep \/ AttachFail \/ Clock \/ EnableF2 \/ BpAccess
            \/ BpLost \/ ChipId \/ Probe \/ BpDone \/ GetFw \/ GetNvram
            \/ Parse
  <2> SUFFICES UNCHANGED <<blob, cumulative, clm>>
    BY <1>1
  <2> QED
    BY <1>6 DEF AttachStep, AttachFail, Clock, EnableF2, BpAccess, BpLost,
      ChipId, Probe, BpDone, GetFw, GetNvram, Parse, clmVars
<1>7. CASE WriteBlock \/ WriteBlockFail \/ ClmStatus \/ Detach
            \/ CfgHandlers \/ CfgIc \/ SdpcmStop \/ SdioClock \/ SdioHalt
            \/ SdioOff \/ Free \/ Vap
  <2> SUFFICES UNCHANGED <<blob, cumulative, clm>>
    BY <1>1
  <2> QED
    BY <1>7 DEF WriteBlock, WriteBlockFail, ClmStatus, Detach, CfgHandlers,
      CfgIc, SdpcmStop, SdioClock, SdioHalt, SdioOff, Free, Vap, clmVars,
      Release
<1>8. CASE ScanStart \/ ScanTask \/ UNCHANGED vars
  <2> SUFFICES UNCHANGED <<blob, cumulative, clm>>
    BY <1>1
  <2> QED
    BY <1>8 DEF ScanStart, ScanTask, vars, clmVars
<1> QED
  BY <1>2, <1>3, <1>4, <1>5, <1>6, <1>7, <1>8 DEF Next, Boot, Undo

\* The firmware has what was sent, chunk by chunk.
LEMMA ClmStep == ClmTypes /\ ClmSound /\ FlagTypes /\ [Next]_vars => ClmSound'
<1> SUFFICES ASSUME ClmTypes, ClmSound, FlagTypes, [Next]_vars PROVE ClmSound'
  OBVIOUS
<1> USE AfterFacts, FailFacts
<1>1. CASE UNCHANGED <<pc, blob, cumulative, begin, clm>>
  BY <1>1 DEF ClmSound, ClmWhole
<1>2. CASE Attach
  BY <1>2 DEF Attach, Goto, ClmSound, ClmWhole
<1>3. CASE AttachStep
  BY <1>3 DEF AttachStep, Done, Goto, clmVars, ClmSound, ClmWhole
<1>4. CASE AttachFail
  BY <1>4 DEF AttachFail, Fail, Goto, clmVars, ClmSound, ClmWhole
<1>5. CASE Clock
  BY <1>5 DEF Clock, Done, Goto, Fail, clmVars, ClmSound, ClmWhole
<1>6. CASE EnableF2
  BY <1>6 DEF EnableF2, Done, Goto, Fail, clmVars, ClmSound, ClmWhole
<1>7. CASE ChipId
  BY <1>7 DEF ChipId, Done, Goto, Fail, clmVars, ClmSound, ClmWhole
<1>8. CASE Probe
  BY <1>8 DEF Probe, Done, Goto, clmVars, ClmSound, ClmWhole
<1>9. CASE BpDone
  BY <1>9 DEF BpDone, Done, Goto, clmVars, ClmSound, ClmWhole
<1>10. CASE GetFw
  BY <1>10 DEF GetFw, Done, Goto, Fail, clmVars, ClmSound, ClmWhole
<1>11. CASE GetNvram
  BY <1>11 DEF GetNvram, Done, Goto, Fail, clmVars, ClmSound, ClmWhole
<1>12. CASE Parse
  BY <1>12 DEF Parse, Done, Goto, clmVars, stepVars, ClmSound, ClmWhole
<1>13. CASE WriteBlock
  BY <1>13 DEF WriteBlock, Done, Goto, clmVars, stepVars, ClmSound, ClmWhole
<1>14. CASE WriteBlockFail
  BY <1>14 DEF WriteBlockFail, Fail, Goto, clmVars, ClmSound, ClmWhole
<1>15. CASE GetClm
  BY <1>15, BootAssumption DEF GetClm, Goto, ClmSound, ClmWhole
<1>16. CASE ClmChunk
  <2>1. /\ pc = "clm" /\ Receive /\ begin' = FALSE /\ blob' = blob
        /\ cumulative' = cumulative + ClmLen
    BY <1>16 DEF ClmChunk
  <2>2. blob \in Nat /\ cumulative \in Nat
    BY <2>1, BootAssumption DEF ClmTypes, ClmSound
  <2>3. CASE ClmEnd
    <3>1. cumulative' = blob
      BY <2>1, <2>2, <2>3, ChunkFacts
    <3>2. pc' = "clm_status"
      BY <1>16, <2>1, <2>2, <3>1 DEF ClmChunk, Done, Goto
    <3> QED
      BY <2>1, <2>3, <3>1, <3>2, ChunkFacts DEF ClmSound, ClmWhole
  <2>4. CASE ~ClmEnd
    <3>1. cumulative' < blob
      BY <2>1, <2>4, ChunkFacts
    <3>2. pc' = "clm"
      BY <1>16, <2>1, <3>1 DEF ClmChunk, stepVars
    <3> QED
      BY <2>1, <2>2, <2>4, <3>1, <3>2, ChunkFacts DEF ClmSound, ClmWhole
  <2> QED
    BY <2>3, <2>4
<1>17. CASE ClmFail
  BY <1>17 DEF ClmFail, Fail, Goto, Receive, ClmSound, ClmWhole
<1>18. CASE ClmStatus
  BY <1>18 DEF ClmStatus, Done, Goto, Fail, clmVars, ClmSound, ClmWhole
<1>19. CASE Detach
  BY <1>19 DEF Detach, Goto, clmVars, ClmSound, ClmWhole
<1>20. CASE CfgHandlers
  BY <1>20 DEF CfgHandlers, Release, Goto, clmVars, ClmSound, ClmWhole
<1>21. CASE CfgIc
  BY <1>21 DEF CfgIc, Release, Goto, clmVars, ClmSound, ClmWhole
<1>22. CASE SdpcmStop
  BY <1>22 DEF SdpcmStop, Release, Goto, clmVars, ClmSound, ClmWhole
<1>23. CASE SdioClock
  BY <1>23 DEF SdioClock, Release, Goto, clmVars, ClmSound, ClmWhole
<1>24. CASE SdioHalt
  BY <1>24 DEF SdioHalt, Release, Goto, clmVars, ClmSound, ClmWhole
<1>25. CASE SdioOff
  BY <1>25 DEF SdioOff, Release, Goto, clmVars, ClmSound, ClmWhole
<1>26. CASE Free
  BY <1>26 DEF Free, Release, Goto, clmVars, ClmSound, ClmWhole
<1>27. CASE BpAccess \/ BpLost \/ Vap \/ ScanStart \/ ScanTask
            \/ UNCHANGED vars
  <2> SUFFICES UNCHANGED <<pc, blob, cumulative, begin, clm>>
    BY <1>1
  <2> QED
    BY <1>27 DEF BpAccess, BpLost, Vap, ScanStart, ScanTask, vars, clmVars,
      stepVars
<1> QED
  BY <1>2, <1>3, <1>4, <1>5, <1>6, <1>7, <1>8, <1>9, <1>10, <1>11, <1>12,
    <1>13, <1>14, <1>15, <1>16, <1>17, <1>18, <1>19, <1>20, <1>21, <1>22,
    <1>23, <1>24, <1>25, <1>26, <1>27 DEF Next, Boot, Undo

-----------------------------------------------------------------------------
(* The ARM.                                                                *)

\* The ARM runs only where it may.
LEMMA HaltStep ==
  /\ HaltSound /\ OpsSound /\ WindowSound /\ ResSound /\ ArmTypes /\ ImageTypes
  /\ [Next]_vars
  => HaltSound'
<1> SUFFICES ASSUME HaltSound, OpsSound, WindowSound, ResSound, ArmTypes,
                    ImageTypes, [Next]_vars
             PROVE  HaltSound'
  OBVIOUS
<1> USE AfterFacts, FailFacts
<1>1. CASE UNCHANGED <<pc, todo, torn, errors, arm>>
  BY <1>1 DEF HaltSound, Live, Halting, Running
<1>2. CASE Attach
  BY <1>2 DEF Attach, Goto, HaltSound, Live, Halting, Running
<1>3. CASE AttachStep
  <2>1. /\ pc' = After(pc) /\ todo' = Accesses(After(pc))
        /\ UNCHANGED <<torn, errors, arm>>
    BY <1>3 DEF AttachStep, Done, Goto, winVars, chipVars
  <2>2. Running' = Running
    BY <2>1 DEF Running
  <2>3. CASE pc \in {"funcs", "sysctl", "blksize", "enable_f1"}
    BY <2>1, <2>2, <2>3 DEF HaltSound, Live, Halting
  <2>4. CASE pc = "f2_blksize"
    <3>1. pc' = "halt" /\ Len(todo') = 8
      BY <2>1, <2>4, AccessFacts DEF Halting
    <3> QED
      BY <2>1, <2>2, <2>4, <3>1 DEF HaltSound, Live
  <2>5. CASE pc \in {"mac", "ifattach", "event_msgs", "handlers", "callbacks",
                    "cv", "rx_tq", "scan_tq", "start"}
    BY <2>1, <2>5 DEF HaltSound, Live, Halting
  <2> QED
    BY <1>3, <2>3, <2>4, <2>5 DEF AttachStep
<1>4. CASE AttachFail
  BY <1>4 DEF AttachFail, Fail, Goto, winVars, chipVars, HaltSound, Live,
    Halting, Running
<1>5. CASE Clock
  BY <1>5 DEF Clock, Done, Goto, Fail, winVars, chipVars, HaltSound, Live,
    Halting, Running
<1>6. CASE EnableF2
  BY <1>6 DEF EnableF2, Done, Goto, Fail, winVars, chipVars, HaltSound, Live,
    Halting, Running
<1>7. CASE BpAccess
  <2> DEFINE op == Head(todo)
  <2> SUFFICES ASSUME errors = 0 PROVE HaltSound'
    BY <1>7 DEF BpAccess, HaltSound
  <2>1. /\ todo # << >> /\ todo' = Tail(todo) /\ pc' = pc /\ errors' = errors
        /\ torn' => torn
        /\ Effect(op) \/ (UNCHANGED arm /\ astray')
    BY <1>7 DEF BpAccess, SetWindow
  <2>2. astray' => torn'
    <3>1. [Next]_vars /\ WindowSound /\ OpsSound => WindowSound'
      BY WindowStep
    <3> QED
      BY <3>1 DEF WindowSound, NeverAstray
  <2>3. /\ Len(todo) \in Nat \ {0} /\ op = todo[1] /\ Len(todo') = Len(todo) - 1
        /\ pc \in Accessing
    BY <2>1, HeadFacts DEF OpsSound
  <2> HIDE DEF op
  <2>4. /\ op.reg # "none" => pc \in Halting \union {"release"}
        /\ pc \in Halting =>
             /\ op.reg = "ioctl" => "CPUHALT" \in op.bits
             /\ op.reg = "reset_ctl" => Len(todo) - 1 < 3
             /\ Len(todo) - 1 = 3 => op.reg = "ioctl"
    <3>1. 1 \in 1 .. Len(todo)
      BY <2>3
    <3> QED
      BY <2>3, <3>1 DEF OpsSound, Ordered
  <2>5. \/ /\ arm'.ioctl = IF op.reg = "ioctl" THEN op.bits ELSE arm.ioctl
           /\ arm'.reset_ctl = IF op.reg = "reset_ctl" THEN op.bits
                                                      ELSE arm.reset_ctl
        \/ UNCHANGED arm /\ torn
    BY <2>1, <2>2, EffectFacts
  <2>6. CASE pc \in Halting
    <3>1. "CPUHALT" \in arm.ioctl => "CPUHALT" \in arm'.ioctl
      BY <2>4, <2>5, <2>6
    <3>2. Len(todo') <= 3 => "CPUHALT" \in arm'.ioctl
      <4>1. CASE Len(todo) <= 3
        BY <2>6, <3>1, <4>1 DEF HaltSound
      <4>2. CASE Len(todo) = 4
        BY <2>4, <2>5, <2>6, <3>1, <4>2 DEF HaltSound, Halting
      <4> QED
        BY <2>3, <4>1, <4>2
    <3>3. torn' => pc = "sdio_halt" /\ "CPUHALT" \in arm'.ioctl
      BY <2>1, <2>6, <3>1 DEF HaltSound, Halting
    <3>4. pc = "halt" => ~Running'
      <4>1. CASE Len(todo') <= 3
        BY <3>2, <4>1 DEF Running
      <4>2. CASE ~(Len(todo') <= 3) /\ pc = "halt"
        <5>1. op.reg # "reset_ctl"
          BY <2>3, <2>4, <2>6, <4>2
        <5>2. ~Running
          BY <4>2 DEF HaltSound, Live
        <5> QED
          BY <2>4, <2>5, <2>6, <5>1, <5>2 DEF Running
      <4> QED
        BY <4>1, <4>2
    <3> QED
      BY <2>1, <2>6, <3>2, <3>3, <3>4 DEF HaltSound, Halting, Live
  <2>7. CASE pc \notin Halting
    <3>1. ~torn /\ ~torn'
      BY <2>1, <2>3, <2>7 DEF HaltSound, Accessing, Halting
    <3>2. pc # "release" => Running' = Running
      BY <2>4, <2>5, <2>7, <3>1 DEF Running
    <3> QED
      BY <2>1, <2>3, <2>7, <3>1, <3>2 DEF HaltSound, Accessing, Live
  <2> QED
    BY <2>6, <2>7
<1>8. CASE BpLost
  BY <1>8 DEF BpLost, ImageTypes, HaltSound
<1>9. CASE ChipId
  BY <1>9 DEF ChipId, Done, Goto, Fail, winVars, chipVars, HaltSound, Live,
    Halting, Running
<1>10. CASE Probe
  BY <1>10 DEF Probe, Done, Goto, winVars, chipVars, HaltSound, Live, Halting,
    Running
<1>11. CASE BpDone
  BY <1>11 DEF BpDone, Done, Goto, winVars, chipVars, HaltSound, Live, Halting,
    Running
<1>12. CASE GetFw
  BY <1>12 DEF GetFw, Done, Goto, Fail, winVars, chipVars, HaltSound, Live,
    Halting, Running
<1>13. CASE GetNvram
  BY <1>13 DEF GetNvram, Done, Goto, Fail, winVars, chipVars, HaltSound, Live,
    Halting, Running
<1>14. CASE Parse
  BY <1>14 DEF Parse, Done, Goto, winVars, chipVars, stepVars, HaltSound, Live,
    Halting, Running
<1>15. CASE WriteBlock
  BY <1>15 DEF WriteBlock, Done, Goto, SetWindow, stepVars, HaltSound, Live,
    Halting, Running
<1>16. CASE WriteBlockFail
  BY <1>16 DEF WriteBlockFail, Fail, Goto, SetWindow, SetWindowFails, chipVars,
    HaltSound, Live, Halting, Running
<1>17. CASE GetClm
  BY <1>17 DEF GetClm, Goto, winVars, chipVars, HaltSound, Live, Halting,
    Running
<1>18. CASE ClmChunk
  BY <1>18 DEF ClmChunk, Done, Goto, winVars, chipVars, stepVars, HaltSound,
    Live, Halting, Running
<1>19. CASE ClmFail
  BY <1>19 DEF ClmFail, Fail, Goto, winVars, chipVars, HaltSound, Live,
    Halting, Running
<1>20. CASE ClmStatus
  BY <1>20 DEF ClmStatus, Done, Goto, Fail, winVars, chipVars, HaltSound, Live,
    Halting, Running
<1>21. CASE Detach
  BY <1>21 DEF Detach, Goto, winVars, chipVars, HaltSound, Live, Halting,
    Running
<1>22. CASE CfgHandlers
  BY <1>22 DEF CfgHandlers, Release, Goto, winVars, chipVars, HaltSound, Live,
    Halting, Running
<1>23. CASE CfgIc
  BY <1>23 DEF CfgIc, Release, Goto, winVars, chipVars, HaltSound, Live,
    Halting, Running
<1>24. CASE SdpcmStop
  BY <1>24 DEF SdpcmStop, Release, Goto, winVars, chipVars, HaltSound, Live,
    Halting, Running
<1>25. CASE SdioClock
  <2>1. /\ pc = "sdio_clock" /\ "sdio_attached" \in res
    BY <1>25 DEF SdioClock, Release, ResSound, Dark
  <2>2. /\ pc' = "sdio_halt" /\ todo' = Accesses("sdio_halt")
        /\ UNCHANGED <<torn, errors, arm>>
    BY <1>25, <2>1 DEF SdioClock, Release, Goto, winVars, chipVars
  <2>3. Len(todo') = 8
    BY <2>2, AccessFacts DEF Halting
  <2>4. torn /\ errors = 0 => "CPUHALT" \in arm.ioctl
    BY <2>1 DEF HaltSound
  <2>5. "sdio_halt" \in Live
    BY DEF Live
  <2>6. ~(Len(todo') <= 3)
    BY <2>3
  <2>7. /\ pc' = "sdio_halt" /\ UNCHANGED <<torn, errors, arm>>
    BY <2>2
  <2> QED
    BY <2>4, <2>5, <2>6, <2>7 DEF HaltSound
<1>26. CASE SdioHalt
  BY <1>26 DEF SdioHalt, Release, Goto, winVars, chipVars, HaltSound, Live,
    Halting, Running
<1>27. CASE SdioOff
  BY <1>27 DEF SdioOff, Release, Goto, winVars, chipVars, HaltSound, Live,
    Halting, Running
<1>28. CASE Free
  BY <1>28 DEF Free, Release, Goto, winVars, chipVars, HaltSound, Live,
    Halting, Running
<1>29. CASE Vap \/ ScanStart \/ ScanTask \/ UNCHANGED vars
  <2> SUFFICES UNCHANGED <<pc, todo, torn, errors, arm>>
    BY <1>1
  <2> QED
    BY <1>29 DEF Vap, ScanStart, ScanTask, vars, winVars, chipVars, stepVars
<1> QED
  BY <1>2, <1>3, <1>4, <1>5, <1>6, <1>7, <1>8, <1>9, <1>10, <1>11, <1>12,
    <1>13, <1>14, <1>15, <1>16, <1>17, <1>18, <1>19, <1>20, <1>21, <1>22,
    <1>23, <1>24, <1>25, <1>26, <1>27, <1>28, <1>29 DEF Next, Boot, Undo

-----------------------------------------------------------------------------
(* The images.                                                             *)

\* A piece of an image ends where the image does, or before.
LEMMA ChunkBounds ==
  ASSUME ImageTypes, RamSound, pc \in {"fw", "nvram"}
  PROVE  /\ Chunk \in Nat
         /\ done + Chunk <= Total
<1>1. Start \in Int /\ Total \in Nat /\ done \in Nat
  BY StartFacts
<1>2. done <= Total
  BY DEF RamSound, Total
<1> DEFINE rest == WinSize - ((Start + done) % WinSize)
<1>3. rest \in Nat
  BY <1>1, BootAssumption
<1>4. Chunk = IF Total - done < rest THEN Total - done ELSE rest
  BY DEF Chunk
<1> HIDE DEF rest
<1> QED
  BY <1>1, <1>2, <1>3, <1>4

\* The images, the errors and the RAM have their types.
LEMMA ImageStep == ImageTypes /\ RamSound /\ NvInv /\ [Next]_vars => ImageTypes'
<1> SUFFICES ASSUME ImageTypes, RamSound, NvInv, [Next]_vars PROVE ImageTypes'
  OBVIOUS
<1>1. CASE UNCHANGED <<clk, errors, ram, ram_size, fw_size, nvlen, done>>
  BY <1>1 DEF ImageTypes
<1>2. CASE Attach
  BY <1>2 DEF Attach, ImageTypes
<1>3. CASE Clock
  BY <1>3 DEF Clock, winVars, chipVars, imgVars, ImageTypes
<1>4. CASE BpLost
  BY <1>4, BootAssumption DEF BpLost, chipVars, imgVars, ImageTypes
<1>5. CASE Probe
  BY <1>5 DEF Probe, BankSum, winVars, chipVars, ImageTypes
<1>6. CASE GetFw
  BY <1>6 DEF GetFw, winVars, chipVars, ImageTypes
<1>7. CASE Parse
  <2>1. NvInv'
    BY ParseStep
  <2>2. Len(buf') + 4 \in Nat
    BY <2>1 DEF NvInv, NvTypeOK
  <2> QED
    BY <1>7, <2>2 DEF Parse, winVars, chipVars, ImageTypes
<1>8. CASE WriteBlock
  <2>1. done' \in Nat
    BY <1>8, ChunkBounds, StartFacts DEF WriteBlock
  <2>2. ram' \in [0 .. (2 * RamSize - 1) -> {"old", "fw", "nvram"}]
    BY <1>8 DEF WriteBlock, ImageTypes
  <2> QED
    BY <1>8, <2>1, <2>2 DEF WriteBlock, ImageTypes
<1>9. CASE SdioClock
  BY <1>9 DEF SdioClock, Release, winVars, chipVars, imgVars, ImageTypes
<1>10. CASE SdioOff
  BY <1>10 DEF SdioOff, Release, winVars, chipVars, imgVars, ImageTypes
<1>11. CASE AttachStep \/ AttachFail \/ EnableF2 \/ BpAccess \/ ChipId
            \/ BpDone \/ GetNvram \/ WriteBlockFail \/ GetClm \/ ClmChunk
            \/ ClmFail \/ ClmStatus
  <2> SUFFICES UNCHANGED <<clk, errors, ram, ram_size, fw_size, nvlen, done>>
    BY <1>1
  <2> QED
    BY <1>11 DEF AttachStep, AttachFail, EnableF2, BpAccess, ChipId, BpDone,
      GetNvram, WriteBlockFail, GetClm, ClmChunk, ClmFail, ClmStatus, winVars,
      chipVars, imgVars
<1>12. CASE Detach \/ CfgHandlers \/ CfgIc \/ SdpcmStop \/ SdioHalt
            \/ Free \/ Vap \/ ScanStart \/ ScanTask \/ UNCHANGED vars
  <2> SUFFICES UNCHANGED <<clk, errors, ram, ram_size, fw_size, nvlen, done>>
    BY <1>1
  <2> QED
    BY <1>12 DEF Detach, CfgHandlers, CfgIc, SdpcmStop, SdioHalt, Free, Vap,
      ScanStart, ScanTask, vars, winVars, chipVars, imgVars, Release
<1> QED
  BY <1>2, <1>3, <1>4, <1>5, <1>6, <1>7, <1>8, <1>9, <1>10, <1>11, <1>12 DEF
    Next, Boot, Undo

\* As long as no error was swallowed, no access of cyw_attach goes astray.
LEMMA OnTarget ==
  ASSUME HaltSound, NeverAstray', errors = 0, NEW w, SetWindow(w),
         pc \in {"fw", "nvram", "release"}
  PROVE  ~astray'
<1>1. ~torn
  BY DEF HaltSound
<1>2. ~torn'
  BY <1>1 DEF SetWindow
<1> QED
  BY <1>2 DEF NeverAstray

\* The RAM holds what was written to it.
LEMMA RamStep ==
  /\ RamSound /\ ImageTypes /\ HaltSound /\ WindowSound /\ OpsSound /\ NvInv
  /\ [Next]_vars
  => RamSound'
<1> SUFFICES ASSUME RamSound, ImageTypes, HaltSound, WindowSound, OpsSound,
                    NvInv, [Next]_vars
             PROVE  RamSound'
  OBVIOUS
<1> USE AfterFacts, FailFacts
<1>1. CASE UNCHANGED <<pc, misread, errors, ram, ram_size, fw_size, nvlen, done>>
  BY <1>1 DEF RamSound, RamIs, ImagesInRam
<1>2. CASE Attach
  <2>1. \A a \in 0 .. (RamSize - 1) : ram'[a] = "old"
    BY <1>2, BootAssumption DEF Attach, ImageTypes
  <2>2. \A a \in 0 .. (RamSize - 1) : ~(a < 0)
    BY BootAssumption
  <2>3. RamIs(0, 0, 0)'
    BY <2>1, <2>2 DEF RamIs
  <2> QED
    BY <1>2, <2>3 DEF Attach, Goto, RamSound
<1>3. CASE AttachStep
  BY <1>3 DEF AttachStep, Done, Goto, winVars, chipVars, imgVars, RamSound,
    RamIs, ImagesInRam
<1>4. CASE AttachFail
  BY <1>4 DEF AttachFail, Fail, Goto, winVars, chipVars, imgVars, RamSound,
    RamIs, ImagesInRam
<1>5. CASE Clock
  BY <1>5 DEF Clock, Done, Goto, Fail, winVars, chipVars, imgVars, RamSound,
    RamIs, ImagesInRam
<1>6. CASE EnableF2
  BY <1>6 DEF EnableF2, Done, Goto, Fail, winVars, chipVars, imgVars, RamSound,
    RamIs, ImagesInRam
<1>7. CASE BpLost
  BY <1>7 DEF BpLost, imgVars, ImageTypes, RamSound
<1>8. CASE ChipId
  BY <1>8 DEF ChipId, Done, Goto, Fail, winVars, chipVars, imgVars, RamSound,
    RamIs, ImagesInRam
<1>9. CASE Probe
  BY <1>9 DEF Probe, Done, Goto, BankSum, winVars, chipVars, RamSound, RamIs,
    ImagesInRam
<1>10. CASE BpDone
  BY <1>10 DEF BpDone, Done, Goto, winVars, chipVars, imgVars, RamSound, RamIs,
    ImagesInRam
<1>11. CASE GetFw
  <2>1. fw_size' \in Nat /\ done' = 0
    BY <1>11, BootAssumption DEF GetFw
  <2>2. CASE Done
    <3>1. pc' = "fw" /\ misread' = FALSE
      BY <1>11, <2>2 DEF GetFw, Done, Goto
    <3>2. UNCHANGED <<ram, ram_size, errors>> /\ pc = "get_fw"
      BY <1>11 DEF GetFw, winVars, chipVars
    <3> QED
      BY <2>1, <3>1, <3>2 DEF RamSound, RamIs
  <2>3. CASE Fail
    <3>1. pc' = "sdio_clock" /\ misread' = FALSE
      BY <1>11, <2>3 DEF GetFw, Fail, Goto
    <3> QED
      BY <3>1 DEF RamSound
  <2> QED
    BY <1>11, <2>2, <2>3 DEF GetFw
<1>12. CASE GetNvram
  BY <1>12 DEF GetNvram, Done, Goto, Fail, winVars, chipVars, imgVars,
    RamSound, RamIs, ImagesInRam
<1>13. CASE Parse
  <2>1. CASE NvChar /\ UNCHANGED <<stepVars, done, nvlen>>
    <3>1. UNCHANGED <<pc, misread, errors, ram_size, fw_size, nvlen, done, ram>>
      BY <1>13, <2>1 DEF Parse, stepVars, winVars, chipVars
    <3> QED
      BY <1>1, <3>1
  <2>2. CASE Done /\ done' = 0 /\ nvlen' = Len(buf') + 4
    <3>1. /\ pc' = "nvram" /\ misread' = FALSE /\ done' = 0 /\ pc = "parse"
          /\ UNCHANGED <<ram, ram_size, fw_size, errors>>
      BY <1>13, <2>2 DEF Parse, Done, Goto, winVars, chipVars
    <3>2. nvlen' \in Nat
      BY <1>13, ImageStep DEF ImageTypes
    <3>3. ASSUME errors = 0
          PROVE  RamIs(fw_size, RamSize - nvlen, RamSize - nvlen + done)'
      <4> DEFINE lo == RamSize - nvlen'
      <4>1. \A a \in 0 .. (RamSize - 1) : ~(a >= lo /\ a < lo + 0)
        <5>1. lo \in Int
          BY <3>2, BootAssumption
        <5> HIDE DEF lo
        <5> QED
          BY <5>1, BootAssumption
      <4>2. RamIs(fw_size, 0, 0)
        BY <3>1, <3>3 DEF RamSound
      <4>3. \A a \in 0 .. (RamSize - 1) : ~(a < 0)
        BY BootAssumption
      <4> QED
        BY <3>1, <4>1, <4>2, <4>3 DEF RamIs
    <3> QED
      BY <3>1, <3>2, <3>3 DEF RamSound
  <2> QED
    BY <1>13, <2>1, <2>2 DEF Parse
<1>14. CASE WriteBlock
  <2>1. /\ pc \in {"fw", "nvram"} /\ done' = done + Chunk
        /\ UNCHANGED <<errors, ram_size, fw_size, nvlen>>
        /\ ram' = [a \in DOMAIN ram |->
               IF ~astray' /\ a \in (Start + done) .. (Start + done + Chunk - 1)
               THEN pc ELSE ram[a]]
    BY <1>14 DEF WriteBlock
  <2>2. /\ Chunk \in Nat /\ done + Chunk <= Total /\ done \in Nat /\ Start \in Int
        /\ fw_size \in Nat /\ nvlen \in Nat /\ RamSize \in Nat
        /\ DOMAIN ram = 0 .. (2 * RamSize - 1)
    BY <2>1, ChunkBounds, StartFacts, BootAssumption DEF ImageTypes
  <2>3. errors = 0 => ~astray'
    BY <1>14, OnTarget, WindowStep DEF WriteBlock, WindowSound
  <2>4. ASSUME errors = 0, NEW a \in 0 .. (RamSize - 1)
        PROVE  ram'[a] = IF a >= Start + done /\ a < Start + done + Chunk
                         THEN pc ELSE ram[a]
    <3>1. a \in DOMAIN ram
      BY <2>2
    <3>2. a \in (Start + done) .. (Start + done + Chunk - 1)
            <=> a >= Start + done /\ a < Start + done + Chunk
      BY <2>2
    <3> QED
      BY <2>1, <2>3, <2>4, <3>1, <3>2
  <2>5. \/ done' = Total /\ pc' = After(pc) /\ misread' = FALSE
        \/ done' # Total /\ pc' = pc /\ misread' = misread
    BY <1>14 DEF WriteBlock, Done, Goto, stepVars
  <2>6. CASE pc = "fw"
    <3>1. Start = 0 /\ Total = fw_size
      BY <2>6 DEF Start, Total
    <3>2. errors = 0 => RamIs(done, 0, 0)
      BY <2>6 DEF RamSound
    <3>3. ASSUME errors = 0, NEW a \in 0 .. (RamSize - 1)
          PROVE  ram'[a] = IF a < done + Chunk THEN "fw" ELSE "old"
      <4>1. ram[a] = IF a < done THEN "fw" ELSE "old"
        BY <2>2, <3>2, <3>3 DEF RamIs
      <4> QED
        BY <2>2, <2>4, <2>6, <3>1, <3>3, <4>1
    <3>4. errors = 0 => RamIs(done, 0, 0)'
      <4>1. \A a \in 0 .. (RamSize - 1) : ~(a < 0)
        BY <2>2
      <4> QED
        BY <2>1, <3>3, <4>1 DEF RamIs
    <3> QED
      BY <2>1, <2>2, <2>5, <2>6, <3>1, <3>4 DEF RamSound
  <2>7. CASE pc = "nvram"
    <3>1. Start = ram_size - nvlen /\ Total = nvlen
      BY <2>7 DEF Start, Total
    <3>2. errors = 0 => ram_size = RamSize
      BY <2>7 DEF RamSound
    <3>3. ASSUME errors = 0, fw_size + nvlen <= RamSize, NEW a \in 0 .. (RamSize - 1)
          PROVE  ram'[a] = CASE a < fw_size -> "fw"
                             [] a >= RamSize - nvlen
                                /\ a < RamSize - nvlen + (done + Chunk) -> "nvram"
                             [] OTHER -> "old"
      <4>1. ram[a] = CASE a < fw_size -> "fw"
                       [] a >= RamSize - nvlen /\ a < RamSize - nvlen + done
                            -> "nvram"
                       [] OTHER -> "old"
        BY <2>7, <3>3 DEF RamSound, RamIs
      <4>2. ram'[a] = IF a >= RamSize - nvlen + done
                         /\ a < RamSize - nvlen + done + Chunk
                      THEN "nvram" ELSE ram[a]
        BY <2>4, <2>7, <3>1, <3>2, <3>3
      <4> QED
        BY <2>2, <3>3, <4>1, <4>2, SMTT(30)
    <3>4. errors = 0 /\ fw_size + nvlen <= RamSize
            => RamIs(fw_size, RamSize - nvlen, RamSize - nvlen + done)'
      BY <2>1, <3>3 DEF RamIs
    <3>5. CASE pc' = "nvram"
      BY <2>1, <2>2, <2>5, <2>7, <3>1, <3>2, <3>4, <3>5 DEF RamSound
    <3>6. CASE pc' = "release" /\ done' = nvlen
      <4>1. errors = 0 => ImagesInRam'
        <5>1. \A a \in 0 .. (RamSize - 1) :
                a >= RamSize - nvlen /\ a < RamSize - nvlen + nvlen
                  <=> a >= RamSize - nvlen
          BY <2>2
        <5> QED
          BY <2>1, <3>4, <3>6, <5>1 DEF RamIs, ImagesInRam
      <4> QED
        BY <2>1, <2>5, <3>6, <4>1 DEF RamSound
    <3> QED
      BY <2>5, <2>7, <3>1, <3>5, <3>6
  <2> QED
    BY <2>1, <2>6, <2>7
<1>15. CASE WriteBlockFail
  BY <1>15 DEF WriteBlockFail, Fail, Goto, chipVars, imgVars, RamSound, RamIs,
    ImagesInRam
<1>16. CASE GetClm
  BY <1>16 DEF GetClm, Goto, winVars, chipVars, imgVars, RamSound, RamIs,
    ImagesInRam
<1>17. CASE ClmChunk
  BY <1>17 DEF ClmChunk, Done, Goto, winVars, chipVars, imgVars, stepVars,
    RamSound, RamIs, ImagesInRam
<1>18. CASE ClmFail
  BY <1>18 DEF ClmFail, Fail, Goto, winVars, chipVars, imgVars, RamSound,
    RamIs, ImagesInRam
<1>19. CASE ClmStatus
  BY <1>19 DEF ClmStatus, Done, Goto, Fail, winVars, chipVars, imgVars,
    RamSound, RamIs, ImagesInRam
<1>20. CASE Detach
  BY <1>20 DEF Detach, Goto, winVars, chipVars, imgVars, RamSound, RamIs,
    ImagesInRam
<1>21. CASE CfgHandlers
  BY <1>21 DEF CfgHandlers, Release, Goto, winVars, chipVars, imgVars,
    RamSound, RamIs, ImagesInRam
<1>22. CASE CfgIc
  BY <1>22 DEF CfgIc, Release, Goto, winVars, chipVars, imgVars, RamSound,
    RamIs, ImagesInRam
<1>23. CASE SdpcmStop
  BY <1>23 DEF SdpcmStop, Release, Goto, winVars, chipVars, imgVars, RamSound,
    RamIs, ImagesInRam
<1>24. CASE SdioClock
  BY <1>24 DEF SdioClock, Release, Goto, winVars, chipVars, imgVars, RamSound,
    RamIs, ImagesInRam
<1>25. CASE SdioHalt
  BY <1>25 DEF SdioHalt, Release, Goto, winVars, chipVars, imgVars, RamSound,
    RamIs, ImagesInRam
<1>26. CASE SdioOff
  BY <1>26 DEF SdioOff, Release, Goto, winVars, chipVars, imgVars, RamSound,
    RamIs, ImagesInRam
<1>27. CASE Free
  BY <1>27 DEF Free, Release, Goto, winVars, chipVars, imgVars, RamSound,
    RamIs, ImagesInRam
<1>28. CASE BpAccess \/ Vap \/ ScanStart \/ ScanTask \/ UNCHANGED vars
  <2> SUFFICES UNCHANGED <<pc, misread, errors, ram, ram_size, fw_size, nvlen, done>>
    BY <1>1
  <2> QED
    BY <1>28 DEF BpAccess, Vap, ScanStart, ScanTask, vars, imgVars, winVars,
      chipVars, stepVars
<1> QED
  BY <1>2, <1>3, <1>4, <1>5, <1>6, <1>7, <1>8, <1>9, <1>10, <1>11, <1>12,
    <1>13, <1>14, <1>15, <1>16, <1>17, <1>18, <1>19, <1>20, <1>21, <1>22,
    <1>23, <1>24, <1>25, <1>26, <1>27, <1>28 DEF Next, Boot, Undo

\* The reset vector comes first.
LEMMA VecStep ==
  /\ VecSound /\ OpsSound /\ HaltSound /\ WindowSound /\ ImageTypes
  /\ [Next]_vars
  => VecSound'
<1> SUFFICES ASSUME VecSound, OpsSound, HaltSound, WindowSound, ImageTypes,
                    [Next]_vars
             PROVE  VecSound'
  OBVIOUS
<1> USE AfterFacts, FailFacts
<1>1. CASE UNCHANGED <<pc, todo, errors, vec>>
  BY <1>1 DEF VecSound
<1>2. CASE Attach
  BY <1>2 DEF Attach, Goto, VecSound
<1>3. CASE AttachStep
  BY <1>3 DEF AttachStep, Done, Goto, winVars, chipVars, VecSound
<1>4. CASE AttachFail
  BY <1>4 DEF AttachFail, Fail, Goto, winVars, chipVars, VecSound
<1>5. CASE Clock
  BY <1>5 DEF Clock, Done, Goto, Fail, winVars, chipVars, VecSound
<1>6. CASE EnableF2
  BY <1>6 DEF EnableF2, Done, Goto, Fail, winVars, chipVars, VecSound
<1>7. CASE BpAccess
  <2> DEFINE op == Head(todo)
  <2> SUFFICES ASSUME errors = 0, pc = "release", Len(todo') <= 11 PROVE vec'
    BY <1>7 DEF BpAccess, VecSound
  <2>1. ~astray'
    BY <1>7, OnTarget, WindowStep DEF BpAccess, WindowSound
  <2>2. Effect(op)
    BY <1>7, <2>1 DEF BpAccess
  <2>3. /\ Len(todo) \in Nat \ {0} /\ op = todo[1] /\ Len(todo') = Len(todo) - 1
    BY <1>7, HeadFacts DEF BpAccess
  <2> HIDE DEF op
  <2>4. Len(todo) = 12 => op.reg = "vector"
    BY <2>3 DEF OpsSound, Ordered
  <2>5. Len(todo) <= 11 => vec
    BY DEF VecSound
  <2>6. Len(todo) = 12 \/ Len(todo) <= 11
    BY <2>3
  <2> QED
    BY <2>2, <2>4, <2>5, <2>6, Zenon DEF Effect
<1>8. CASE BpLost
  BY <1>8 DEF BpLost, ImageTypes, VecSound
<1>9. CASE ChipId
  BY <1>9 DEF ChipId, Done, Goto, Fail, winVars, chipVars, VecSound
<1>10. CASE Probe
  BY <1>10 DEF Probe, Done, Goto, winVars, chipVars, VecSound
<1>11. CASE BpDone
  BY <1>11 DEF BpDone, Done, Goto, winVars, chipVars, VecSound
<1>12. CASE GetFw
  BY <1>12 DEF GetFw, Done, Goto, Fail, winVars, chipVars, VecSound
<1>13. CASE GetNvram
  BY <1>13 DEF GetNvram, Done, Goto, Fail, winVars, chipVars, VecSound
<1>14. CASE Parse
  BY <1>14 DEF Parse, Done, Goto, winVars, chipVars, stepVars, VecSound
<1>15. CASE WriteBlock
  <2>1. CASE UNCHANGED stepVars
    BY <1>15, <2>1 DEF WriteBlock, stepVars, VecSound
  <2>2. CASE Done
    <3>1. pc' = "release" => ~(Len(todo') <= 11)
      BY <2>2, AccessFacts DEF Done, Goto
    <3> QED
      BY <3>1 DEF VecSound
  <2> QED
    BY <1>15, <2>1, <2>2 DEF WriteBlock
<1>16. CASE WriteBlockFail
  BY <1>16 DEF WriteBlockFail, Fail, Goto, chipVars, VecSound
<1>17. CASE GetClm
  BY <1>17 DEF GetClm, Goto, winVars, chipVars, VecSound
<1>18. CASE ClmChunk
  BY <1>18 DEF ClmChunk, Done, Goto, winVars, chipVars, stepVars, VecSound
<1>19. CASE ClmFail
  BY <1>19 DEF ClmFail, Fail, Goto, winVars, chipVars, VecSound
<1>20. CASE ClmStatus
  BY <1>20 DEF ClmStatus, Done, Goto, Fail, winVars, chipVars, VecSound
<1>21. CASE Detach
  BY <1>21 DEF Detach, Goto, winVars, chipVars, VecSound
<1>22. CASE CfgHandlers
  BY <1>22 DEF CfgHandlers, Release, Goto, winVars, chipVars, VecSound
<1>23. CASE CfgIc
  BY <1>23 DEF CfgIc, Release, Goto, winVars, chipVars, VecSound
<1>24. CASE SdpcmStop
  BY <1>24 DEF SdpcmStop, Release, Goto, winVars, chipVars, VecSound
<1>25. CASE SdioClock
  BY <1>25 DEF SdioClock, Release, Goto, winVars, chipVars, VecSound
<1>26. CASE SdioHalt
  BY <1>26 DEF SdioHalt, Release, Goto, winVars, chipVars, VecSound
<1>27. CASE SdioOff
  BY <1>27 DEF SdioOff, Release, Goto, winVars, chipVars, VecSound
<1>28. CASE Free
  BY <1>28 DEF Free, Release, Goto, winVars, chipVars, VecSound
<1>29. CASE Vap \/ ScanStart \/ ScanTask \/ UNCHANGED vars
  <2> SUFFICES UNCHANGED <<pc, todo, errors, vec>>
    BY <1>1
  <2> QED
    BY <1>29 DEF Vap, ScanStart, ScanTask, vars, winVars, chipVars, stepVars
<1> QED
  BY <1>2, <1>3, <1>4, <1>5, <1>6, <1>7, <1>8, <1>9, <1>10, <1>11, <1>12,
    <1>13, <1>14, <1>15, <1>16, <1>17, <1>18, <1>19, <1>20, <1>21, <1>22,
    <1>23, <1>24, <1>25, <1>26, <1>27, <1>28, <1>29 DEF Next, Boot, Undo

-----------------------------------------------------------------------------
(* The invariant.                                                          *)

\* The inductive invariant holds in the beginning ...
LEMMA InitInv == Init => IInv
<1> SUFFICES ASSUME Init PROVE IInv
  OBVIOUS
<1>1. PcTypes
  BY StepFacts DEF Init, PcTypes
<1>2. FlagTypes /\ ClmTypes
  BY DEF Init, FlagTypes, ClmTypes
<1>3. WinTypes
  <2>1. <<0, 0, 0>> \in [1 .. 3 -> 0 .. 255]
    OBVIOUS
  <2>2. Bytes(Wraps) \in [1 .. 3 -> 0 .. 255]
    <3>1. Wraps \in Int
      BY WindowFacts
    <3> QED
      BY <3>1, WindowFacts
  <2>3. bp_window = 0 /\ sbaddr \in {<<0, 0, 0>>, Bytes(Wraps)}
    BY DEF Init
  <2> QED
    BY <2>1, <2>2, <2>3 DEF WinTypes
<1>4. ArmTypes
  BY DEF Init, ArmTypes
<1>5. ImageTypes
  BY BootAssumption DEF Init, ImageTypes
<1>6. NvInv
  BY NvInitInv DEF Init
<1>7. ResSound /\ ClkSound /\ UserSound
  BY DEF Init, ResSound, ClkSound, UserSound, May, Dark
<1>8. ClmSound
  BY DEF Init, ClmSound, ClmWhole
<1>9. OpsSound
  <2>1. << >> \in Seq(Op) /\ Len(<< >>) = 0
    OBVIOUS
  <2> QED
    BY <2>1 DEF Init, OpsSound, Ordered
<1>10. WindowSound
  BY DEF Init, WindowSound, NeverAstray, Dark
<1>11. HaltSound
  BY DEF Init, HaltSound, Running, Halting
<1>12. RamSound /\ VecSound
  BY DEF Init, RamSound, VecSound
<1> QED
  BY <1>1, <1>2, <1>3, <1>4, <1>5, <1>6, <1>7, <1>8, <1>9, <1>10, <1>11, <1>12
    DEF IInv

\* ... and every step keeps it.
LEMMA NextInv == IInv /\ [Next]_vars => IInv'
BY PcStep, FlagStep, WinStep, ArmStep, ImageStep, ClmTypeStep, ParseStep, ResStep,
  ClkStep, UserStep, ClmStep, OpsStep, WindowStep, HaltStep, RamStep, VecStep
  DEF IInv

\* So it holds throughout.
LEMMA Invariant == Spec => []IInv
BY InitInv, NextInv, PTL DEF Spec

\* The variables have their types.
LEMMA TypesHold == IInv => TypeOK
<1> SUFFICES ASSUME IInv PROVE TypeOK
  OBVIOUS
<1>1. res \subseteq Resources
  BY MayFacts DEF IInv, ResSound
<1>2. /\ pc \in ToSet(Attaching) \union ToSet(Detaching)
      /\ todo \in Seq([win : Nat, reg : {"none", "ioctl", "reset_ctl", "vector"},
                       bits : SUBSET {"FGC", "CLK", "CPUHALT", "RESET"}])
  BY DEF IInv, PcTypes, Pcs, OpsSound, Op
<1>3. NvTypeOK
  BY DEF IInv, NvInv
<1> QED
  BY <1>1, <1>2, <1>3
    DEF IInv, TypeOK, FlagTypes, WinTypes, ArmTypes, ImageTypes, ClmTypes

-----------------------------------------------------------------------------
(* The theorems.                                                           *)

\* cyw_parse_nvram never writes past the buffer it has allocated, for every text,
\* and its length token is the length of what is before it, whoever calls it ...
THEOREM NvramAlwaysFits == NvSpec => []NvramFits
BY NvInitInv, NvStep, NvFits, PTL DEF NvSpec

\* ... and in cyw_attach, which frees the buffer on each of its ways out.
THEOREM BootNvramFits == Spec => []NvramFits
<1>1. IInv => NvramFits
  BY NvFits DEF IInv
<1> QED
  BY <1>1, Invariant, PTL

\* What cyw_parse_nvram packs is what the lines of the file say, with comments,
\* blank lines and carriage returns left out, for every text.
THEOREM NvramPacked == Spec => []NvramIsTheFile
<1>1. Init => FileInv
  BY DEF Init, NvInit, FileInv, NvramIsTheFile
<1>2. IInv /\ FileInv /\ [Next]_vars => FileInv'
  BY Parses, FileStep DEF IInv
<1>3. FileInv => NvramIsTheFile
  BY DEF FileInv
<1> QED
  BY <1>1, <1>2, <1>3, Invariant, PTL DEF Spec

\* No access to the backplane goes to another window than was meant, unless a
\* change of the window failed half way: bp_window of a new softc is wrong about
\* the registers, but no access before the first change relies on it
\* (cyw_set_backplane_window, cyw_bp_read32, cyw_bp_write32, cyw_bp_write_block).
THEOREM OnItsWindow == Spec => []NeverAstray
<1>1. IInv => NeverAstray
  BY DEF IInv, WindowSound
<1> QED
  BY <1>1, Invariant, PTL

\* Wherever cyw_attach fails and whenever cyw_detach comes, the ARM is halted and
\* everything undone but what the labels forget, and the backplane is accessed only
\* with F1 enabled and clocked (cyw_attach, cyw_detach, cyw_sdio_detach,
\* cyw_sdpcm_detach, cyw_cfg_detach).
THEOREM AttachUndone == Spec => []Undone
<1>1. IInv => NothingLeft
  <2> SUFFICES ASSUME IInv, pc = "idle" PROVE NothingLeft
    BY DEF NothingLeft
  <2>1. res \subseteq IF failing THEN {"ioctl_sx", "f1", "cv", "f2_sx"} ELSE {}
    BY DEF IInv, ResSound, May
  <2>2. errors = 0 => ~Running
    BY DEF IInv, HaltSound, Live
  <2>3. clk # "none" => "f1" \in res
    BY DEF IInv, ClkSound
  <2>4. ~vap /\ ~queued
    BY <2>1 DEF IInv, UserSound
  <2> QED
    BY <2>1, <2>2, <2>3, <2>4 DEF NothingLeft
<1>2. IInv => PowerOrder
  <2> SUFFICES ASSUME IInv PROVE PowerOrder
    OBVIOUS
  <2>1. ASSUME todo # << >> PROVE clk # "none" /\ "f1" \in res
    <3>1. pc \notin Dark
      BY <2>1 DEF IInv, OpsSound, Accessing, Halting, Dark
    <3> QED
      BY <3>1 DEF IInv, ClkSound
  <2>2. ASSUME "f2" \in res PROVE "sdio_attached" \in res /\ "f1" \in res
    <3>1. "f2" \in May(pc, failing)
      BY <2>2 DEF IInv, ResSound
    <3>2. pc \notin Dark \union {"chipid", "probe", "f2_blksize", "halt"}
      BY <3>1 DEF May, Dark, Early
    <3> QED
      BY <3>2 DEF IInv, ResSound
  <2> QED
    BY <2>1, <2>2 DEF PowerOrder
<1> QED
  BY <1>1, <1>2, TypesHold, Invariant, PTL DEF Undone

\* When cyw_clm_load asks for the status, the firmware has the whole blob, for
\* every size of the blob and of the chunks.
THEOREM ClmDelivered == Spec => []ClmWhole
<1>1. IInv => ClmWhole
  BY DEF IInv, ClmSound
<1> QED
  BY <1>1, Invariant, PTL

\* As long as no error was swallowed, the ARM starts to run only with both images
\* whole in its RAM and with its reset vector set, for every size of the images, of
\* the RAM and of the windows (cyw_fw_images_write, cyw_bp_write_block,
\* cyw_arm_halt, cyw_arm_release).
THEOREM ArmComplete == Spec => ArmStartsComplete
<1>1. ASSUME IInv, IInv', [Next]_vars, ~Running, Running', errors' = 0
      PROVE  ImagesInRam' /\ vec'
  <2>1. arm' # arm
    BY <1>1 DEF Running
  <2>2. BpAccess
    <3> USE DEF winVars, chipVars
    <3>1. ~(Attach \/ AttachStep \/ AttachFail \/ Clock \/ EnableF2 \/ BpLost
      \/ ChipId \/ Probe \/ BpDone \/ GetFw \/ GetNvram \/ Parse \/ WriteBlock
      \/ WriteBlockFail \/ GetClm \/ ClmChunk \/ ClmFail \/ ClmStatus \/ Detach
      \/ CfgHandlers \/ CfgIc \/ SdpcmStop \/ SdioClock \/ SdioHalt \/ SdioOff
      \/ Free \/ Vap \/ ScanStart \/ ScanTask)
      BY <2>1 DEF Release, Attach, AttachStep, AttachFail, Clock, EnableF2,
        BpLost, ChipId, Probe, BpDone, GetFw, GetNvram, Parse, WriteBlock,
        WriteBlockFail, GetClm, ClmChunk, ClmFail, ClmStatus, Detach,
        CfgHandlers, CfgIc, SdpcmStop, SdioClock, SdioHalt, SdioOff, Free, Vap,
        ScanStart, ScanTask
    <3>2. ~UNCHANGED vars
      BY <2>1 DEF vars
    <3> QED
      BY <1>1, <3>1, <3>2 DEF Next, Boot, Undo
  <2> DEFINE op == Head(todo)
  <2>3. /\ Effect(op) /\ todo # << >> /\ todo' = Tail(todo) /\ pc' = pc
        /\ errors = 0
    BY <1>1, <2>1, <2>2 DEF BpAccess
  <2>4. Len(todo) \in Nat \ {0} /\ op = todo[1] /\ pc \in Accessing
    BY <1>1, <2>3, HeadFacts DEF IInv, OpsSound
  <2>5. /\ arm'.ioctl = IF op.reg = "ioctl" THEN op.bits ELSE arm.ioctl
        /\ arm'.reset_ctl = IF op.reg = "reset_ctl" THEN op.bits
                                                  ELSE arm.reset_ctl
        /\ vec => vec'
    <3>1. vec => vec'
      BY <2>3, Zenon DEF Effect
    <3> QED
      BY <1>1, <2>3, <3>1, EffectFacts DEF IInv
  <2> HIDE DEF op
  <2>6. op.reg \in {"ioctl", "reset_ctl"}
    BY <1>1, <2>5 DEF Running
  <2>7. /\ op.reg # "none" => pc \in Halting \union {"release"}
        /\ pc \in Halting =>
             /\ op.reg = "ioctl" => "CPUHALT" \in op.bits
             /\ op.reg = "reset_ctl" => Len(todo) - 1 < 3
        /\ pc = "release" /\ op.reg \in {"ioctl", "reset_ctl"} =>
             Len(todo) - 1 < 11
    <3>1. Ordered(todo, pc)
      BY <1>1 DEF IInv, OpsSound
    <3>2. 1 \in 1 .. Len(todo)
      BY <2>4
    <3> QED
      BY <2>4, <3>1, <3>2 DEF Ordered
  <2>8. pc \notin Halting
    <3> SUFFICES ASSUME pc \in Halting PROVE "CPUHALT" \in arm'.ioctl
      BY <1>1 DEF Running
    <3>1. CASE op.reg = "ioctl"
      BY <2>5, <2>7, <3>1
    <3>2. CASE op.reg = "reset_ctl"
      <4>1. Len(todo) <= 3
        BY <2>4, <2>7, <3>2
      <4>2. "CPUHALT" \in arm.ioctl
        BY <1>1, <2>3, <4>1 DEF IInv, HaltSound
      <4> QED
        BY <2>5, <3>2, <4>2
    <3> QED
      BY <2>6, <3>1, <3>2
  <2>9. pc = "release"
    BY <2>6, <2>7, <2>8
  <2>10. Len(todo) <= 11
    BY <2>4, <2>6, <2>7, <2>9
  <2>11. vec'
    BY <1>1, <2>3, <2>5, <2>9, <2>10 DEF IInv, VecSound
  <2>12. ImagesInRam'
    BY <1>1, <2>3, <2>9 DEF IInv, RamSound
  <2> QED
    BY <2>11, <2>12
<1>2. IInv /\ IInv' /\ [Next]_vars =>
        [~Running /\ Running' /\ errors' = 0 => ImagesInRam' /\ vec']_vars
  BY <1>1
<1> QED
  BY <1>2, Invariant, PTL DEF Spec, ArmStartsComplete
=============================================================================
