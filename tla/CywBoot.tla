------------------------------- MODULE CywBoot -------------------------------
(***************************************************************************)
(* Attaching and detaching the CYW43455: cyw_attach and its error labels,  *)
(* the SDIO functions and the clock, the window through which F1 reaches   *)
(* the backplane, the ARM core, the download of firmware, NVRAM and CLM    *)
(* blob, and the registration with net80211, which may use the driver from *)
(* then on.                                                                *)
(*                                                                         *)
(* cyw_bp_read32 and cyw_bp_write32 do not report errors; "errors" counts  *)
(* the ones nobody hears of.  Commands to the firmware are in CywFwil.     *)
(***************************************************************************)
EXTENDS CywNvram, SequencesExt, FiniteSets

CONSTANTS
  WinSize,     \* bytes in a window of the backplane
  RamSize,     \* bytes of the ARM's RAM
  FwSizes,     \* sizes of the firmware image
  BlobSizes,   \* sizes of the CLM blob, -1 if there is none
  ChunkLen,    \* CYW_CLM_MAX_CHUNK
  MaxErrors,   \* bound: errors nobody hears of
  Faults       \* steps that report errors may fail

ASSUME BootAssumption ==
  /\ WinSize \in Nat \ {0}
  /\ RamSize \in Nat \ {0}
  /\ FwSizes \subseteq Nat
  /\ BlobSizes \subseteq Nat \union {-1}
  /\ ChunkLen \in Nat \ {0}
  /\ MaxErrors \in Nat
  /\ Faults \in BOOLEAN

VARIABLES
  pc,          \* a step of Attaching or Detaching, or "idle"
  res,         \* what is allocated, enabled or registered
  failing,     \* cyw_attach is on its error path
  clk,         \* the clock requested in CHIPCLKCSR
  bp_window,   \* the window the driver has set, 0 in a new softc
  sbaddr,      \* the three SBADDR registers of the chip
  torn,        \* history: the last change of the window failed
  astray,      \* history: the last access went to another window than was meant
  todo,        \* accesses to the backplane that are still to be done
  misread,     \* one of the accesses of this step failed
  errors,
  arm,         \* the ARM core: IOCTL and RESET_CTL of its wrapper
  vec,         \* the reset vector is written
  ram,         \* what the ARM's RAM holds
  ram_size, core_base,
  fw_size, nvlen, done,
  blob, cumulative, begin,
  clm,         \* the firmware's copy of the blob: open, len, whole
  vap, queued, \* a VAP exists; its scan is on scan_tq
  crashed      \* history: a queue was used before it was created

winVars  == <<bp_window, sbaddr, torn, astray, errors>>
chipVars == <<arm, vec, ram>>
imgVars  == <<ram_size, core_base, fw_size, nvlen, done>>
clmVars  == <<blob, cumulative, begin, clm>>
userVars == <<vap, queued, crashed>>
stepVars == <<pc, todo, misread, res, failing>>
vars == <<stepVars, clk, winVars, chipVars, imgVars, clmVars, userVars, nvVars>>

\* The steps of cyw_attach ...
Attaching ==
  << "funcs", "sysctl", "blksize", "enable_f1", "clock", "chipid", "probe",
     "f2_blksize", "halt", "get_fw", "fw", "get_nvram", "parse", "nvram",
     "release", "force_ht", "kick", "enable_f2", "handshake", "get_clm", "clm",
     "clm_status", "mac", "ifattach", "event_msgs", "handlers", "callbacks", "cv",
     "rx_tq", "scan_tq", "start", "attached" >>

\* ... and of cyw_detach; the labels of cyw_attach are entries to it.
Detaching ==
  << "cfg_handlers", "cfg_ic", "sdpcm_stop", "sdpcm_scan_tq", "sdpcm_cv",
     "sdio_clock", "sdio_halt", "sdio_off", "sysctl_free", "locks", "idle" >>

After(p) ==
  LET s == IF Contains(Attaching, p) THEN Attaching ELSE Detaching
  IN  s[1 + CHOOSE k \in DOMAIN s : s[k] = p]

\* Slip: a failing CLM download goes to the last label but one.
FailToSysctls(p) ==
  CASE p = "funcs" -> "locks"
    [] p \in {"blksize", "enable_f1", "clock", "chipid", "f2_blksize", "clm",
              "clm_status"} -> "sysctl_free"
    [] p \in {"rx_tq", "scan_tq"} -> "cfg_handlers"
    [] OTHER -> "sdio_clock"

\* The label for a step that fails.
FailTo(p) ==
  CASE p = "funcs" -> "locks"
    [] p \in {"blksize", "enable_f1", "clock", "chipid", "f2_blksize"}
         -> "sysctl_free"
    [] p \in {"rx_tq", "scan_tq"} -> "cfg_handlers"
    [] OTHER -> "sdio_clock"

\* What a step that succeeds leaves behind, and what cyw_cfg_attach and
\* cyw_sdpcm_attach undo themselves when they fail.
Acquires(p) ==
  CASE p = "sysctl"    -> {"sysctl"}
    [] p = "enable_f1" -> {"f1"}
    [] p = "halt"      -> {"sdio_attached"}
    [] p = "enable_f2" -> {"f2"}
    [] p = "ifattach"  -> {"ic"}
    [] p = "handlers"  -> {"handlers"}
    [] p = "callbacks" -> {"callbacks"}
    [] p = "cv"        -> {"cv", "f2_sx"}
    [] p = "rx_tq"     -> {"rx_tq"}
    [] p = "scan_tq"   -> {"scan_tq"}
    [] p = "start"     -> {"callout", "tx_queue", "running"}
    [] OTHER           -> {}

Undoes(p) ==
  CASE p = "event_msgs" -> {"ic"}
    [] p = "scan_tq"    -> {"rx_tq"}
    [] OTHER            -> {}

-----------------------------------------------------------------------------
(* The backplane.                                                          *)

\* Windows by number: the ITCM at 0, ChipCommon and the cores at 0x18000000, the
\* wrappers at 0x18100000, the EROM behind them, the RAM from 0x198000.
Itcm  == 0
Cores == \h18000000 \div \h8000
Wraps == \h18100000 \div \h8000
Erom  == Wraps + 1
RamWindow(offset) == \h198000 \div \h8000 + offset \div WinSize

\* The bytes of SBADDRLOW, MID and HIGH.
Bytes(w) == <<w % 2, (w \div 2) % 256, (w \div 512) % 256>>

\* Slip: SBADDRHIGH is not written.
SetWindowLowMid(w) ==
  /\ bp_window' = w
  /\ sbaddr' = IF w = bp_window THEN sbaddr
               ELSE [Bytes(w) EXCEPT ![3] = sbaddr[3]]
  /\ torn' = (torn /\ w = bp_window)

\* cyw_set_backplane_window
SetWindow(w) ==
  /\ bp_window' = w
  /\ sbaddr' = IF w = bp_window THEN sbaddr ELSE Bytes(w)
  /\ torn' = (torn /\ w = bp_window)

\* One of the three writes fails: some of the bytes have changed.
SetWindowFails(w) ==
  /\ w # bp_window
  /\ \E n \in 0 .. 3 :
       sbaddr' = [k \in 1 .. 3 |-> IF k <= n THEN Bytes(w)[k] ELSE sbaddr[k]]
  /\ torn' = TRUE
  /\ UNCHANGED bp_window

Access(win, reg, bits) == [win |-> win, reg |-> reg, bits |-> bits]
Read(win)  == Access(win, "none", {})
Write(win) == Access(win, "none", {})

\* cyw_arm_halt: the D11 core is reset, the ARM halted and taken out of reset.
HaltArm ==
  << Write(Wraps), Write(Wraps), Write(Wraps), Write(Wraps),
     Access(Wraps, "ioctl", {"FGC", "CLK", "CPUHALT"}), Read(Wraps),
     Access(Wraps, "reset_ctl", {}),
     Access(Wraps, "ioctl", {"CLK", "CPUHALT"}) >>

\* cyw_arm_release; the first word of the image is not 0.
ReleaseArm ==
  << Write(Cores), Write(Cores) >>
  \o (IF core_base THEN << Write(Cores) >> ELSE << >>)
  \o << Access(Itcm, "vector", {}),
        Access(Wraps, "ioctl", {"FGC", "CLK", "CPUHALT"}), Read(Wraps),
        Access(Wraps, "reset_ctl", {"RESET"}),
        Access(Wraps, "ioctl", {"CPUHALT"}),
        Access(Wraps, "ioctl", {"FGC", "CLK"}), Read(Wraps),
        Access(Wraps, "reset_ctl", {}),
        Access(Wraps, "ioctl", {"CLK"}), Read(Wraps), Read(Wraps),
        Read(Wraps) >>

\* The accesses of a step: the chip ID; SR capability, EROM scan and the banks of
\* the ARM; the mailbox; the interrupt mask and the poll for HMB_DATA_FWREADY.
Accesses(p) ==
  CASE p = "chipid"    -> << Read(Cores) >>
    [] p = "probe"     -> << Write(Cores), Read(Cores), Read(Cores), Read(Erom),
                             Read(Cores), Write(Cores), Read(Cores) >>
    [] p \in {"halt", "sdio_halt"} -> HaltArm
    [] p = "release"   -> ReleaseArm
    [] p = "kick"      -> IF core_base THEN << Write(Cores) >> ELSE << >>
    [] p = "handshake" -> IF core_base
                          THEN << Write(Cores), Read(Cores), Read(Cores) >>
                          ELSE << >>
    [] OTHER           -> << >>

Running == arm.reset_ctl = {} /\ "CPUHALT" \notin arm.ioctl /\ "CLK" \in arm.ioctl

-----------------------------------------------------------------------------

Init ==
  /\ pc = "idle"
  /\ res = {}
  /\ failing = FALSE
  /\ clk = "none"
  /\ bp_window = 0
  /\ sbaddr \in {<<0, 0, 0>>, Bytes(Wraps)}
  /\ torn = FALSE
  /\ astray = FALSE
  /\ todo = << >>
  /\ misread = FALSE
  /\ errors = 0
  /\ arm = [ioctl |-> {}, reset_ctl |-> {"RESET"}]
  /\ vec = FALSE
  /\ ram = [a \in 0 .. (2 * RamSize - 1) |-> "old"]
  /\ ram_size = 0
  /\ core_base = FALSE
  /\ fw_size = 0
  /\ nvlen = 0
  /\ done = 0
  /\ blob = -1
  /\ cumulative = 0
  /\ begin = FALSE
  /\ clm = [open |-> FALSE, len |-> 0, whole |-> FALSE]
  /\ vap = FALSE
  /\ queued = FALSE
  /\ crashed = FALSE
  /\ NvInit

\* Enter a step, with the accesses it makes.
Goto(p) == pc' = p /\ todo' = Accesses(p) /\ misread' = FALSE

\* The step is done, or fails: the labels are entered.
Done == Goto(After(pc)) /\ res' = res \union Acquires(pc) /\ UNCHANGED failing

Fail == Goto(FailTo(pc)) /\ res' = res \ Undoes(pc) /\ failing' = TRUE

\* cyw_attach with a new softc; F1 may still be enabled.
Attach ==
  /\ pc = "idle"
  /\ Goto("funcs")
  /\ res' = {"mtx", "ioctl_sx"} \union (res \intersect {"f1"})
  /\ failing' = FALSE
  /\ bp_window' = 0
  /\ torn' = FALSE
  /\ astray' = FALSE
  /\ vec' = FALSE
  /\ ram' = [a \in DOMAIN ram |-> "old"]
  /\ ram_size' = 0 /\ core_base' = FALSE
  /\ fw_size' = 0 /\ nvlen' = 0 /\ done' = 0
  /\ blob' = -1 /\ cumulative' = 0 /\ begin' = FALSE
  /\ NvFree
  /\ UNCHANGED <<clk, sbaddr, errors, arm, clm, userVars>>

\* Steps that only acquire something, and those of them that fail; a failing
\* event_msgs detaches net80211 again.
AttachStep ==
  /\ pc \in {"funcs", "sysctl", "blksize", "enable_f1", "f2_blksize", "mac",
             "ifattach", "event_msgs", "handlers", "callbacks", "cv", "rx_tq",
             "scan_tq", "start"}
  /\ Done
  /\ UNCHANGED <<clk, winVars, chipVars, imgVars, clmVars, userVars, nvVars>>

AttachFail ==
  /\ Faults
  /\ pc \in {"funcs", "blksize", "enable_f1", "f2_blksize", "get_fw",
             "get_nvram", "clm_status", "mac", "event_msgs", "rx_tq", "scan_tq"}
  /\ Fail
  /\ UNCHANGED <<clk, winVars, chipVars, imgVars, clmVars, userVars, nvVars>>

\* cyw_sdio_enable_clock, and FORCE_HT in cyw_f2_bringup.
Clock ==
  /\ pc \in {"clock", "force_ht"}
  /\ \/ Done /\ clk' = IF pc = "clock" THEN "alp" ELSE "ht"
     \/ Faults /\ Fail /\ UNCHANGED clk
  /\ UNCHANGED <<winVars, chipVars, imgVars, clmVars, userVars, nvVars>>

\* sdio_enable_func polls IORx: F2 comes up only if the firmware runs.
EnableF2 ==
  /\ pc = "enable_f2"
  /\ \/ Running /\ vec /\ Done
     \/ (Faults \/ ~Running \/ ~vec) /\ Fail
  /\ UNCHANGED <<clk, winVars, chipVars, imgVars, clmVars, userVars, nvVars>>

-----------------------------------------------------------------------------
(* Accesses to the backplane and what follows from them.                   *)

\* The effect on the chip of a write that arrives.
Effect(op) ==
  /\ arm' = [r \in DOMAIN arm |-> IF r = op.reg THEN op.bits ELSE arm[r]]
  /\ vec' = (vec \/ op.reg = "vector")

\* cyw_bp_read32 and cyw_bp_write32
BpAccess ==
  /\ todo # << >>
  /\ todo' = Tail(todo)
  /\ SetWindow(Head(todo).win)
  /\ astray' = (sbaddr' # Bytes(Head(todo).win))
  /\ IF astray' THEN UNCHANGED <<arm, vec>> ELSE Effect(Head(todo))
  /\ UNCHANGED <<pc, misread, res, failing, clk, errors, ram, imgVars, clmVars,
                 userVars, nvVars>>

\* The window or the access itself fails, and the caller is not told.
BpLost ==
  /\ todo # << >>
  /\ errors < MaxErrors
  /\ errors' = errors + 1
  /\ todo' = Tail(todo)
  /\ SetWindow(Head(todo).win) \/ SetWindowFails(Head(todo).win)
  /\ astray' = FALSE
  /\ misread' = TRUE
  /\ UNCHANGED <<pc, res, failing, clk, chipVars, imgVars, clmVars, userVars,
                 nvVars>>

\* A failed read gives 0xffffffff, which is not the ID of the chip.
ChipId ==
  /\ pc = "chipid" /\ todo = << >>
  /\ IF misread THEN Fail ELSE Done
  /\ UNCHANGED <<clk, winVars, chipVars, imgVars, clmVars, userVars, nvVars>>

\* cyw_erom_find_sdio_core_base: with a failed read the core may not be found.
CoreFound == {TRUE, ~misread}

\* cyw_cr4_ram_size: with a failed read the sum of the banks may be anything.
BankSum == {RamSize} \union (IF misread THEN {2 * RamSize} ELSE {})

Probe ==
  /\ pc = "probe" /\ todo = << >>
  /\ Done
  /\ core_base' \in CoreFound
  /\ ram_size' \in BankSum
  /\ UNCHANGED <<clk, winVars, chipVars, fw_size, nvlen, done, clmVars, userVars,
                 nvVars>>

\* The steps that end with their last access.
BpDone ==
  /\ pc \in {"halt", "release", "kick", "handshake"} /\ todo = << >>
  /\ Done
  /\ UNCHANGED <<clk, winVars, chipVars, imgVars, clmVars, userVars, nvVars>>

-----------------------------------------------------------------------------
(* cyw_fw_images_write.                                                    *)

\* The image: absent (AttachFail), too small or too large, or written from now.
GetFw ==
  /\ pc = "get_fw"
  /\ fw_size' \in FwSizes
  /\ IF fw_size' < 4 \/ fw_size' > ram_size THEN Fail ELSE Done
  /\ done' = 0
  /\ UNCHANGED <<clk, winVars, chipVars, ram_size, core_base, nvlen, clmVars,
                 userVars, nvVars>>

\* The NVRAM file: cyw_parse_nvram is called.
GetNvram ==
  /\ pc = "get_nvram"
  /\ NvCall
  /\ IF raw' = << >> THEN Fail ELSE Done
  /\ UNCHANGED <<clk, winVars, chipVars, imgVars, clmVars, userVars>>

Parse ==
  /\ pc = "parse"
  /\ \/ NvChar /\ UNCHANGED <<stepVars, done, nvlen>>
     \/ NvEnd /\ Done /\ done' = 0 /\ nvlen' = Len(buf') + 4
  /\ UNCHANGED <<clk, winVars, chipVars, ram_size, core_base, fw_size, clmVars,
                 userVars>>

\* Slip: the length of the NVRAM is taken without its token.
StartNoToken == IF pc = "fw" THEN 0 ELSE ram_size - (nvlen - 4)

\* Where the image that is being written begins and how long it is; the address
\* of the NVRAM follows from the size of the RAM.
Start == IF pc = "fw" THEN 0 ELSE ram_size - nvlen
Total == IF pc = "fw" THEN fw_size ELSE nvlen

\* The next piece of cyw_bp_write_block, up to the end of the window.
Chunk ==
  LET rest == WinSize - ((Start + done) % WinSize)
  IN  IF Total - done < rest THEN Total - done ELSE rest

\* Of the packed text only the length matters from here on.
WriteBlock ==
  /\ pc \in {"fw", "nvram"}
  /\ SetWindow(RamWindow(Start + done))
  /\ astray' = (sbaddr' # Bytes(RamWindow(Start + done)))
  /\ ram' = [a \in DOMAIN ram |->
               IF ~astray' /\ a \in (Start + done) .. (Start + done + Chunk - 1)
               THEN pc ELSE ram[a]]
  /\ done' = done + Chunk
  /\ IF done' = Total THEN Done ELSE UNCHANGED stepVars
  /\ IF pc = "nvram" THEN NvFree ELSE UNCHANGED nvVars
  /\ UNCHANGED <<clk, errors, arm, vec, ram_size, core_base, fw_size, nvlen,
                 clmVars, userVars>>

WriteBlockFail ==
  /\ pc \in {"fw", "nvram"}
  /\ Faults
  /\ LET w == RamWindow(Start + done) IN SetWindow(w) \/ SetWindowFails(w)
  /\ astray' = FALSE
  /\ Fail
  /\ IF pc = "nvram" THEN NvFree ELSE UNCHANGED nvVars
  /\ UNCHANGED <<clk, errors, chipVars, imgVars, clmVars, userVars>>

-----------------------------------------------------------------------------
(* cyw_clm_load.                                                           *)

\* No blob, which is no error, or the first chunk comes next.
GetClm ==
  /\ pc = "get_clm"
  /\ blob' \in BlobSizes
  /\ IF blob' = -1 THEN Goto("mac") ELSE Goto("clm")
  /\ cumulative' = 0
  /\ begin' = TRUE
  /\ UNCHANGED <<res, failing, clk, winVars, chipVars, imgVars, clm, userVars,
                 nvVars>>

\* Slip: a last chunk of the full length is not marked as the last.
ClmEndStrict == blob - cumulative < ChunkLen

ClmEnd == blob - cumulative <= ChunkLen
ClmLen == IF ClmEnd THEN blob - cumulative ELSE ChunkLen

\* The firmware appends a chunk to the copy that DL_BEGIN has opened.
Receive ==
  clm' = [open  |-> ~ClmEnd,
          len   |-> IF begin THEN ClmLen ELSE clm.len + ClmLen,
          whole |-> ClmEnd /\ (begin \/ clm.open)]

ClmChunk ==
  /\ pc = "clm"
  /\ Receive
  /\ begin' = FALSE
  /\ cumulative' = cumulative + ClmLen
  /\ IF cumulative' < blob THEN UNCHANGED stepVars ELSE Done
  /\ UNCHANGED <<clk, winVars, chipVars, imgVars, blob, userVars, nvVars>>

\* The command fails, with or without having reached the firmware.
ClmFail ==
  /\ pc = "clm"
  /\ Faults
  /\ Receive \/ UNCHANGED clm
  /\ Fail
  /\ UNCHANGED <<clk, winVars, chipVars, imgVars, blob, cumulative, begin,
                 userVars, nvVars>>

ClmStatus ==
  /\ pc = "clm_status"
  /\ IF clm.whole THEN Done ELSE Fail
  /\ UNCHANGED <<clk, winVars, chipVars, imgVars, clmVars, userVars, nvVars>>

-----------------------------------------------------------------------------
(* cyw_detach and the labels of cyw_attach.                                *)

Detach ==
  /\ pc = "attached"
  /\ Goto("cfg_handlers")
  /\ UNCHANGED <<res, failing, clk, winVars, chipVars, imgVars, clmVars,
                 userVars, nvVars>>

Release(p, what, next) ==
  /\ pc = p
  /\ Goto(next)
  /\ res' = res \ what
  /\ UNCHANGED <<failing, winVars, chipVars, imgVars, clmVars, crashed, nvVars>>

\* cyw_cfg_detach: the handlers are unregistered, the scan tasks drained ...
CfgHandlers ==
  /\ ~queued
  /\ Release("cfg_handlers", {"handlers"}, "cfg_ic")
  /\ UNCHANGED <<clk, vap, queued>>

\* ... and net80211 goes, with its VAP.
CfgIc ==
  /\ Release("cfg_ic", {"ic", "callbacks"},
             IF failing THEN "sdio_clock" ELSE "sdpcm_stop")
  /\ vap' = FALSE
  /\ UNCHANGED <<clk, queued>>

\* cyw_sdpcm_detach: callout, tasks and rx_tq, then scan_tq, which runs what is
\* left on it, the queue of frames, and the locks.
SdpcmStop ==
  /\ \/ Release("sdpcm_stop", {"running", "callout", "rx_tq"}, "sdpcm_scan_tq")
     \/ ~queued /\ Release("sdpcm_scan_tq", {"scan_tq"}, "sdpcm_cv")
     \/ Release("sdpcm_cv", {"tx_queue", "cv", "f2_sx"}, "sdio_clock")
  /\ UNCHANGED <<clk, vap, queued>>

\* cyw_sdio_detach, unless cyw_sdio_attach has not come to its end: the clock,
\* even if the request fails, the ARM, and off.
SdioClock ==
  /\ Release("sdio_clock", {},
             IF "sdio_attached" \in res THEN "sdio_halt" ELSE "sysctl_free")
  /\ clk' \in {"alp", clk}
  /\ UNCHANGED <<vap, queued>>

SdioHalt ==
  /\ todo = << >>
  /\ Release("sdio_halt", {}, "sdio_off")
  /\ UNCHANGED <<clk, vap, queued>>

SdioOff ==
  /\ Release("sdio_off", {"f2", "f1", "sdio_attached"}, "sysctl_free")
  /\ clk' = "none"
  /\ UNCHANGED <<vap, queued>>

\* The sysctls, and the locks: cyw_attach does not destroy ioctl_sx.
Free ==
  /\ \/ Release("sysctl_free", {"sysctl"}, "locks")
     \/ Release("locks", IF failing THEN {"mtx"} ELSE {"mtx", "ioctl_sx"}, "idle")
  /\ UNCHANGED <<clk, vap, queued>>

-----------------------------------------------------------------------------
(* net80211, from ieee80211_ifattach to ieee80211_ifdetach.                *)

\* cyw_vap_create: one VAP at a time; and cyw_vap_delete, which waits for a scan.
Vap ==
  /\ "callbacks" \in res
  /\ vap' = ~vap
  /\ UNCHANGED <<stepVars, clk, winVars, chipVars, imgVars, clmVars,
                 queued, crashed, nvVars>>

\* cyw_scan_start puts the task on scan_tq.
ScanStart ==
  /\ vap
  /\ queued' = ("scan_tq" \in res)
  /\ crashed' = ("scan_tq" \notin res)
  /\ UNCHANGED <<stepVars, clk, winVars, chipVars, imgVars, clmVars,
                 vap, nvVars>>

ScanTask ==
  /\ queued
  /\ queued' = FALSE
  /\ UNCHANGED <<stepVars, clk, winVars, chipVars, imgVars, clmVars,
                 vap, crashed, nvVars>>

-----------------------------------------------------------------------------

Undo ==
  CfgHandlers \/ CfgIc \/ SdpcmStop \/ SdioClock \/ SdioHalt \/ SdioOff \/ Free

Boot ==
  \/ Attach \/ AttachStep \/ Clock \/ EnableF2
  \/ BpAccess \/ ChipId \/ Probe \/ BpDone
  \/ GetFw \/ GetNvram \/ Parse \/ WriteBlock
  \/ GetClm \/ ClmChunk \/ ClmStatus
  \/ Undo

Next ==
  /\ ~crashed
  /\ \/ Boot \/ AttachFail \/ BpLost \/ WriteBlockFail \/ ClmFail \/ Detach
     \/ Vap \/ ScanStart \/ ScanTask

Spec == Init /\ [][Next]_vars

-----------------------------------------------------------------------------
(* Properties.                                                             *)

Resources == {"mtx", "ioctl_sx", "sysctl", "f1", "sdio_attached", "f2", "ic",
              "handlers", "callbacks", "cv", "f2_sx", "rx_tq", "scan_tq",
              "callout", "tx_queue", "running"}

TypeOK ==
  /\ pc \in ToSet(Attaching) \union ToSet(Detaching)
  /\ res \subseteq Resources
  /\ failing \in BOOLEAN
  /\ clk \in {"none", "alp", "ht"}
  /\ bp_window \in Int    \* of the NVRAM only, whose length is not checked
  /\ sbaddr \in [1 .. 3 -> 0 .. 255]
  /\ torn \in BOOLEAN /\ astray \in BOOLEAN
  /\ todo \in Seq([win : Nat, reg : {"none", "ioctl", "reset_ctl", "vector"},
                   bits : SUBSET {"FGC", "CLK", "CPUHALT", "RESET"}])
  /\ misread \in BOOLEAN
  /\ errors \in 0 .. MaxErrors
  /\ arm \in [ioctl : SUBSET {"FGC", "CLK", "CPUHALT"},
              reset_ctl : SUBSET {"RESET"}]
  /\ vec \in BOOLEAN
  /\ ram \in [0 .. (2 * RamSize - 1) -> {"old", "fw", "nvram"}]
  /\ ram_size \in {0, RamSize, 2 * RamSize}
  /\ core_base \in BOOLEAN
  /\ fw_size \in FwSizes \union {0}
  /\ nvlen \in Nat /\ done \in Nat
  /\ blob \in BlobSizes \union {-1}
  /\ cumulative \in Nat
  /\ begin \in BOOLEAN
  /\ clm \in [open : BOOLEAN, len : Nat, whole : BOOLEAN]
  /\ vap \in BOOLEAN /\ queued \in BOOLEAN /\ crashed \in BOOLEAN
  /\ NvTypeOK

\* An access never goes to another window than was meant, although the registers
\* are written only when bp_window says so and a new softc does not know what they
\* hold, unless a change of the window failed half way.
NeverAstray ==
  astray => torn

\* Both images are where they belong, whole, if there is room for both.
ImagesInRam ==
  fw_size + nvlen <= RamSize =>
    \A a \in 0 .. (RamSize - 1) :
      ram[a] = CASE a < fw_size -> "fw"
                 [] a >= RamSize - nvlen -> "nvram"
                 [] OTHER -> "old"

\* The ARM starts to run only with both images in its RAM, written in pieces that
\* end at the windows, and its reset vector set (cyw_fw_images_write,
\* cyw_bp_write_block, cyw_arm_release), as long as no error was swallowed.
ArmStartsComplete ==
  [][~Running /\ Running' /\ errors' = 0 => ImagesInRam' /\ vec']_vars

\* After any failure of cyw_attach and after cyw_detach the ARM is halted and
\* nothing is left but what the labels forget: ioctl_sx, the locks of a failed
\* cyw_sdpcm_attach, and F1 and its clock when cyw_sdio_attach fails half way.
NothingLeft ==
  pc = "idle" =>
    /\ errors = 0 => ~Running
    /\ res \subseteq {"ioctl_sx", "cv", "f2_sx", "f1"}
    /\ res # {} => failing
    /\ clk # "none" => "f1" \in res
    /\ ~vap /\ ~queued

\* The backplane is accessed only with a clock, and F2 is enabled only with F1.
PowerOrder ==
  /\ todo # << >> => clk # "none" /\ "f1" \in res
  /\ "f2" \in res => "sdio_attached" \in res /\ "f1" \in res

\* Every step of cyw_attach, and every step that undoes one, finds what it needs and
\* leaves nothing behind, wherever the attach fails and whenever the detach comes.
Undone == TypeOK /\ NothingLeft /\ PowerOrder

\* When cyw_clm_load is done the firmware has the whole blob, from one DL_BEGIN to
\* one DL_END, for any size of the blob.
ClmWhole ==
  pc = "clm_status" => clm.whole /\ ~clm.open /\ clm.len = blob

\* A queue exists when it is used ("Enqueueing on rx_tq is safe from any context",
\* cyw43455_cfg.c:1270).
QueueExists ==
  ~crashed
=============================================================================
