# Verification of the Raspberry Pi 5 kernel modules

TLA+ models of the FreeBSD 15 kernel modules for the Raspberry Pi 5 in this
repository, the TLC runs that check them, and TLAPS proofs of the properties
that matter most. The modules are translated from the C code; `PROJECT.json`
maps every definition to the lines it stands for.

## The system

| Component | State | Operations | Shared with | Model |
|---|---|---|---|---|
| `cyw43455_fwil.c`: firmware commands | `ioctl_id`, the wait slot (`ioctl_waiting`, `ioctl_wait_id`, `ioctl_resp_buf`, `ioctl_result`), `ioctl_sx` | `cyw_fil_txrx`, its two paths | receive task, detach, transmit task (F2, `sdpcm_tx_seq`) | CywFwil |
| `cyw43455_sdpcm.c`: SDPCM layer | `rx_tq`, `scan_tq`, the 50 ms callout, `f2_sx`, `sdpcm_rx_max`, `sdpcm_running` | receive task, delivery of answers and events, attach, detach | everything else in the driver | CywFwil, CywTx, CywScan, CywAssoc, CywBoot |
| `cyw43455_cfg.c`: transmission | `tx_queue`, `tx_task` | `cyw_vap_transmit`, `cyw_tx_task`, `cyw_tx_data_frame` | commands (credits), net80211 | CywTx |
| `cyw43455_cfg.c`: net80211 glue | VAP state, keys, `ic_nrunning`, `dongle_up` | newstate, parent, key set and delete, scan start and end, VAP create and delete | link events, commands | CywAssoc, CywScan, CywBoot |
| `cyw43455_scan.c` | `scan_active`, `escan_sync_id`, `bss_cs_cache` | start, abort, result event, chanspecs | `scan_tq`, events, newstate | CywScan |
| `cyw43455_events.c`, `cyw43455_security.c` | handler table, `link_up` | dispatch, link and SSID events, security settings | receive task, net80211 | CywAssoc, CywScan |
| `cyw43455_sdio.c` | `bp_window`, F1, F2, clock | backplane and F2 access, ARM halt and release | everyone who talks to the chip | CywBoot |
| `cyw43455_fw.c` | none after boot | firmware, NVRAM and CLM download | attach | CywNvram, CywBoot |
| `cyw43455.c` | what is allocated | attach ladder and labels, detach | all of the above | CywBoot, CywFwil |
| `bcm2712.c` | `cached_temp_mc`, PWM channels, `bcm2712_sc` | sensor callout, PWM calls, load, unload | `rpi5` | FanControl |
| `rpi5.c` | thresholds, hystereses, speeds, level, previous level | thermal tick, sysctls, load, unload | `bcm2712` | FanControl |
| `bcm2712_pcie.c` | the registered filter and its argument | shared interrupt filter, register, deregister | `rp1_eth` | GemIntr |
| `rp1_eth.c` | rings, `intr_pending`, mask, `gem_poll`, `OACTIVE`, link | filter, poll, task, start, up, down, attach, detach, link tick | stack, `bcm2712_pcie` | GemIntr, GemRing, GemLink |
| `rp1_eth_cfg.c` | clock generator, PHY, USER_IO | MDIO, PHY reset, auto-negotiation, module load and unload | `rp1_eth` | GemLink |
| `rp1_gpio.c` | one mutex | pin functions | none | none |
| `rp1_pcie2_recon.c`, legacy drivers | none | diagnostics, code that is not built | none | none |

What is hard here:

* **Three lock regimes in one driver.** The wireless driver serialises
  transactions with `ioctl_sx`, F2 with `f2_sx` and the wait slot with `mtx`,
  and counts credits under none of them consistently.
* **Answers from a device that owes nothing**: late, lost, failed, or crossing
  the timeout that gave up on them.
* **Two state machines that do not wait for each other.** net80211's VAP states
  and the firmware's join go on at the same time; `cyw_newstate` drops the IC
  lock in the middle, and an event may meet the state of before.
* **Detach against everyone**: callouts, taskqueues and sysctl handlers are
  stopped in an order that has to fit who may still call whom.
* **A filter without a lock.** The Ethernet interrupt filter, a callout and a
  task pass status bits and the interrupt mask to each other on several CPUs.
* **Memory shared with a bus master.** The GEM walks the descriptor rings while
  the driver writes them, a descriptor at a time.
* **Ladders of steps that each may fail**, in two drivers, with errors that some
  accessors swallow.
* **Integer arithmetic** with user-supplied settings in the fan control, and
  buffer sizes computed from file lengths in the download.

The full list, each at its line and with the properties that watch it, is
`hazards` in `PROJECT.json`.

## Modules

### CywFwil: one command at a time

Callers (sysctls, scan tasks, net80211 threads) run `cyw_fil_txrx`. `pc` is the
place of a caller in the function; `waiting`, `wait_id`, `resp_buf`, `get` and
`result` are the fields of the softc. A section under `mtx` is one action; a
section under `ioctl_sx` or `f2_sx` spans several, because those are sleepable
locks and the others go on. The runtime path is `NoCredit`/`Register`, `LockF2`,
`WriteOk`/`WriteFail`, `Withdraw`, `AnsweredEarly`/`Sleep`, `TimerFires`,
`GiveUp`, `Wake`. The boot-time path (`Boot...`, `Poll...`) is also taken by a
sysctl that arrives while the layer stops. The timer and the relock of `mtx` are
two actions, so an answer can slip in between.

The receive task is `RxStart` .. `RxDone`; `cyw_detach` is the chain
`StopRunning` .. `FreeSysctls`. A lock of the destroyed `f2_sx` is undefined
behaviour: `LockF2` may succeed all the same, `HangOnF2` is the other outcome.

The chip is external. `pipe` holds commands and answers; it answers late, out of
order, with an error, or never. `age` is a history field: the number of
transactions begun since the command. `MaxLag < IdMod` is the one assumption on
the chip: an answer is never so late that its 16-bit id has come round.
`buf` and `got` record whose answer a caller received, so that a foreign one
would be visible.

`RemoteCall` is the abstract specification of the `cyw_fil_*` functions: calls
are admitted one at a time, a call hears one answer at most, to its own command,
and it returns OK only with that answer. `Calls == INSTANCE RemoteCall WITH
phase <- ..., answer <- got, data <- buf` forgets the locks, the wait slot, the
receive task, the chip and the detach; `Phase` is where a caller is. A timeout,
a failed write or the detach is a `Finish` with an error, the delivery of the
receive task is `Answer`, and `Collect` is the boot-time path, where the caller
reads the answer itself.

### CywTx: frames, credits and sequence numbers

The data path next to the commands of CywFwil, reduced to senders.
`sdpcm_tx_seq++` is a load and a store, as the two senders do it under
different locks. `VapTransmit` and `VapEnqueue` are separate because the task
is enqueued after the unlock of `tx_queue_mtx`. `Receive` shares the thread of
`cyw_tx_task`, so it only runs when that is idle. `BootSeqs` are the values that
`sdpcm_tx_seq` may have when `cyw_sdpcm_attach` seeds `sdpcm_rx_max`.

### CywScan: two tasks, an abort and the events

net80211 (external) starts and ends scans, which enqueues `scan_start_task` and
`scan_end_task` on `scan_tq`; enqueuing a pending task does nothing. The thread
of `scan_tq` and the thread in `cyw_newstate` both run `cyw_abort_escan`, whose
test of `scan_active`, command and clearing are steps of their own. A command is
one step that needs `f2_sx`, which is free unless the receive task is in a
handler. `Handle` is `cyw_escan_result_handler` with `cyw_add_bss` and the cache
of chanspecs. `Encode`, `ChanspecToChannel`, `ChanspecForJoin` are the bit
arithmetic of the chanspecs; `FwPrimary` is how the firmware reads one. `latest`
and `lost` are history. `MCCywScan` splits the behaviours in two (`aim`): scans and
aborts that overlap with hardly a result, and one scan with enough results to
evict.

### CywAssoc: newstate against the link events

`cyw_newstate` is `ns`, a program counter with what the function has copied; `com`
and `node` are the IC lock and the node lock of net80211. The S_AUTH path copies
BSSID, channel and security at three places with the lock dropped, sends the
security settings, and joins with the `join` iovar or `SET_SSID`. The handlers
of `E_LINK` and `E_SET_SSID` run on the receive task with `f2_sx` held, and read
`iv_state` before they ask for a transition. `cyw_key_set` and `cyw_key_delete`
drop the locks their caller holds, send, and take them back; `walk` is another
thread of net80211 that takes both, which gives the lock order. `cyw_parent`
runs on its own task. `missed` and `unsent` are history.

### CywNvram and CywBoot: from power to `ieee80211_ifattach`, and back

`CywNvram` is `cyw_parse_nvram`, one action per character. What it should
compute is said of the whole text: `Packed` are the characters that leave a byte
(those of lines that are no comments, and the newline behind some of them), and
`Place` counts them, which is where the byte of a character has to be. `CywBoot` is
`cyw_attach` as the sequence `Attaching`, one action per step, with `fail` paths
into the labels, and `cyw_detach` as `Detaching`; a new attach may follow. The
window of the backplane is `bp_window` in the softc and three byte registers
`sbaddr` in the chip, written one by one; `todo` is the list of accesses of the
current step. The images are written by `cyw_bp_write_block` in pieces that end
at a window. `errors` counts the ones that `cyw_bp_read32` and `cyw_bp_write32`
do not report. The CLM blob goes in chunks with `DL_BEGIN` and `DL_END`; `clm` is
what the firmware has received. After `ieee80211_ifattach` the user may create
and delete a VAP at any time.

### GemIntr: the shared interrupt

`bcm2712_pcie_filter`, `cgem_intr_filter`, `cgem_gem_poll`, `cgem_intr_task`,
`ifconfig up` and `down`, the transmit path, `rp1eth_attach` and
`rp1eth_detach`. A section under `sc_mtx` is one action, except in the task,
whose steps the lock-free filter and the GEM can tell apart; `TaskRecv` releases
the mutex for `if_input` as `cgem_recv` does. The filter is one action per
access to shared state. Rings are counts; one frame is one descriptor. Of the
interrupt bits, those that lead to different work are kept: RX_COMPLETE,
RX_USED_READ and TX_USED_READ (the others only count or print). The GEM and the
network stack are external. `MCGemIntr` lets a behaviour have traffic inwards, with
kldunload, or outwards (`traffic`), as the two directions meet in the task only.

### GemRing and Fifo: the descriptor rings

`GemRing` has the rings that GemIntr counts. `cgem_start_locked` writes the
descriptors of a frame from the last to the first, and the GEM, which reads a
ring in its own steps, must not start on half a frame. The early WRAP (a frame
does not cross the end of the ring), the full ring with its `cgem_clean_tx` in
the middle, `cgem_fill_rqueue` with a changing `rxbufs`, `cgem_recv` with the
lock dropped for `if_input`, and `cgem_stop` are all there. A behaviour has
traffic in one direction (`flow`), as the rings share only the lock and
`cgem_stop`.

`Fifo` is the abstract specification of both directions: a queue that is filled
at one end and emptied at the other, and that going down may empty.
`TxFifo == INSTANCE Fifo WITH q <- TxFrames, out <- sent, up <- running` maps the
frames in the ring that are not sent, the one being written and the send queue
to one queue; `RxFifo` maps the chain in `cgem_recv`'s hands and the descriptors
the GEM has filled. Run `ring` checks that GemRing implements both.

### GemLink: clock, PHY and link poll

`MOD_LOAD` of `rp1_eth_cfg.c` is the sequence `Loading`, with its error returns,
and `MOD_UNLOAD` is `Unloading`. `netctl`, `usrio`, `netcfg` and `clk` are the
registers; a write of NET_CTRL clears USER_IO. `sampled` is the clock that the
PHY saw when it left reset. The copper side is external: a partner is plugged
and unplugged at any time, BMSR latches a loss. `rp1eth_tick` reads BMSR
twice (`TickFirst`, `TickSecond`), MDIO may time out (`TickTimeout`), and
`TickClk` is the change of the clock when the link is new. As `rp1eth_mdio_read`
polls for idle at once, each reading may also be `Early`: over before the
transaction, all ones, whatever the PHY says. Sysctl handlers may
read at any time and `sysctl_ctx_free` waits for them.

### FanControl: sensor, level, PWM

`bcm2712` (sensor callout, PWM calls, load and unload) and `rpi5` (thermal
tick, sysctls, load and unload). A tick has two actions, `TickLevel` and
`TickDrive`, because the sysctls are plain variables that take no lock; the
thresholds and hystereses, which the code reads one by one, are read in one step.
`Word` is the modulus of `uint32_t`: the subtraction of the hysteresis and the product
of the speed wrap. `MCFanControl` gives the calibration and the defaults of the
code and the readings and writes to try.

Each module keeps, next to a mapped definition, a variant of it with a plausible
slip (the comment says "Slip"). No specification uses them; `mutants` in
`PROJECT.json` says which property notices which one.

## What the runs show

`pass` runs:

| Run | Instance | Shows |
|---|---|---|
| `fwil` | 2 callers, 2 ids, answers 1 transaction late | one transaction at a time; own answers only; no write through a dangling `ioctl_resp_buf`; one F2 user while running; locks outlive callers; `cyw_fil_txrx` implements `RemoteCall` (`ImplementsCalls`), so failures are clean; every transaction ends and `cyw_detach` completes |
| `tx` | 3 frames, 1 command, numbers modulo 4 | frames leave in order (`DataInOrder`); no leak, no double free, no stranded frame (`NoneLost`); every frame is sent or freed |
| `scan` | 3 access points, cache of 2, 2 scans | `scan_active` never sticks and the cache is the latest (`ScanStateSound`); a join has the whole chanspec last heard, and only a full cache loses it (`JoinsAsHeard`); the flag clears |
| `assoc` | 2 networks, 3 requests, 1 loss, 1 key operation | what settles is what was chosen; states follow the link (`FollowsLink`); `dongle_up` follows the interface; no circle of waiting threads |
| `boot` | RAM of 4 windows, 4 image sizes, 1 swallowed error | accesses reach their window; the NVRAM buffer is large enough and its contents are the file's; nothing is left after any failure (`Undone`); the CLM blob is whole; the ARM starts with complete images |
| `ring` | 7 and 2 descriptors, frames of 1 or 2 segments | every mbuf and descriptor has one owner (`RingsOwned`); both rings implement `Fifo` |
| `link` | 3 partners, 2 rounds of waiting | load and unload are safe at any time (`Unloadable`); the PHY leaves reset with the clock at 125 MHz, and clock and MAC are set together, at load to the speed of the line (`LineReady`); a link that stays is reported, after early readings and timeouts too (`LinkIsReported`) |
| `gem` | 1 receive buffer, kldunload; ring of 1, queue of 1 | no frame without its event and no mask left behind (`EventsKept`), quiet at `free(sc)`, a full transmit ring is reclaimed (`OactiveWakes`), frames reach the stack |
| `fan` | 5 readings, 3 writes | off after unload; the level is what the thresholds say (`LevelIsHighestRung`); the duty is one of the four speeds and not less than the README's table gives the level (`CoolsAsPromised`); settings take effect, a hot sensor brings the highest level |

`violation` runs state what a document, comment or test of the repository says
and find a behaviour of the code that differs; the quotations are in `findings`:

* `fan_unload`: unloading `bcm2712` can deadlock.
* `link_speed`: `cgem_config` sets NET_CFG to 1G on every up, and the clock of the
  RGMII follows NET_CFG, also when the line was negotiated at 10 or 100 Mbit/s.
* `link_mdio`: `rp1eth_mdio_read` lacks the DELAY that `rp1_eth_cfg.c:342-349`
  explains. A reading that is over before its transaction has all bits set, and
  a dead link is reported up until a later poll.

### Claims that do not hold, kept without a run

These definitions state a claim of the repository that the model refutes. To see
the behaviour, put the definition in place of the properties of the cfg named.

| Definition | Claim | What happens | cfg |
|---|---|---|---|
| `CywFwil!F2Exclusive` | F2 has one user at a time | a sysctl on the boot-time path does not take `f2_sx` once `sdpcm_running` is cleared | `CywFwil.cfg` |
| `CywTx!SendsWithinCredit` | senders stay within the ceiling of the chip | the test of the credit and the increment are under different locks | `CywTx.cfg` |
| `CywBoot!QueueExists` | "Enqueueing on rx_tq is safe from any context" (`cyw43455_cfg.c:1270`) | `ieee80211_ifattach` and the callbacks come before `cyw_sdpcm_attach`: a VAP can enqueue on a queue that is not there yet | `CywBoot.cfg` |
| `CywScan!JoinsWide` | a join needs the chanspec of the access point, with its width: "need the cache" (`cyw43455_scan.c:178-182`, `222-224`) | `CacheSize` other access points evict the entry, and a 40 or 80 MHz access point is joined with a chanspec of 20 MHz; what remains is `JoinsAsHeard` | `CywScan.cfg` |
| `FanControl!Hysteresis` | level 1 "won't drop back to Level 0 until temperature falls below 45°C (50 - 5)" (`INTEGRATION_GUIDE.md:93`) | the hysteresis is tested only where the threshold is reached already (`rpi5.c:138-149`), so it never has an effect: at 49.6 °C level 1 falls to 0 (lemma `HysteresisIsIdle`); what remains is `LevelIsHighestRung` | `FanControl.cfg` |
| `FanControl!SpeedAsPromised` | level n runs at `speed<n-1>` (`README.md:141-144`, `154-160`, `INTEGRATION_GUIDE.md:81-86`, `tools/rpi5_fan_matrix_test.sh`) | `rpi5.c:179-186` takes `speed<n>` for the levels 1 to 3, so level 3 has the duty of level 4; what remains is `CoolsAsPromised` | `FanControl.cfg` |
| `GemIntr!TrafficViaPoll` | the poll works without `bcm2712_pcie` | only the filter arms it, so it never starts | `GemIntr.cfg` with `Hooked = FALSE` |
| `GemIntr!ArgReadOnlyWithFilter` | the filter and its argument belong together | the interrupt may load a cleared argument | `GemIntr.cfg` |
| `GemLink!UsrioKept` | a write of NET_CTRL is followed by USER_IO (`rp1_eth_cfg.c:1249`) | `rp1_eth.c:1046` and the PAUSE write at `rp1_eth_cfg.c:1290` are not | `GemLink.cfg` |

### Differences seen while modelling that need no run

* Fan: the `hw.rpi5.fan` sysctls accept values out of range, as the checking
  handlers are not registered. `INTEGRATION_GUIDE.md:82` has the fan off below
  50 °C; the README and the code let it idle at `speed0`.
* Commands: a sysctl caller can go to sleep on `ioctl_cv` after the only wake-up
  of `cyw_sdpcm_detach` (it times out after three seconds).
* Scan: `cyw_abort_escan` can skip a scan whose start command is still on its way
  (`cyw43455_cfg.c:114`). A 40 MHz chanspec in 2.4 GHz in the D11AC layout is
  decoded as D11N, so the channel is not the primary one that
  `cyw43455_scan.c:257` promises; `JoinsAsHeard` leaves that width out.
* Association: a join failure that arrives before `iv_state` is S_AUTH leaves the
  VAP in S_AUTH (`cyw43455_security.c:246` says "drop the VAP back to SCAN").
* Boot: `ioctl_sx` is not destroyed when `cyw_attach` fails, F1 and its clock stay
  on when `cyw_sdio_attach` fails half way, and a failed `cyw_sdpcm_attach` keeps
  its locks. `NothingLeft` names exactly these.
* Ethernet: the late `callout_stop` of `cgem_intr_filter` can cancel the poll that
  the task it enqueued has re-armed (traffic recovers at the next shared
  interrupt, which is what `FramesDelivered` shows); a late `cgem_start` can fill
  the ring of a stopped interface; `rxbufs` above 256 is compared with the ring
  without a check (`RxBufs` is within the ring here); `cgem_init_locked` forgets
  the promiscuous and multicast bits; the checksum ioctls cannot be reached.
* Link: `mac_kva` leaks on the error path at `rp1_eth_cfg.c:713` (`treefail`).

### History variables that exclude a case

The code does not handle a case that the variable records; the property holds
otherwise, and the README lists the case above.

| Property | Excludes | The case |
|---|---|---|
| `OactiveWakes` | `stale` | frames put in the ring of a stopped interface, which `cgem_init_locked` does not clear |
| `QuietAtFree` | `raced` | a task in `if_input` during the `cgem_stop` of the detach, an `ifconfig up` after it, an interrupt in flight at the deregistration |
| `FlagNeverSticks`, `FlagClears` | `lost` | an event that the chip does not deliver |
| `StuckOnlyByEarlyEvent` | `missed`, `unsent` | an event that met the state of before; a join neither of whose commands was accepted |
| `SettlesOnChosen` | `unsent` | the same failed join |
| `NeverAstray` | `torn` | a change of the window that failed half way |
| `GemLink!NothingLeft` | `treefail` | the load that could not make its sysctl node |

### Bounds

* CywFwil: with ids modulo 2 and a lag of 1 an id comes round exactly when the
  assumption `MaxLag < IdMod` allows no more; a sysctl and a scan task are the two
  kinds of callers that the detach waits for at different stages. The safety
  properties are proved without these bounds.
* CywTx: sequence numbers modulo 4 with a window of 2 wrap within the run, and
  both boot values leave the seed equal to, or behind, the number. Three frames
  are one in hand, one in the list and one in the queue.
* CywScan: two
  scans are one aborted and one started after it, which the terminal event of
  the first can meet; with `aim = "flag"` one result is enough for them. With
  `aim = "cache"` one scan has three results: three access points and two slots fill
  the cache, update an entry, and evict one. `MCBeacons` has an access point that
  moves between the halves of a 40 MHz channel, one in an 80 MHz block and one of
  20 MHz; the other forms are covered by the proof (`FormDecodes`).
* CywAssoc: three requests are up, a choice, and another choice or a down during
  the first join; one loss and one key operation meet each of its steps.
* CywBoot: images smaller than a window, across one border, of two windows and
  larger than RAM; texts of the NVRAM with comments, blank lines, carriage
  returns and without a last newline (`MCTexts`, every text of up to four
  characters); blobs of no, one and several chunks, with and without a rest.
* GemRing: 7 descriptors and frames of up to 2 wrap with and without a gap, and
  fill up; 2 receive descriptors with 0, 1 or 2 posted are empty, partly and
  completely full. `Ids` names suffice, as a frame only needs to differ from the
  ones that are still in flight.
* GemLink: a partner for each speed; `MaxPolls = 2` waits in vain or not.
  `ResolvesBest`, evaluated by TLC, compares the resolution of speed and duplex
  with IEEE 802.3 for every set of modes.
* GemIntr: with one receive buffer the ring is full or empty after every frame,
  and a frame can arrive between the clearing of the status and the reading of
  the ring; a transmit ring of one descriptor is full with one frame, and a second
  one waits in the queue. The proofs have rings of any size. There is one
  interrupt at a time, as the line is handled on one CPU.
* FanControl: the readings cover the levels, the clamp, equality with a threshold
  and the band of the hysteresis; the writes put thresholds out of order, make
  a subtraction wrap, and give the highest level full speed. `Word` is 2^30 in the
  runs, since TLC's integers end at
  2^31 - 1; the largest product of a speed and the period is below it.

The constants that bound otherwise unbounded quantities, each in a guard, are
`MaxLag`, `NFrames`, `NCommands`, `MaxSend`, `Cpus`, `MaxScans`, `MaxEvents`,
`MaxReports`, `MaxRequests`, `MaxLosses`, `MaxKeyOps`, `MaxErrors`.

`CHECK_DEADLOCK FALSE` is given where the bounds let a behaviour end (`scan`,
`assoc`), where a use of a queue that does not exist ends it (`boot`), and where
a load after the leak of `treefail` is left out (`link`).

### Fairness

* CywFwil: a caller that can run does; its timer and poll budgets are finite;
  a receive pass ends (`recv_one` returns EAGAIN). Strong fairness only for
  `f2_sx`, which is free for most of every 50 ms. Nothing is assumed of the
  chip, nor that anyone calls.
* CywTx: the thread of `rx_tq` and a thread that has to enqueue or write run;
  strong fairness for `f2_sx`.
* CywScan: the thread of `scan_tq`, the aborting threads and the receive task
  run. The firmware finishes what it scans, and net80211 ends a scan after its
  dwell time.
* GemLink: the callout of the link poll fires; MDIO does not time out for ever
  (strong fairness of the second reading).
* GemIntr: callouts and tasks run, with strong fairness for `sc_mtx`. Weak
  fairness of the filter rests on the shared line: the repository's README
  measures a background rate of about 4.4 interrupts a second from USB.
* FanControl: callouts fire, and an unload whose wait is over goes on. Nobody
  has to load, unload or write.

The other modules have safety properties only.

## What is proved

For every value of the constants, with TLAPS:

* `CywFwilProofs`: `TypeCorrect`, `NoConcurrentIoctl`, `NoForeignAnswer`,
  `FailuresAreClean`, `F2Mutex`, `SafeDestroy`, `BufferOutlivesWait`, that is
  every safety property of run `fwil`, and `CallsKept` (`ImplementsCalls`), the
  refinement of `RemoteCall`, for any set of callers and any number of
  ids. Assumptions: the kinds of callers are subsets of `Callers`,
  `MaxLag \in 0 .. IdMod - 1`. None of the properties is inductive. `IInv` adds:
  - `Serialised`, `LocalId`: `ioctl_sx` is held exactly inside the transaction,
    and nobody increments `ioctl_id` meanwhile;
  - `F2Held`: who holds `f2_sx`;
  - `WaitIsLive`, `WaitSlot`: a registered wait belongs to a caller that has not
    read its result, so a delivery hits a live buffer;
  - `NotYet`, `Explained`: the result, in the slot or returned, agrees with what
    was copied; this is what makes a timeout that an answer overtook correct;
  - `Ages`: id and age of a frame add up to the current id, modulo `IdMod`; with
    `MaxLag < IdMod` a frame with the current id has age 0 (`FreshFrame`), which
    is why matching ids is enough;
  - `DetachOrder`: the callers each stage of the detach has waited for.

  `CallsKept` goes through the actions with `IInv` as hypothesis: `ReturnCalls`
  is shared by all ways out of a transaction and needs `Explained`; the delivery
  of the receive task is an `Answer` because of `WaitIsLive` (the owner of
  `ioctl_resp_buf` is in its transaction), `NotYet` (it has no answer yet) and
  `FreshFrame` (the frame is its own); everything else leaves `phase` alone.
* `FanControlProofs`: `TypeCorrect`, `FanIsOff`, `DependencyHolds` (no tick of
  `rpi5` without `bcm2712`), `LevelIsRight`, for all readings, settings and
  calibrations. `InStep` relates the two modules and the callout. Lemma
  `HysteresisIsIdle` shows why `Hysteresis` fails: without a wrap, the hysteresis
  term is implied by the threshold test in front of it. `CoolingKept`
  (`CoolsAsPromised`): under the hypothesis `Exact`, that the period is a whole
  number of PWM clocks per step of the speed with a rest that rounding removes
  and the product does not overflow, scaling (`SpeedDuty`) and rounding
  (`Ticks`) return the speed itself (`ScaledBack`), so that the order of the
  speeds is the order of the duties. TLC evaluates `Exact` for the
  numbers of the code (`ExactAssumption` of `MCFanControl`; the rest is 1 ns).
* `CywBootProofs`: every property of run `boot`, for texts, images, blobs, chunks
  and windows of any size, any number of swallowed errors and any number of
  attempts to attach: `NvramAlwaysFits` and `BootNvramFits` (`NvramFits`),
  `NvramPacked` (`NvramIsTheFile`), `OnItsWindow` (`NeverAstray`), `AttachUndone`
  (`Undone`), `ClmDelivered` (`ClmWhole`), `ArmComplete` (`ArmStartsComplete`). No
  assumption but those of `CywNvram` and `CywBoot` on their constants. Attach and
  detach are straight lines with exits, so most parts of `IInv` are indexed by
  the step:
  - `ResSound`: what may be held (`May`) and what must be at each step, while
    going up and while failing; `ClkSound`, `UserSound` the same for the clock
    and for what the user can do;
  - `OpsSound`: the list `todo` of backplane accesses of a step, each described
    by its place from the end (`Ordered`), as the list is consumed from the
    front; it says which register is written with which bits, and when;
  - `WindowSound`: the three SBADDR registers hold what `bp_window` says, unless
    a change was torn or none was made yet, and then the first access makes one;
  - `HaltSound`, `VecSound`: CPUHALT is set from the halt to the release, and the
    reset vector is written before the ARM is touched;
  - `RamSound`: what of RAM is written, up to `done`, in each of the two
    downloads (`RamIs`);
  - `ClmSound`: `cumulative`, the length the firmware has, and `DL_BEGIN`;
  - `NvInv`: no more bytes are packed than characters are read, and the packed
    list is as long as its padding makes it; the lemmas on `RoundUp4` connect
    that with the size computed from the length of the text alone.

  `bp_window` can be negative for an NVRAM longer than RAM, as `cyw_fw_images_write`
  does not compare the two; `TypeOK` says so, and `ImagesInRam` asks for images
  that fit.

  `NvramPacked` has an invariant of its own, `FileInv`: `in_comment` and `at_bol`
  say what the line has had so far (`FlagsSound`), and the buffer has a byte for
  each of the characters in `Packed`, at its `Place` (`Holds`). A step adds one
  character to the set and one byte to the buffer, or neither (`PlaceNext`,
  `PlaceSame`), so no induction over the text is needed. `Parses` shows that
  the driver does to the parser only what `NvNext` allows.

* `CywTxProofs`: `SubmissionOrder` (`DataInOrder`) and `MbufsSafe` (`NoneLost`), for
  any number of frames and commands, any window and any range of sequence
  numbers. Order on the wire is not inductive: the invariant `Stages` orders
  all the places a frame passes (wire before the frame in hand, before the list
  of the task, before the queue), and `Accounted` says that each frame submitted
  is in one of them or freed. Neither holds without the other (`Way`).
* `CywAssocProofs`: `ParentRight` (`DongleFollows`), `JoinsChosen`
  (`SettlesOnChosen`), `LinkFollowed` (`FollowsLink`), `NoDeadlock`
  (`NoWaitCycle`), for any set of access points and any number of requests,
  losses and key operations. Assumption: `NoOne` is no waiter. `IInv` adds:
  - `Steps`, `Copies`, `Joined`: what `cyw_newstate` has copied is what net80211
    has chosen, unless another S_AUTH is waiting on the state task;
  - `LinkTold`, `RunIsTold`, `AuthIsTold`: the last link event on its way agrees
    with the firmware, and where `Final`, the state net80211 is heading for,
    does not fit the link, an event that will correct it is on its way;
  - `KeyLocks`, `WalkLocks`: who holds the IC and the node lock at which step;
  - `ParentSound`: `cyw_parent` in its commands is right or will run again.
* `GemIntrProofs`: `NoEventLost` (`EventsKept`), `FreedAtRest` (`QuietAtFree`),
  `OactiveCleared` (`OactiveWakes`), for any number of buffers and CPUs and any
  size of the ring. `IInv` adds: who has `sc_mtx` (`Holds`); RX_COMPLETE stays latched
  until the ring is read after it (`FramesLatched`); the same for what is sent
  (`TxSound`); what each stage of `rp1eth_detach` has stopped (`LifeSound`).
* `CywScanProofs`: `ScanSound` (`ScanStateSound`) and `JoinChanspec`
  (`JoinsAsHeard`), for any number of access points and slots. Assumptions:
  a chanspec fits its `uint16_t`; for `JoinChanspec`, the hypothesis `Form`, the
  widths and positions that the driver decodes (2.4 GHz at 40 MHz is not one of
  them, see above). `FlagSound` says who has the flag once `cyw_do_escan` has let
  go of it: the firmware, a terminal event, the handler, or an abort; `Known`
  and `TableHeard` connect cache and table with the beacons reported; `FillsFirst`
  says that nothing is evicted while a slot is free. The arithmetic of the
  chanspecs is `FormDecodes`, `SimplePrimary` and `SimpleEncodes`.
* `GemLinkProofs`: `LoadUnload` (`Unloadable`), `LineAgrees` (`LineReady`), for any
  set of link partners and any number of polls. Load and unload are straight
  lines, so the invariant is indexed by the step: `Held` is what is allocated at
  each, `ClkSound` and `PhySound` how the clock and the PHY are set; `TickSound`
  and `MacSound` confine the interface and its poll to the time between attach
  and detach; `LoadSound` is what load does to speed and clock once it knows
  the mode, and `ToldSound` that a link is reported only with its clock. That the
  speed is the one of the line is said of the load alone; later it fails
  (`link_speed`).

Only model-checked:

* the liveness properties (`TransactionEnds`, `DetachCompletes`, `FramesLeave`,
  `FlagClears`, `LinkIsReported`, `FramesDelivered`, `SpeedTakesEffect`,
  `HotRunsMax`), since TLAPS does not treat fairness or `ENABLED`;
* GemRing: the positions of `RingsOwned` are those of a queue that follows the
  WRAP bits of its descriptors, which is defined by recursion (`Queued`), and the
  refinements of Fifo (`TransmitsInOrder`, `ReceivesInOrder`) select from it; what
  such definitions compute takes an induction over data.

Every other property of a passing run is a theorem.

## What is not modelled

* Contents of frames, keys and register layouts; reads and writes of hardware
  that only set it up; counters and messages.
* `rp1_gpio` (single register accesses under one mutex), `rp1_pcie2_recon`
  (prints registers), the legacy drivers (not built), the generated kernel
  interface headers, tools and tests.
* The delivery of received data frames (`cyw_sdpcm_copy_data` and the list that
  `cyw_sdpcm_task` passes up after it has released `f2_sx`): local to the task.
* The checks of malformed events and frames; the EROM scan and the sizes of the
  RAM banks beyond their result; the power-save registers of `cyw_sr_init`.
* The checking sysctl handlers of `rpi5.c`, which are not used, and the PSK sysctl,
  which stores what no command reads.
* Statistics and the multicast hash of `rp1_eth`; register dumps.
* Failures of `malloc` with `M_WAITOK`. Kernel services (callouts, taskqueues, sx
  locks, `sysctl_ctx_free`, net80211's tasks) behave as documented by FreeBSD.

`PROJECT.json` lists every component with its status and the reason.

## Plan

1. CywFwil with RemoteCall, FanControl, CywNvram, CywTx, CywScan, CywAssoc,
   CywBoot, GemIntr, GemRing with Fifo, GemLink, and the proofs above (done).
2. A description of the frames in the transmit ring that needs no recursion (where
   each begins, and where the ring wraps), as a basis for a proof of `RingsOwned`.
3. A composition of GemIntr's events with GemRing's rings, if an instance is small
   enough.
