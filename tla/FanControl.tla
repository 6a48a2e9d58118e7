------------------------------ MODULE FanControl ------------------------------
(***************************************************************************)
(* The cooling fan: the AVS temperature sensor and the PWM of bcm2712, the *)
(* thermal callout of rpi5 that picks a fan level once a second, the       *)
(* hw.rpi5.fan sysctls, and loading and unloading of the two modules.      *)
(*                                                                         *)
(* Temperatures are in milli-Celsius and times in ns, as in the code.      *)
(* Word stands for 2^32, which TLC cannot represent.                       *)
(***************************************************************************)
EXTENDS Integers

CONSTANTS
  Word,           \* number of values of a uint32_t
  MaxTemp,        \* the clamp of a reading, 120000
  Offset, Slope,  \* calibration of the sensor, 450000 and 550
  Period,         \* PWM period of the fan, 41566 ns
  ClkPeriod,      \* RP1_PWM_CLK_PERIOD_NS, 163
  FullSpeed,      \* the speed that is a duty of 100 %, 255
  DefaultTemp,    \* before the first reading, 50000
  DefaultTemps, DefaultHysts, DefaultSpeeds,
  Codes,          \* codes the sensor may show
  Settings        \* writes of sysctl(8): <<"temps" | "hysts" | "speeds", i, v>>

Rungs  == 0 .. 3
Levels == 0 .. 4
Words  == 0 .. (Word - 1)
Temps  == 0 .. MaxTemp

ASSUME WordAssumption ==
  /\ Word \in Nat \ {0}
  /\ MaxTemp \in Nat
  /\ Offset \in Int
  /\ Slope \in Int
ASSUME PwmAssumption ==
  /\ Period \in Nat
  /\ ClkPeriod \in Nat \ {0}
  /\ FullSpeed \in Nat \ {0}
ASSUME DefaultAssumption ==
  /\ DefaultTemp \in Temps
  /\ DefaultTemps \in [Rungs -> Words]
  /\ DefaultHysts \in [Rungs -> Words]
  /\ DefaultSpeeds \in [Rungs -> Words]
ASSUME InputAssumption ==
  /\ Codes \subseteq Nat
  /\ Settings \subseteq {"temps", "hysts", "speeds"} \X Rungs \X Words

VARIABLES
  raw,       \* the AVS register: its valid bit and its code
  cached,    \* cached_temp_mc of bcm2712
  avs,       \* thermal_callout of bcm2712
  soc,       \* module bcm2712
  temps,     \* fan_temp0 .. fan_temp3
  hysts,     \* fan_temp0_hyst ..
  speeds,    \* fan_temp0_speed ..
  cpu_temp,
  state,     \* fan_current_state
  prev,      \* fan_prev_state
  tick,      \* thermal_callout of rpi5
  fan,       \* module rpi5
  pwm        \* duty (in PWM clocks) and enable bit of channel 3

socVars == <<raw, cached, avs, soc>>
cfgVars == <<temps, hysts, speeds>>
lvlVars == <<cpu_temp, state, prev>>
vars == <<socVars, cfgVars, lvlVars, tick, fan, pwm>>

TypeOK ==
  /\ raw \in [valid : BOOLEAN, code : Codes]
  /\ cached \in Temps
  /\ avs \in {"off", "armed", "fired"}
  /\ soc \in {"absent", "loaded", "draining"}
  /\ temps \in [Rungs -> Words]
  /\ hysts \in [Rungs -> Words]
  /\ speeds \in [Rungs -> Words]
  /\ cpu_temp \in Temps
  /\ state \in Levels
  /\ prev \in Levels
  /\ tick \in {"off", "armed", "drive"}
  /\ fan \in {"absent", "loaded", "stopping", "drained", "unloaded"}
  /\ pwm \in [duty : Nat, enabled : BOOLEAN]

\* Before the modules are loaded the boot firmware has the fan.
Init ==
  /\ raw \in [valid : BOOLEAN, code : Codes]
  /\ cached = DefaultTemp
  /\ avs = "off"
  /\ soc = "absent"
  /\ temps = DefaultTemps
  /\ hysts = DefaultHysts
  /\ speeds = DefaultSpeeds
  /\ cpu_temp = DefaultTemp
  /\ state = 0
  /\ prev = 0
  /\ tick = "off"
  /\ fan = "absent"
  /\ pwm \in [duty : {0}, enabled : BOOLEAN]

-----------------------------------------------------------------------------
(* bcm2712: the sensor.                                                    *)

\* The chip produces readings, valid or not.
Sense ==
  /\ raw' \in [valid : BOOLEAN, code : Codes]
  /\ UNCHANGED <<cached, avs, soc, cfgVars, lvlVars, tick, fan, pwm>>

Clamp(t) == IF t < 0 THEN 0 ELSE IF t > MaxTemp THEN MaxTemp ELSE t
Millic(code) == Clamp(Offset - Slope * code)

\* bcm2712_thermal_read_raw keeps the old value when the reading is not valid.
ReadRaw == IF raw.valid THEN Millic(raw.code) ELSE cached

LoadSoc ==
  /\ soc = "absent"
  /\ soc' = "loaded"
  /\ cached' = DefaultTemp
  /\ avs' = "armed"
  /\ UNCHANGED <<raw, cfgVars, lvlVars, tick, fan, pwm>>

\* The callout is due; softclock goes for thermal_mtx.
AvsFires ==
  /\ avs = "armed"
  /\ avs' = "fired"
  /\ UNCHANGED <<raw, cached, soc, cfgVars, lvlVars, tick, fan, pwm>>

\* Slip: the callout does not re-arm itself.
ThermalUpdateOnce ==
  /\ avs = "fired"
  /\ soc # "draining"
  /\ cached' = ReadRaw
  /\ avs' = "off"
  /\ UNCHANGED <<raw, soc, cfgVars, lvlVars, tick, fan, pwm>>

\* bcm2712_thermal_update, under thermal_mtx.
ThermalUpdate ==
  /\ avs = "fired"
  /\ soc # "draining"
  /\ cached' = ReadRaw
  /\ avs' = "armed"
  /\ UNCHANGED <<raw, soc, cfgVars, lvlVars, tick, fan, pwm>>

\* MOD_UNLOAD, which the kernel refuses while rpi5 depends on bcm2712: clear
\* bcm2712_sc, lock thermal_mtx, and call callout_drain with the mutex held.
UnloadSoc ==
  /\ soc = "loaded"
  /\ fan \in {"absent", "unloaded"}
  /\ soc' = "draining"
  /\ UNCHANGED <<raw, cached, avs, cfgVars, lvlVars, tick, fan, pwm>>

\* callout_drain cancels a pending callout and waits for a running one, which
\* waits for thermal_mtx.  Then everything is freed.
DrainAvs ==
  /\ soc = "draining"
  /\ avs # "fired"
  /\ avs' = "off"
  /\ soc' = "absent"
  /\ UNCHANGED <<raw, cached, cfgVars, lvlVars, tick, fan, pwm>>

-----------------------------------------------------------------------------
(* bcm2712: the PWM.  bcm2712_sc is set while the module is loaded.        *)

Ticks(ns) == (ns + ClkPeriod \div 2) \div ClkPeriod

SetConfig(p, duty_ns) ==
  IF soc = "loaded" THEN [p EXCEPT !.duty = Ticks(duty_ns)] ELSE p
Enable(p, on) ==
  IF soc = "loaded" THEN [p EXCEPT !.enabled = on] ELSE p

-----------------------------------------------------------------------------
(* rpi5: the level.                                                        *)

\* Slip: a threshold must be exceeded.
OnRungStrict(n, t) ==
  /\ t > temps[n - 1]
  /\ prev < n \/ t >= (temps[n - 1] - hysts[n - 1]) % Word

\* The condition for level n in 1 .. 3, in uint32_t arithmetic.
OnRung(n, t) ==
  /\ t >= temps[n - 1]
  /\ prev < n \/ t >= (temps[n - 1] - hysts[n - 1]) % Word

NewState(t) ==
  IF t >= temps[3] THEN 4
  ELSE IF OnRung(3, t) THEN 3
  ELSE IF OnRung(2, t) THEN 2
  ELSE IF OnRung(1, t) THEN 1
  ELSE 0

\* bcm2712_read_cpu_temp, or the old value when it fails.
ReadCpuTemp == IF soc = "loaded" THEN cached ELSE cpu_temp

\* Slip: the PWM is programmed only when the level has changed.
TickLevelOnChange ==
  /\ tick = "armed"
  /\ tick' = IF NewState(ReadCpuTemp) = state THEN "armed" ELSE "drive"
  /\ cpu_temp' = ReadCpuTemp
  /\ state' = NewState(ReadCpuTemp)
  /\ prev' = IF state' # state THEN state ELSE prev
  /\ UNCHANGED <<socVars, cfgVars, fan, pwm>>

\* rpi5_thermal_tick up to the choice of the level.  It holds cooling_fan.mtx
\* until it ends, but the sysctls, plain integers, take no lock: a write may
\* fall between this step and the next.  (The thresholds and hystereses are
\* read one after another; a write between two of these reads is left out.)
TickLevel ==
  /\ tick = "armed"
  /\ tick' = "drive"
  /\ cpu_temp' = ReadCpuTemp
  /\ state' = NewState(ReadCpuTemp)
  /\ prev' = IF state' # state THEN state ELSE prev
  /\ UNCHANGED <<socVars, cfgVars, fan, pwm>>

\* Slip: the speed is scaled by 250.
SpeedDutyOverscaled(s) == ((s * Period) % Word) \div (FullSpeed - 5)

\* duty = (speed * period) / 255, in ns.
SpeedDuty(s) == ((s * Period) % Word) \div FullSpeed

LevelSpeed == IF state = 4 THEN speeds[3] ELSE speeds[state]

\* ... and the rest: the speed of the level goes to the PWM on every tick, and
\* the tick re-arms itself while thermal_active.
TickDrive ==
  /\ tick = "drive"
  /\ tick' = IF fan = "loaded" THEN "armed" ELSE "off"
  /\ pwm' = Enable(SetConfig(pwm, SpeedDuty(LevelSpeed)), TRUE)
  /\ UNCHANGED <<socVars, cfgVars, lvlVars, fan>>

-----------------------------------------------------------------------------
(* rpi5: settings, load and unload.                                        *)

\* A write to one of the SYSCTL_ADD_UINT variables: no handler, no lock.
Sysctl ==
  /\ fan \in {"loaded", "stopping", "drained"}
  /\ \E w \in Settings :
       /\ temps'  = IF w[1] = "temps"
                      THEN [temps EXCEPT ![w[2]] = w[3]] ELSE temps
       /\ hysts'  = IF w[1] = "hysts"
                      THEN [hysts EXCEPT ![w[2]] = w[3]] ELSE hysts
       /\ speeds' = IF w[1] = "speeds"
                      THEN [speeds EXCEPT ![w[2]] = w[3]] ELSE speeds
  /\ UNCHANGED <<socVars, lvlVars, tick, fan, pwm>>

\* MOD_LOAD: fresh variables, fan off, and the callout is started.
LoadFan ==
  /\ soc = "loaded"
  /\ fan \in {"absent", "unloaded"}
  /\ fan' = "loaded"
  /\ temps' = DefaultTemps
  /\ hysts' = DefaultHysts
  /\ speeds' = DefaultSpeeds
  /\ cpu_temp' = DefaultTemp
  /\ state' = 0
  /\ prev' = 0
  /\ pwm' = Enable(SetConfig(pwm, 0), TRUE)
  /\ tick' = "armed"
  /\ UNCHANGED socVars

\* MOD_UNLOAD: thermal_active = 0 under the mutex, ...
StopFan ==
  /\ fan = "loaded"
  /\ tick # "drive"
  /\ fan' = "stopping"
  /\ UNCHANGED <<socVars, cfgVars, lvlVars, tick, pwm>>

\* Slip: callout_stop in place of callout_drain.
DrainTickNoWait ==
  /\ fan = "stopping"
  /\ tick' = IF tick = "armed" THEN "off" ELSE tick
  /\ fan' = "drained"
  /\ UNCHANGED <<socVars, cfgVars, lvlVars, pwm>>

\* ... callout_drain, without the mutex, ...
DrainTick ==
  /\ fan = "stopping"
  /\ tick # "drive"
  /\ tick' = "off"
  /\ fan' = "drained"
  /\ UNCHANGED <<socVars, cfgVars, lvlVars, pwm>>

\* ... fan off; the sysctls and the mutex go.
TurnOff ==
  /\ fan = "drained"
  /\ pwm' = Enable(pwm, FALSE)
  /\ fan' = "unloaded"
  /\ UNCHANGED <<socVars, cfgVars, lvlVars, tick>>

-----------------------------------------------------------------------------
Next ==
  \/ Sense \/ LoadSoc \/ AvsFires \/ ThermalUpdate \/ UnloadSoc \/ DrainAvs
  \/ TickLevel \/ TickDrive \/ Sysctl
  \/ LoadFan \/ StopFan \/ DrainTick \/ TurnOff

Spec == Init /\ [][Next]_vars

\* Callouts fire, and an unload that can go on does.
Fairness ==
  /\ WF_vars(AvsFires) /\ WF_vars(ThermalUpdate) /\ WF_vars(DrainAvs)
  /\ WF_vars(TickLevel) /\ WF_vars(TickDrive)
  /\ WF_vars(DrainTick) /\ WF_vars(TurnOff)

FairSpec == Spec /\ Fairness
-----------------------------------------------------------------------------
(* Properties.                                                             *)

\* Once rpi5 is unloaded the channel is off and no late tick turns it on.
OffAfterUnload == fan = "unloaded" => ~pwm.enabled

\* bcm2712 is never unloaded under a tick: rpi5 always finds bcm2712_sc.
SocOutlivesFan == tick # "off" => soc = "loaded"

\* The period is a whole number of PWM clocks for each step of the speed, with
\* a rest that rounding to the nearest clock removes, and the product of
\* rpi5_update_fan_state fits its uint32_t.  For the numbers of the code the
\* rest is 41566 - 163 * 255 = 1.
Exact ==
  /\ Period - ClkPeriod * FullSpeed \in 0 .. (ClkPeriod - ClkPeriod \div 2 - 1)
  /\ FullSpeed * Period < Word

\* The speeds grow with the level and none is above a duty of 100 %.
InOrder ==
  \A i, j \in Rungs : i <= j => speeds[i] <= speeds[j] /\ speeds[j] <= FullSpeed

\* The table of README.md (and hw.rpi5.fan.speed<n-1>, "Level n PWM duty"):
\* level n runs at speed<n-1>, and the fan idles at speed0.
SpeedOfLevel(n) == speeds[IF n = 0 THEN 0 ELSE n - 1]

\* A duty is never less than the table of README.md gives the level, it is the
\* one of the table at levels 0 and 4, and it is always one of the four speeds:
\* the scaling of rpi5_update_fan_state and the rounding of
\* bcm2712_pwm_set_config lose nothing.  rpi5_update_fan_state takes speed<n>
\* for the levels 1 .. 3, one higher than the table, so this is as much of the
\* table as it keeps.
CoolsAsPromised ==
  [][(tick = "drive" /\ tick' # "drive" /\ InOrder) =>
       /\ \E i \in Rungs : pwm'.duty = speeds[i]
       /\ pwm'.duty >= SpeedOfLevel(state)
       /\ state \in {0, 4} => pwm'.duty = SpeedOfLevel(state)]_vars

\* The whole claim of the table, which the levels 1 .. 3 do not meet.
SpeedAsPromised ==
  [][(tick = "drive" /\ tick' # "drive" /\ InOrder) =>
       pwm'.duty = SpeedOfLevel(state)]_vars

\* No hysteresis wraps below zero.
NoWrap == \A i \in Rungs : hysts[i] <= temps[i]

\* What a tick decides, whatever the order of the thresholds: at least level n
\* exactly when the temperature has reached the threshold of n or of a higher
\* level.
HighestRung ==
  (tick = "armed" /\ tick' = "drive" /\ NoWrap) =>
    \A n \in 1 .. 4 :
      state' >= n <=> \E m \in n .. 4 : cpu_temp' >= temps[m - 1]

\* rpi5_update_fan_state never cools less, or more, than the thresholds say.
LevelIsHighestRung == [][HighestRung]_vars

\* A new speed of the current level reaches the PWM without a change of level,
\* and the first tick programs it: bugs (a) and (b) of the comment in
\* rpi5_update_fan_state.
SpeedTakesEffect ==
  []<>(fan # "loaded" \/ pwm.duty = Ticks(SpeedDuty(LevelSpeed)))

\* A sensor that stays hot puts the fan at its highest level: the two callouts
\* keep running, whatever settings and modules do meanwhile.
HotRunsMax ==
  []<>(\/ fan # "loaded"
       \/ ~(raw.valid /\ Millic(raw.code) >= temps[3])
       \/ state = 4)

\* The claim of INTEGRATION_GUIDE.md: level 1 "won't drop back to Level 0
\* until temperature falls below 45 C (50 - 5)".
Hysteresis ==
  [][(tick = "armed" /\ state = 1 /\ state' = 0) =>
       cpu_temp' < temps[0] - hysts[0]]_vars

\* The claim of test_dependency.sh: bcm2712 unloads once rpi5 is gone.
SocUnloads == soc = "draining" ~> soc = "absent"

==============================================================================
