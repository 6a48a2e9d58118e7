--------------------------- MODULE FanControlProofs ---------------------------
(***************************************************************************)
(* Proofs about FanControl, for any sensor readings and any settings.      *)
(***************************************************************************)
EXTENDS FanControl, TLAPS

\* Load and unload, the callout of rpi5, and bcm2712 keep in step.
InStep ==
  /\ fan = "loaded" => tick # "off"
  /\ fan \in {"absent", "drained", "unloaded"} => tick = "off"
  /\ fan \in {"loaded", "stopping", "drained"} => soc = "loaded"

\* The inductive invariant.
IInv == TypeOK /\ InStep /\ OffAfterUnload
-----------------------------------------------------------------------------
(* The operators.                                                          *)

\* A conversion of bcm2712_thermal_read_raw stays within the clamp.
LEMMA MillicType == ASSUME NEW c \in Codes PROVE Millic(c) \in Temps
  BY InputAssumption, WordAssumption DEF Millic, Clamp, Temps

\* So does what it returns for an invalid reading.
LEMMA ReadRawType == ASSUME TypeOK PROVE ReadRaw \in Temps
  BY MillicType DEF TypeOK, ReadRaw

\* The ladder of rpi5_update_fan_state picks a level.
LEMMA NewStateType == ASSUME NEW t PROVE NewState(t) \in Levels
  BY DEF NewState, Levels

\* Division does not leave Nat.
LEMMA DivNat == ASSUME NEW a \in Nat, NEW b \in Nat \ {0} PROVE a \div b \in Nat
  OBVIOUS

\* The rounding of bcm2712_pwm_set_config.
LEMMA TicksType == ASSUME NEW n \in Nat PROVE Ticks(n) \in Nat
  BY DivNat, PwmAssumption DEF Ticks

\* The scaling of a speed.
LEMMA SpeedDutyType == ASSUME NEW s \in Words PROVE SpeedDuty(s) \in Nat
<1>1. (s * Period) % Word \in Nat
  BY WordAssumption, PwmAssumption DEF Words
<1>2. QED
  BY <1>1, DivNat, PwmAssumption DEF SpeedDuty

\* The PWM calls keep the type of the channel.
LEMMA PwmType ==
  ASSUME TypeOK, NEW n \in Nat, NEW b \in BOOLEAN
  PROVE  /\ Enable(SetConfig(pwm, n), b) \in [duty : Nat, enabled : BOOLEAN]
         /\ Enable(pwm, b) \in [duty : Nat, enabled : BOOLEAN]
  BY TicksType DEF TypeOK, Enable, SetConfig

-----------------------------------------------------------------------------
\* Before the modules are loaded IInv holds.
LEMMA InitInv == Init => IInv
<1> SUFFICES ASSUME Init PROVE IInv
  OBVIOUS
<1>1. TypeOK
  BY DefaultAssumption DEF Init, TypeOK, Levels
<1>2. QED
  BY <1>1 DEF Init, IInv, InStep, OffAfterUnload

\* IInv is inductive.
LEMMA Inductive == IInv /\ [Next]_vars => IInv'
<1> SUFFICES ASSUME IInv, [Next]_vars PROVE IInv'
  OBVIOUS
<1> USE DEF IInv, TypeOK, InStep, OffAfterUnload, socVars, cfgVars, lvlVars
<1>1. CASE Sense         BY <1>1 DEF Sense
<1>2. CASE LoadSoc       BY <1>2, DefaultAssumption DEF LoadSoc
<1>3. CASE AvsFires      BY <1>3 DEF AvsFires
<1>4. CASE ThermalUpdate BY <1>4, ReadRawType DEF ThermalUpdate
<1>5. CASE UnloadSoc     BY <1>5 DEF UnloadSoc
<1>6. CASE DrainAvs      BY <1>6 DEF DrainAvs
<1>7. CASE TickLevel     BY <1>7, NewStateType DEF TickLevel, ReadCpuTemp
<1>8. CASE TickDrive
  <2>1. LevelSpeed \in Words
    BY DEF LevelSpeed, Levels, Rungs
  <2>2. pwm' \in [duty : Nat, enabled : BOOLEAN]
    BY <1>8, <2>1, SpeedDutyType, PwmType DEF TickDrive
  <2>3. QED
    BY <1>8, <2>2 DEF TickDrive
<1>9. CASE Sysctl
  BY <1>9, InputAssumption DEF Sysctl, Words
<1>10. CASE LoadFan
  <2>1. pwm' \in [duty : Nat, enabled : BOOLEAN]
    BY <1>10, PwmType DEF LoadFan
  <2>2. socVars' = socVars /\ 0 \in Levels
    BY <1>10 DEF LoadFan, Levels
  <2>3. TypeOK'
    BY <1>10, <2>1, <2>2, DefaultAssumption DEF LoadFan
  <2>4. (InStep /\ OffAfterUnload)'
    BY <1>10, <2>2 DEF LoadFan
  <2>5. QED
    BY <2>3, <2>4
<1>11. CASE StopFan      BY <1>11 DEF StopFan
<1>12. CASE DrainTick    BY <1>12 DEF DrainTick
<1>13. CASE TurnOff      BY <1>13 DEF TurnOff, Enable
<1>14. CASE UNCHANGED vars
  BY <1>14 DEF vars
<1>15. QED
  BY <1>1, <1>2, <1>3, <1>4, <1>5, <1>6, <1>7, <1>8, <1>9, <1>10, <1>11,
    <1>12, <1>13, <1>14 DEF Next

\* IInv holds throughout.
LEMMA Invariance == Spec => []IInv
  BY InitInv, Inductive, PTL DEF Spec

\* The variables of the fan control keep their types; the temperature stays
\* within the clamp and the level within 0 .. 4.
THEOREM TypeCorrect == Spec => []TypeOK
  BY Invariance, PTL DEF IInv

\* After MOD_UNLOAD of rpi5 the PWM channel is off and stays off.
THEOREM FanIsOff == Spec => []OffAfterUnload
  BY Invariance, PTL DEF IInv

\* No tick of rpi5 runs without bcm2712.
THEOREM DependencyHolds == Spec => []SocOutlivesFan
<1>1. IInv => SocOutlivesFan
  BY DEF IInv, TypeOK, InStep, SocOutlivesFan
<1>2. QED
  BY <1>1, Invariance, PTL

-----------------------------------------------------------------------------
\* As long as no subtraction wraps, the hysteresis has no effect at all: it is
\* tested only after the threshold itself.
LEMMA HysteresisIsIdle ==
  ASSUME TypeOK, NoWrap, NEW n \in 1 .. 3, NEW t \in Temps
  PROVE  OnRung(n, t) <=> t >= temps[n - 1]
<1>1. /\ n - 1 \in Rungs
      /\ temps[n - 1] \in 0 .. (Word - 1)
      /\ hysts[n - 1] \in 0 .. (Word - 1)
      /\ hysts[n - 1] <= temps[n - 1]
  BY DEF TypeOK, NoWrap, Rungs, Words
<1>2. (temps[n - 1] - hysts[n - 1]) % Word = temps[n - 1] - hysts[n - 1]
  BY <1>1, WordAssumption
<1>3. QED
  BY <1>1, <1>2 DEF OnRung, Temps

\* The level a tick chooses is the one of the highest threshold reached, for
\* all thresholds, in whatever order they are.
THEOREM LevelIsRight == Spec => LevelIsHighestRung
<1>1. IInv /\ [Next]_vars => [HighestRung]_vars
  <2> SUFFICES ASSUME IInv, Next, tick = "armed", tick' = "drive", NoWrap,
                      NEW n \in 1 .. 4
               PROVE  state' >= n <=>
                        \E m \in n .. 4 : cpu_temp' >= temps[m - 1]
    BY DEF HighestRung
  <2>1. TickLevel
    BY DEF Next, Sense, LoadSoc, AvsFires, ThermalUpdate, UnloadSoc,
      DrainAvs, TickDrive, Sysctl, LoadFan, StopFan, DrainTick, TurnOff
  <2>2. PICK t \in Temps : cpu_temp' = t /\ state' = NewState(t)
    BY <2>1 DEF TickLevel, IInv, TypeOK, ReadCpuTemp
  <2>3. \A k \in 1 .. 3 : OnRung(k, t) <=> t >= temps[k - 1]
    BY HysteresisIsIdle DEF IInv
  <2>4. NewState(t) = IF t >= temps[3] THEN 4
                      ELSE IF t >= temps[2] THEN 3
                      ELSE IF t >= temps[1] THEN 2
                      ELSE IF t >= temps[0] THEN 1 ELSE 0
    BY <2>3 DEF NewState
  <2>5. \A k \in 1 .. 4 :
          NewState(t) >= k <=> \E m \in k .. 4 : t >= temps[m - 1]
    BY <2>4
  <2>6. QED
    BY <2>2, <2>5
<1>2. QED
  BY <1>1, Invariance, PTL DEF Spec, LevelIsHighestRung

-----------------------------------------------------------------------------
\* Division: the quotient is the only number whose multiple is that close.
LEMMA Quotient ==
  ASSUME NEW a \in Nat, NEW b \in Nat \ {0}, NEW q \in Nat,
         b * q <= a, a < b * q + b
  PROVE  a \div b = q
<1> DEFINE d == a \div b
           m == a % b
<1>1. d \in Nat /\ m \in Nat /\ m < b /\ a = b * d + m
  OBVIOUS
<1> HIDE DEF d, m
<1>2. d < q + 1
  <2> SUFFICES ASSUME d >= q + 1 PROVE FALSE
    BY <1>1
  <2>1. d - (q + 1) \in Nat /\ d = (q + 1) + (d - (q + 1))
    BY <1>1
  <2>2. PICK k \in Nat : d = (q + 1) + k
    BY <2>1
  <2>3. b * d = b * q + b + b * k /\ b * k >= 0
    BY <2>2
  <2>4. QED
    BY <1>1, <2>3
<1>3. q < d + 1
  <2> SUFFICES ASSUME q >= d + 1 PROVE FALSE
    BY <1>1
  <2>1. q - (d + 1) \in Nat /\ q = (d + 1) + (q - (d + 1))
    BY <1>1
  <2>2. PICK k \in Nat : q = (d + 1) + k
    BY <2>1
  <2>3. b * q = b * d + b + b * k /\ b * k >= 0
    BY <1>1, <2>2
  <2>4. QED
    BY <1>1, <2>3
<1>4. QED
  BY <1>1, <1>2, <1>3 DEF d

\* A speed is scaled to ns and back to itself.
LEMMA ScaledBack ==
  ASSUME Exact, NEW s \in 0 .. FullSpeed
  PROVE  Ticks(SpeedDuty(s)) = s
<1> DEFINE r == Period - ClkPeriod * FullSpeed
           h == ClkPeriod \div 2
           u == FullSpeed - s
           e == (s * r) \div FullSpeed
<1>1. /\ ClkPeriod \in Nat \ {0} /\ FullSpeed \in Nat \ {0} /\ Period \in Nat
      /\ Word \in Nat \ {0} /\ s \in Nat /\ u \in Nat /\ h \in Nat
      /\ r \in Nat /\ r + h < ClkPeriod
  BY PwmAssumption, WordAssumption, DivNat DEF Exact
<1>2. Period = ClkPeriod * FullSpeed + r /\ FullSpeed = s + u
  BY <1>1
<1>3. FullSpeed * Period < Word
  BY DEF Exact
<1> HIDE DEF r, h, u
<1>4. (s * Period) % Word = s * Period
  <2>1. FullSpeed * Period = s * Period + u * Period
    BY <1>1, <1>2
  <2>2. s * Period \in Nat /\ u * Period \in Nat
    BY <1>1
  <2>3. s * Period < Word
    BY <1>1, <1>3, <2>1, <2>2
  <2>4. QED
    BY <1>1, <2>2, <2>3
<1>5. /\ e \in Nat
      /\ FullSpeed * e <= s * r
      /\ s * r < FullSpeed * e + FullSpeed
  <2>1. s * r \in Nat
    BY <1>1
  <2> DEFINE a == s * r
  <2> HIDE DEF a
  <2>2. /\ a \div FullSpeed \in Nat
        /\ FullSpeed * (a \div FullSpeed) <= a
        /\ a < FullSpeed * (a \div FullSpeed) + FullSpeed
    BY <1>1, <2>1 DEF a
  <2>3. QED
    BY <2>2 DEF a
<1> HIDE DEF e
<1>6. e <= r
  <2> SUFFICES ASSUME e >= r + 1 PROVE FALSE
    BY <1>1, <1>5
  <2>1. e - (r + 1) \in Nat /\ e = (r + 1) + (e - (r + 1))
    BY <1>1, <1>5
  <2>2. PICK k \in Nat : e = (r + 1) + k
    BY <2>1
  <2>3. FullSpeed * e = FullSpeed * r + FullSpeed + FullSpeed * k
    BY <1>1, <2>2
  <2>4. FullSpeed * r = s * r + u * r
    BY <1>1, <1>2
  <2>5. /\ FullSpeed * k \in Nat /\ FullSpeed * r \in Nat
        /\ u * r \in Nat /\ s * r \in Nat
    BY <1>1
  <2>6. QED
    BY <1>1, <1>5, <2>3, <2>4, <2>5
<1>7. SpeedDuty(s) = ClkPeriod * s + e
  <2>1. s * Period = FullSpeed * (ClkPeriod * s) + s * r
    BY <1>1, <1>2
  <2>2. ClkPeriod * s \in Nat /\ s * Period \in Nat /\ s * r \in Nat
    BY <1>1
  <2>3. FullSpeed * (ClkPeriod * s + e)
          = FullSpeed * (ClkPeriod * s) + FullSpeed * e
    BY <1>1, <1>5
  <2>4. FullSpeed * (ClkPeriod * s) \in Nat /\ FullSpeed * e \in Nat
    BY <1>1, <1>5, <2>2
  <2>5. /\ FullSpeed * (ClkPeriod * s + e) <= s * Period
        /\ s * Period < FullSpeed * (ClkPeriod * s + e) + FullSpeed
    BY <1>1, <1>5, <2>1, <2>2, <2>3, <2>4
  <2>6. (s * Period) \div FullSpeed = ClkPeriod * s + e
    BY <1>1, <1>5, <2>2, <2>5, Quotient
  <2>7. QED
    BY <1>4, <2>6 DEF SpeedDuty
<1>8. (ClkPeriod * s + e + h) \div ClkPeriod = s
  <2>1. ClkPeriod * s \in Nat
    BY <1>1
  <2>2. /\ ClkPeriod * s + e + h \in Nat
        /\ ClkPeriod * s <= ClkPeriod * s + e + h
        /\ ClkPeriod * s + e + h < ClkPeriod * s + ClkPeriod
    BY <1>1, <1>5, <1>6, <2>1
  <2>3. QED
    BY <1>1, <2>2, Quotient
<1>9. QED
  BY <1>7, <1>8 DEF Ticks, h

\* The speed that a tick programs, however the sysctls are set: the fan never
\* runs slower than the table of README.md promises for its level, exactly at
\* the promised speed when it idles and at level 4, and always at one of the
\* four speeds, one PWM clock for each step: the scaling of
\* rpi5_update_fan_state and the rounding of bcm2712_pwm_set_config cancel out.
THEOREM CoolingKept ==
  ASSUME Exact PROVE Spec => CoolsAsPromised
<1> DEFINE Kept == /\ \E i \in Rungs : pwm'.duty = speeds[i]
                   /\ pwm'.duty >= SpeedOfLevel(state)
                   /\ state \in {0, 4} => pwm'.duty = SpeedOfLevel(state)
<1>1. IInv /\ [Next]_vars =>
        [(tick = "drive" /\ tick' # "drive" /\ InOrder) => Kept]_vars
  <2> SUFFICES ASSUME IInv, Next, tick = "drive", tick' # "drive", InOrder
               PROVE  Kept
    OBVIOUS
  <2>1. TickDrive
    BY DEF IInv, InStep, Next, Sense, LoadSoc, AvsFires, ThermalUpdate,
      UnloadSoc, DrainAvs, TickLevel, Sysctl, LoadFan, StopFan, DrainTick,
      TurnOff
  <2>2. soc = "loaded" /\ pwm \in [duty : Nat, enabled : BOOLEAN]
    BY DEF IInv, TypeOK, InStep
  <2>3. state \in 0 .. 4 /\ \A i \in 0 .. 3 : speeds[i] \in 0 .. FullSpeed
    BY PwmAssumption, WordAssumption
      DEF IInv, TypeOK, InOrder, Levels, Rungs, Words
  <2>4. \E i \in 0 .. 3 : LevelSpeed = speeds[i]
    BY <2>3 DEF LevelSpeed
  <2>5. Ticks(SpeedDuty(LevelSpeed)) = LevelSpeed
    BY <2>3, <2>4, ScaledBack
  <2>6. pwm'.duty = Ticks(SpeedDuty(LevelSpeed))
    BY <2>1, <2>2 DEF TickDrive, Enable, SetConfig
  <2>7. pwm'.duty = LevelSpeed
    BY <2>5, <2>6
  <2>8. LevelSpeed >= SpeedOfLevel(state)
    BY <2>3, PwmAssumption DEF LevelSpeed, SpeedOfLevel, InOrder, Rungs
  <2>9. state \in {0, 4} => LevelSpeed = SpeedOfLevel(state)
    BY DEF LevelSpeed, SpeedOfLevel
  <2>10. QED
    BY <2>4, <2>7, <2>8, <2>9 DEF Rungs
<1>2. QED
  BY <1>1, Invariance, PTL DEF Spec, CoolsAsPromised

==============================================================================
