----------------------------- MODULE MCFanControl -----------------------------
(***************************************************************************)
(* Instances of FanControl for TLC.                                        *)
(***************************************************************************)
EXTENDS FanControl

MCTemps  == [i \in Rungs |-> CASE i = 0 -> 50000 [] i = 1 -> 60000
                               [] i = 2 -> 67500 [] i = 3 -> 75000]
MCHysts  == [i \in Rungs |-> 5000]
MCSpeeds == [i \in Rungs |-> CASE i = 0 -> 75  [] i = 1 -> 125
                               [] i = 2 -> 175 [] i = 3 -> 250]

\* Below zero, 49.6, 60.05, 70.5 and 81.5 degrees: each level, and the band in
\* which the hysteresis of level 1 would hold it.
MCCodes == {1000, 728, 709, 690, 670}

\* A threshold out of order that a reading meets exactly, a hysteresis that
\* wraps, and full speed for the highest level.
MCSettings ==
  {<<"temps", 2, 49600>>, <<"hysts", 1, 70000>>, <<"speeds", 3, 255>>}

\* For the claim about unloading.
FewCodes   == {745, 670}
NoSettings == {}

\* With the period, the clock and the full speed of the code a speed is exact.
ASSUME ExactAssumption == Exact

==============================================================================
