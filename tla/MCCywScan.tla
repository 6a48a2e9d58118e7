------------------------------ MODULE MCCywScan ------------------------------
(* Access points for CywScan, and two kinds of behaviours: of scans that    *)
(* overlap with few results, and of one scan with many.                     *)
EXTENDS CywScan

VARIABLE aim \* "flag" or "cache"

Beacon(bssid, band, bw, chan, pos) ==
  [bssid |-> bssid, band |-> band, bw |-> bw, chan |-> chan, pos |-> pos]

\* Three access points: one moves from the lower to the upper half of a 40 MHz
\* channel, one is the third of an 80 MHz block, one has 20 MHz.  MCChannels lacks
\* one of their channels.
MCBeacons == {Beacon("a", 5, 40, 36, 0), Beacon("a", 5, 40, 40, 1),
              Beacon("b", 5, 80, 44, 2), Beacon("c", 5, 20, 48, 0)}

MCChannels == {36, 44, 48}

\* The beacons have the forms for which JoinsAsHeard is meant.
ASSUME FormsAssumption == \A b \in MCBeacons : Form(b)

MCInit == Init /\ aim \in {"flag", "cache"}

\* For the flag one result will do; for the cache one scan and no abort by S_AUTH.
MCNext ==
  /\ Next
  /\ UNCHANGED aim
  /\ aim = "flag" => reports' <= 1
  /\ aim = "cache" => scans' <= 1 /\ ~Auth

MCSpec == MCInit /\ [][MCNext]_<<vars, aim>> /\ Fairness
=============================================================================
