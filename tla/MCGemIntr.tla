------------------------------ MODULE MCGemIntr ------------------------------
(* Two kinds of traffic for GemIntr: the interrupt, task and poll paths are  *)
(* those of both, the rings meet in the task only.                          *)
EXTENDS GemIntr

VARIABLE traffic \* "in" or "out"

MCInit == Init /\ traffic \in {"in", "out"}

\* Inwards the stack sends nothing.  Outwards nothing arrives, there is no mbuf
\* for a receive buffer, and the driver is not unloaded.
MCNext ==
  /\ Next
  /\ UNCHANGED traffic
  /\ traffic = "in" => ~Submit
  /\ traffic = "out" => posted' = 0 /\ ~GemReceive /\ ~DetachStop

MCSpec == MCInit /\ [][MCNext]_<<vars, traffic>> /\ Fairness
=============================================================================
