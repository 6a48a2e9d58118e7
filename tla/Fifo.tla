-------------------------------- MODULE Fifo --------------------------------
(***************************************************************************)
(* What each direction of the interface promises: frames come out in the   *)
(* order they went in and none comes out twice; one is lost only by itself, *)
(* when it cannot be handled, or when the interface goes down.             *)
(***************************************************************************)
EXTENDS Naturals, SequencesExt

CONSTANTS Frames, None

VARIABLES
  q,    \* the frames that are in
  out,  \* the frame that came out last
  up    \* the interface is running

Init == q = <<>> /\ out = None /\ up = FALSE

Accept ==
  /\ \E f \in Frames : q' = Append(q, f)
  /\ UNCHANGED <<out, up>>

Emit ==
  /\ q # <<>>
  /\ out' = Head(q)
  /\ q' = Tail(q)
  /\ UNCHANGED up

Drop ==
  /\ \E i \in DOMAIN q : q' = RemoveAt(q, i)
  /\ UNCHANGED <<out, up>>

Up == ~up /\ up' = TRUE /\ UNCHANGED <<q, out>>

\* What is in the ring is lost; what is before and behind it stays.
Down ==
  /\ up
  /\ up' = FALSE
  /\ \E i \in 0 .. Len(q) : \E j \in i .. Len(q) :
       q' = SubSeq(q, 1, i) \o SubSeq(q, j + 1, Len(q))
  /\ UNCHANGED out

Next == Accept \/ Emit \/ Drop \/ Up \/ Down

Spec == Init /\ [][Next]_<<q, out, up>>
=============================================================================
