------------------------------ MODULE RemoteCall ------------------------------
(***************************************************************************)
(* What the cyw_fil_* functions promise their callers: one transaction at  *)
(* a time; in it at most one answer, to one's own command; and a return    *)
(* value that agrees with it.  Nothing happens to a buffer once the call   *)
(* that it belongs to has its return value.                                *)
(***************************************************************************)
CONSTANT Callers

VARIABLES
  phase,   \* of each caller: "idle", "asked", "active", "done"
  op,      \* what it asked for, "GET" or "SET"
  answer,  \* whose answer ended its wait
  data,    \* whose answer is in its buffer
  ret      \* what the call returns

vars == <<phase, op, answer, data, ret>>

\* Told to a caller whose command nobody answered.
Unanswered == {"ETIMEDOUT", "ENOBUFS", "ENXIO"}

Init ==
  /\ phase  = [c \in Callers |-> "idle"]
  /\ op     = [c \in Callers |-> "GET"]
  /\ answer = [c \in Callers |-> "none"]
  /\ data   = [c \in Callers |-> "none"]
  /\ ret    = [c \in Callers |-> "OK"]

Moves(c, from, to) == phase[c] = from /\ phase' = [phase EXCEPT ![c] = to]

Ask(c) ==
  /\ Moves(c, "idle", "asked")
  /\ \E o \in {"GET", "SET"} : op' = [op EXCEPT ![c] = o]
  /\ UNCHANGED <<answer, data, ret>>

\* The transactions are serialised.
Admit(c) ==
  /\ Moves(c, "asked", "active")
  /\ \A d \in Callers : phase[d] \in {"idle", "asked"}
  /\ UNCHANGED <<op, answer, data, ret>>

\* The answer, good or bad; a good one to a GET has data.
Hear(c, good) ==
  /\ phase[c] = "active"
  /\ answer[c] = "none"
  /\ answer' = [answer EXCEPT ![c] = "own"]
  /\ data' = IF good /\ op[c] = "GET" THEN [data EXCEPT ![c] = "own"] ELSE data

Answer(c) ==
  /\ \E good \in BOOLEAN : Hear(c, good)
  /\ UNCHANGED <<phase, op, ret>>

\* The call is over.  Success needs an answer, with its data; EIO is a bad
\* answer or an error of the bus, which may hide a good one.
Finish(c) ==
  /\ Moves(c, "active", "done")
  /\ \/ /\ answer[c] = "own" /\ (op[c] = "GET" => data[c] = "own")
        /\ ret' = [ret EXCEPT ![c] = "OK"]
     \/ /\ answer[c] = "none" /\ data[c] = "none"
        /\ \E e \in Unanswered : ret' = [ret EXCEPT ![c] = e]
     \/ ret' = [ret EXCEPT ![c] = "EIO"]
  /\ UNCHANGED <<op, answer, data>>

\* The same in one step, where the caller reads the answer itself.
Collect(c) ==
  /\ Moves(c, "active", "done")
  /\ \E good \in BOOLEAN :
       /\ Hear(c, good)
       /\ ret' = [ret EXCEPT ![c] = IF good THEN "OK" ELSE "EIO"]
  /\ UNCHANGED op

\* The locals of the call are gone.
Return(c) ==
  /\ Moves(c, "done", "idle")
  /\ op'     = [op EXCEPT ![c] = "GET"]
  /\ answer' = [answer EXCEPT ![c] = "none"]
  /\ data'   = [data EXCEPT ![c] = "none"]
  /\ ret'    = [ret EXCEPT ![c] = "OK"]

Next ==
  \E c \in Callers :
    \/ Ask(c) \/ Admit(c) \/ Answer(c) \/ Finish(c) \/ Collect(c) \/ Return(c)

Spec == Init /\ [][Next]_vars
==============================================================================
