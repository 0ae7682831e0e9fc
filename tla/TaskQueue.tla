------------------------------ MODULE TaskQueue ------------------------------
(***************************************************************************)
(* What the thread pool promises its callers: a bounded first-in first-out *)
(* queue of tasks, each handed out at most once, that stops accepting when *)
(* it is closed and stops handing out when it is closed at once.           *)
(***************************************************************************)
EXTENDS Naturals, Sequences

CONSTANTS Tasks, Capacity

VARIABLES
  pending,   \* the tasks waiting, oldest first
  handed,    \* the tasks handed to a thread, in the order they were handed out
  mode       \* "open", "graceful" or "immediate"

qvars == <<pending, handed, mode>>

Init == pending = <<>> /\ handed = <<>> /\ mode = "open"

Accept(t) ==
  /\ mode = "open"
  /\ Len(pending) < Capacity
  /\ pending' = Append(pending, t)
  /\ UNCHANGED <<handed, mode>>

HandOut ==
  /\ mode # "immediate"
  /\ pending # <<>>
  /\ pending' = Tail(pending)
  /\ handed' = Append(handed, Head(pending))
  /\ UNCHANGED mode

Close(m) ==
  /\ mode = "open"
  /\ mode' = m
  /\ UNCHANGED <<pending, handed>>

Next ==
  \/ \E t \in Tasks : Accept(t)
  \/ HandOut
  \/ \E m \in {"graceful", "immediate"} : Close(m)

Spec == Init /\ [][Next]_qvars
=============================================================================
