----------------------------- MODULE LossyFifo ------------------------------
(***************************************************************************)
(* What the queue of src/src/queue.c promises its users, with no pointer   *)
(* in sight.  As long as `lossy` is FALSE it is an ordinary FIFO queue.    *)
(* Once `lossy` has turned TRUE any step may drop messages and a take may  *)
(* come back empty-handed although messages are waiting; the order of what *)
(* remains is kept and nothing is ever delivered twice.                    *)
(***************************************************************************)
EXTENDS Sequences, Integers

CONSTANTS
  Message,   \* what is put into the queue
  None       \* result of a take that returns no message

VARIABLES
  pending,   \* the messages a take can still return, oldest first
  result,    \* result of the latest take
  lossy      \* messages may be dropped from now on

vars == <<pending, result, lossy>>

Init ==
  /\ pending = <<>>
  /\ result = None
  /\ lossy = FALSE

\* What is left of s when some elements are dropped and the others keep their
\* order.
Increasing(n, len) ==
  {f \in [1 .. n -> 1 .. len] : \A i, j \in 1 .. n : i < j => f[i] < f[j]}

Subsequences(s) ==
  UNION {{[i \in 1 .. n |-> s[f[i]]] : f \in Increasing(n, Len(s))} : n \in 0 .. Len(s)}

\* What may be left of s after a step.
Remains(s) == IF lossy THEN Subsequences(s) ELSE {s}

Put(m) ==
  /\ pending' \in Remains(Append(pending, m))
  /\ UNCHANGED result

Take(m) ==
  /\ pending # <<>>
  /\ m = Head(pending)
  /\ result' = m
  /\ pending' \in Remains(Tail(pending))

TakeNothing ==
  /\ pending = <<>> \/ lossy
  /\ result' = None
  /\ pending' \in Remains(pending)

\* A take whose outcome is m, None included.
TakeResult(m) == Take(m) \/ (m = None /\ TakeNothing)

\* Once lossy, always lossy.
LossyStep == lossy' \in {lossy, TRUE}

Next ==
  /\ LossyStep
  /\ \/ \E m \in Message : Put(m)
     \/ \E m \in Message \cup {None} : TakeResult(m)

Spec == Init /\ [][Next]_vars

=============================================================================
