----------------------------- MODULE LogChannel -----------------------------
(***************************************************************************)
(* What the asynchronous logger promises: a bounded channel from the       *)
(* threads that log to the output.  Messages carry increasing stamps, come *)
(* out once and in order, and only the oldest is ever lost, to make room   *)
(* for a newer one, or to a call that fails or ends the program and leaves *)
(* its own line in the oldest one's place.                                 *)
(***************************************************************************)
EXTENDS Integers, Sequences

CONSTANTS Capacity, Messages,
          Spoilt     \* a line that is no message

VARIABLES pending,   \* accepted and not yet printed, oldest first
          output     \* printed

vars == <<pending, output>>

Accepted == {pending[i] : i \in DOMAIN pending}
            \cup {output[i] : i \in DOMAIN output}

\* A message newer than all there were.
New(m) == \A earlier \in Accepted \ {Spoilt} : earlier < m

Init == pending = <<>> /\ output = <<>>

Accept(m) == /\ Len(pending) < Capacity
             /\ New(m)
             /\ pending' = Append(pending, m)
             /\ UNCHANGED output

Evict == /\ Len(pending) = Capacity
         /\ pending' = Tail(pending)
         /\ UNCHANGED output

\* The line that takes the oldest one's place is torn or the last of all.
Displace(line) == /\ Len(pending) = Capacity
                  /\ line = Spoilt \/ New(line)
                  /\ pending' = <<line>> \o Tail(pending)
                  /\ UNCHANGED output

Emit == /\ pending # <<>>
        /\ output' = Append(output, Head(pending))
        /\ pending' = Tail(pending)

Next ==
  \/ Evict \/ Emit \/ Displace(Spoilt)
  \/ \E m \in Messages : Accept(m) \/ Displace(m)

Spec == Init /\ [][Next]_vars
=============================================================================
