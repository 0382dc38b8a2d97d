------------------------------ MODULE RingCalls ------------------------------
(***************************************************************************)
(* The calls a client makes of a RingBuffer, as the ring and the queue it  *)
(* promises both see them: what is left to do of a call that takes several *)
(* steps, and a record of what the last step did.                          *)
(***************************************************************************)
EXTENDS Integers, Sequences

\* What is left of the current call: nothing, items of a push(span), a number
\* of items of a pop(span), or the report of a write in place, whose number
\* of slots is 0 for useNextSlot() and positive for havePushed().
Idle == [op |-> "idle"]
Pushing(items) == [op |-> "push", items |-> items]
Popping(n) == [op |-> "pop", left |-> n]
Staged(n, items) == [op |-> "staged", slots |-> n, items |-> items]

\* A step of a call, with the items and the number the client gave it.
Ops == {"clear", "push", "pop", "peek", "discard", "write", "fill", "report",
        "begin", "end"}

Did(op, items, n) == [op |-> op, items |-> items, n |-> n]
=============================================================================
