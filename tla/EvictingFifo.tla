---------------------------- MODULE EvictingFifo ----------------------------
(***************************************************************************)
(* What a RingBuffer promises its user (docs/core/data_container.md): a    *)
(* first-in first-out queue of bounded length that never refuses an item   *)
(* and loses only its oldest items, and only when it is full.  There is an *)
(* action for each step a client can ask for, and it leaves no choice: the *)
(* call decides which items go in, go out, stay and are lost.              *)
(***************************************************************************)
EXTENDS RingCalls

CONSTANTS Capacity, Type,
          MaxSpan            \* bound on the length of a span argument

VARIABLES items,   \* oldest first
          call,    \* what is left to do of the client's current call
          did,     \* the step the client asked for last
          out      \* the items that step handed to the client

vars == <<items, call, did, out>>

Spans == UNION {[1 .. n -> Type] : n \in 0 .. MaxSpan}

\* The last Capacity items of a sequence.
Newest(s) == IF Len(s) > Capacity
             THEN SubSeq(s, Len(s) - Capacity + 1, Len(s)) ELSE s

Oldest(n) == SubSeq(items, 1, n)
AllBut(n) == SubSeq(items, n + 1, Len(items))

\* A call of one step.
Whole == call = Idle /\ call' = Idle

\* The step was asked for, hands out the sequence and leaves the queue q.
Does(step, handed, q) == did' = step /\ out' = handed /\ items' = q

Init == items = <<>> /\ call = Idle /\ did = Did("begin", <<>>, 0) /\ out = <<>>

Clear == Whole /\ Does(Did("clear", <<>>, 0), <<>>, <<>>)
Push(new) == Whole /\ Does(Did("push", new, 0), <<>>, Newest(items \o new))
Pop(n) == Whole /\ n <= Len(items) /\ Does(Did("pop", <<>>, n), Oldest(n), AllBut(n))
Peek(n) == Whole /\ n <= Len(items) /\ Does(Did("peek", <<>>, n), Oldest(n), items)
Discard(n) == Whole /\ Does(Did("discard", <<>>, n), <<>>, AllBut(n))

\* A span call that goes item by item begins, goes on and ends.
Begin == /\ call = Idle /\ Does(Did("begin", <<>>, 0), <<>>, items)
         /\ \/ \E new \in Spans : call' = Pushing(new)
            \/ \E n \in 0 .. Len(items) : call' = Popping(n)

PushNext ==
  /\ call.op = "push" /\ call.items # <<>>
  /\ call' = Pushing(Tail(call.items))
  /\ LET new == <<Head(call.items)>>
     IN  Does(Did("push", new, 0), <<>>, Newest(items \o new))

PopNext == /\ call.op = "pop" /\ call.left > 0 /\ items # <<>>
           /\ call' = Popping(call.left - 1)
           /\ Does(Did("pop", <<>>, 1), Oldest(1), AllBut(1))

End == /\ call \in {Pushing(<<>>), Popping(0)} /\ call' = Idle
       /\ Does(Did("end", <<>>, 0), <<>>, items)

\* A write in place makes room ahead of its report, at capacity only.
Write(v) == /\ call = Idle /\ call' = Staged(0, <<v>>)
            /\ Does(Did("write", <<v>>, 0), <<>>,
                    IF Len(items) = Capacity THEN AllBut(1) ELSE items)

Fill(new) == /\ call = Idle /\ call' = Staged(Len(new), new)
             /\ new # <<>> /\ Len(items) + Len(new) <= Capacity
             /\ Does(Did("fill", new, Len(new)), <<>>, items)

Report == /\ call.op = "staged" /\ call' = Idle
          /\ Does(Did("report", call.items, call.slots), <<>>, items \o call.items)

Next ==
  \/ Clear \/ Begin \/ PushNext \/ PopNext \/ End \/ Report
  \/ \E v \in Type : Push(<<v>>) \/ Write(v)
  \/ \E new \in Spans : Push(new) \/ Fill(new)
  \/ \E n \in 0 .. Capacity : Pop(n) \/ Peek(n)
  \/ \E n \in 0 .. MaxSpan : Discard(n)

Spec == Init /\ [][Next]_vars
=============================================================================
