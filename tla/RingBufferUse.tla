--------------------------- MODULE RingBufferUse ----------------------------
(***************************************************************************)
(* One thread that calls every method of a RingBuffer, in any order the    *)
(* documentation allows (docs/core/data_container.md): never pop or peek   *)
(* more items than there are, and finish a write in place before the next  *)
(* call.  A push(span) or pop(span) that goes item by item is a loop of    *)
(* steps; every other call is one step.                                    *)
(*                                                                         *)
(* Whether Type is trivially copyable chooses between the two forms of a   *)
(* span call when the program is compiled.  Here each call takes either,   *)
(* which covers the rings of both kinds of Type.                           *)
(***************************************************************************)
EXTENDS RingBuffer, RingCalls

CONSTANTS ConstantEvaluated,   \* std::is_constant_evaluated()
          MaxSpan              \* bound on the length of a span argument

ASSUME UseAssumption ==
  /\ ConstantEvaluated \in BOOLEAN
  /\ MaxSpan \in Nat
  /\ MaxSpan < SizeMax - ItemSize

VARIABLES ring,    \* the RingBuffer object
          call,    \* what is left to do of the client's current call
          did,     \* the step the client asked for last
          out      \* the items that step handed to the client

vars == <<ring, call, did, out>>

Spans == UNION {[1 .. n -> Type] : n \in 0 .. MaxSpan}

\* A step the client asked for, which hands out the items and leaves the
\* ring as r.
Does(step, items, r) == did' = step /\ out' = items /\ ring' = r

Init == /\ ring = NewRing /\ call = Idle
        /\ did = Did("begin", <<>>, 0) /\ out = <<>>

Clear == /\ call = Idle /\ UNCHANGED call
         /\ Does(Did("clear", <<>>, 0), <<>>, Cleared(ring))

Push(item) ==
  /\ call = Idle /\ UNCHANGED call
  /\ Does(Did("push", <<item>>, 0), <<>>, Pushed(ring, item))

\* push(span) of a trivially copyable Type, when the items fit.
PushSpan(items) ==
  /\ call = Idle /\ UNCHANGED call
  /\ ~ConstantEvaluated /\ Len(items) <= RemainSlots(ring)
  /\ Does(Did("push", items, 0), <<>>, PushedCopy(ring, items))

\* push(span) otherwise, and push(span&&), which never copies bytes.
PushItemByItem(items) ==
  /\ call = Idle /\ call' = Pushing(items)
  /\ Does(Did("begin", <<>>, 0), <<>>, ring)

PushLoop ==
  /\ call.op = "push"
  /\ IF call.items = <<>>
     THEN call' = Idle /\ Does(Did("end", <<>>, 0), <<>>, ring)
     ELSE /\ call' = Pushing(Tail(call.items))
          /\ Does(Did("push", <<Head(call.items)>>, 0), <<>>,
                  Pushed(ring, Head(call.items)))

Pop ==
  /\ call = Idle /\ UNCHANGED call
  /\ ~IsEmpty(ring)
  /\ Does(Did("pop", <<>>, 1), <<Peek(ring)>>, Popped(ring))

\* pop(span) of a trivially copyable Type.
PopSpan(n) ==
  /\ call = Idle /\ UNCHANGED call
  /\ ~ConstantEvaluated /\ n <= ring.count
  /\ Does(Did("pop", <<>>, n), PeekCopy(ring, n), PoppedCopy(ring, n))

\* pop(span) otherwise.
PopItemByItem(n) ==
  /\ call = Idle /\ call' = Popping(n)
  /\ n <= ring.count
  /\ Does(Did("begin", <<>>, 0), <<>>, ring)

\* One item of the loop, which leaves n to pop.
PopOne(n) == /\ call' = Popping(n)
             /\ Does(Did("pop", <<>>, 1), <<Peek(ring)>>, Popped(ring))

\* Faulty form of the loop: the number of items left is not counted down.
PopLoopUncounted ==
  /\ call.op = "pop"
  /\ IF call.left = 0 THEN call' = Idle /\ Does(Did("end", <<>>, 0), <<>>, ring)
                      ELSE PopOne(call.left)

PopLoop ==
  /\ call.op = "pop"
  /\ IF call.left = 0 THEN call' = Idle /\ Does(Did("end", <<>>, 0), <<>>, ring)
                      ELSE PopOne(call.left - 1)

PeekOne ==
  /\ call = Idle /\ UNCHANGED call
  /\ ~IsEmpty(ring)
  /\ Does(Did("peek", <<>>, 1), <<Peek(ring)>>, ring)

\* peek(span): in a constant evaluation every item is the same peek().
PeekSpan(n) ==
  /\ call = Idle /\ UNCHANGED call
  /\ n <= ring.count
  /\ Does(Did("peek", <<>>, n),
          IF ConstantEvaluated THEN [k \in 1 .. n |-> Peek(ring)]
          ELSE PeekCopy(ring, n),
          ring)

Discard(slots) ==
  /\ call = Idle /\ UNCHANGED call
  /\ Does(Did("discard", <<>>, slots), <<>>, Discarded(ring, slots))

\* nextSlot() = value; the client owes a useNextSlot().
WriteNextSlot(value) ==
  /\ call = Idle /\ call' = Staged(0, <<value>>)
  /\ Does(Did("write", <<value>>, 0), <<>>, NextSlotWritten(ring, value))

UseNextSlot ==
  /\ call.op = "staged" /\ call.slots = 0 /\ call' = Idle
  /\ Does(Did("report", call.items, 0), <<>>, NextSlotUsed(ring))

\* Free slots behind nextSlot() filled at once, as a DMA transfer does; the
\* client owes a havePushed() of their number.
FillFromNextSlot(items) ==
  /\ call = Idle /\ call' = Staged(Len(items), items)
  /\ items # <<>>
  /\ Len(items) <= RemainSlots(ring) /\ ring.head + Len(items) <= ItemSize
  /\ Does(Did("fill", items, Len(items)), <<>>,
          Ring(CopiedIn(ring, items), ring.head, ring.tail, ring.count))

ReportPushed ==
  /\ call.op = "staged" /\ call.slots > 0 /\ call' = Idle
  /\ Does(Did("report", call.items, call.slots), <<>>,
          HavePushed(ring, call.slots))

Next == 
  \/ Clear \/ Pop \/ PeekOne \/ PushLoop \/ PopLoop
  \/ UseNextSlot \/ ReportPushed
  \/ \E item \in Type : Push(item) \/ WriteNextSlot(item)
  \/ \E items \in Spans :
       PushSpan(items) \/ PushItemByItem(items) \/ FillFromNextSlot(items)
  \/ \E n \in 0 .. MaxSpan :
       PopSpan(n) \/ PopItemByItem(n) \/ PeekSpan(n) \/ Discard(n)

Spec == Init /\ [][Next]_vars
-----------------------------------------------------------------------------
\* The four members keep their ranges, a call is of one of the four kinds.
TypeOK ==
  /\ ring \in Rings
  /\ \/ call = Idle
     \/ /\ call.op = "push" /\ call = Pushing(call.items)
        /\ call.items \in Seq(Type)
     \/ /\ call.op = "pop" /\ call = Popping(call.left)
        /\ call.left \in Nat
     \/ /\ call.op = "staged" /\ call = Staged(call.slots, call.items)
        /\ call.slots \in 0 .. RemainSlots(ring)
        /\ call.items \in Seq(Type)
  /\ did \in [op : Ops, items : Seq(Type), n : Nat]
  /\ out \in Seq(Type \cup {Unset})

\* head, tail and count_ are three views of one thing: after any call, and
\* between the steps of the looping ones, head is count slots ahead of tail
\* (RingBuffer keeps all three and no method reconciles them).
AlignedInv == Aligned(ring)

\* pop(span) takes no more items than there are: its loop cannot meet an
\* empty ring, where --count_ would wrap.
PopLoopBounded == call.op = "pop" => call.left <= ring.count

\* The abstract queue of this ring.  The write in place of a full ring has
\* already lost the oldest item when useNextSlot() is still to come.
QueueItems ==
  IF call.op = "staged" /\ call.slots = 0 /\ IsFull(ring)
  THEN Tail(Contents(ring)) ELSE Contents(ring)

Fifo == INSTANCE EvictingFifo
          WITH Capacity <- ItemSize, items <- QueueItems

\* The ring buffer is an evicting first-in first-out queue: a pop hands out
\* and removes just as many of the oldest items as it was asked for, a peek
\* removes none, a discard and a clear remove what they say, and nothing else
\* is lost than the oldest item of a full ring when a newer one comes, in
\* both forms of each span call (docs/core/data_container.md:63).
RefinesFifo == Fifo!Spec
=============================================================================
