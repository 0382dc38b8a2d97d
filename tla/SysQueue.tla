------------------------------ MODULE SysQueue ------------------------------
(***************************************************************************)
(* A SysQueue<Type, item_size> and a CountingSemaphore<least_max_value> of *)
(* the system layer, shared by tasks and an interrupt                      *)
(* (system/inc/emdevif/system/{sys_queue,sys_message_slot,semaphore}.hpp   *)
(* and their FreeRTOS implementation).  A SysMessageSlot is a queue of     *)
(* length one of which only forcePush(), peek() and clear() are offered.   *)
(*                                                                         *)
(* A call that need not wait is one step: what the kernel does, and the    *)
(* error code the method makes of the kernel's answer.  A call that waits  *)
(* is a first step that blocks and a second one that gets through or times *)
(* out.  The kernel is modelled from how the code uses it: it hands no     *)
(* slot over, so a task that is woken can find that another took it; a     *)
(* send that runs out of time fails even if there is room by then, while a *)
(* receive looks once more.                                                *)
(***************************************************************************)
EXTENDS Naturals, SequencesExt

CONSTANTS Tasks, Isr,     \* the tasks, and the interrupt
          Lengths,        \* the values of item_size to try
          LeastMaxValue,  \* largest count of the semaphore
          MaxMessages,    \* bound on the pushes
          MaxReleases     \* bound on the releases

ASSUME SysQueueAssumption ==
  /\ IsFiniteSet(Tasks) /\ Isr \notin Tasks
  /\ Lengths \subseteq Nat \ {0}
  /\ LeastMaxValue \in Nat \ {0}
  /\ MaxMessages \in Nat /\ MaxReleases \in Nat

VARIABLES length,    \* item_size: fixed when the queue is created
          items,     \* the kernel's queue, oldest message first
          count,     \* the kernel's semaphore
          call,      \* what each task is waiting for
          answer,    \* the error code each push was answered with
          accepted,  \* messages in the order they went in (history variable)
          delivered, \* messages in the order pop() gave them (history variable)
          dropped,   \* messages cleared, discarded, overwritten (history variable)
          seen,      \* the last message each caller was shown (history variable)
          released,  \* calls of release() (history variable)
          acquired   \* calls of acquire() answered Success (history variable)

queueVars == <<items, answer, accepted, delivered, dropped, seen>>
semaphoreVars == <<count, released, acquired>>
vars == <<length, call, queueVars, semaphoreVars>>

Callers == Tasks \cup {Isr}
Timeouts == {"none", "finite", "forever"}
Messages == 1 .. Len(answer)
NoMessage == 0

Idle == [op |-> "idle"]

\* An interrupt may not wait: the methods assert a timeout of zero there.
MayWait(caller, timeout) == caller # Isr \/ timeout = "none"

Init ==
  /\ length \in Lengths
  /\ items = <<>> /\ count = 0
  /\ call = [t \in Tasks |-> Idle]
  /\ answer = <<>> /\ accepted = <<>> /\ delivered = <<>> /\ dropped = {}
  /\ seen = [c \in Callers |-> NoMessage]
  /\ released = 0 /\ acquired = 0

Ready(caller) == caller \in Tasks => call[caller] = Idle

Block(t, waiting) == call' = [call EXCEPT ![t] = waiting]

\* A call ends: at once, or after it was blocked.
Finish(caller) ==
  call' = IF caller \in Tasks THEN [call EXCEPT ![caller] = Idle] ELSE call

-----------------------------------------------------------------------------
(* The queue.                                                              *)

IsRoom == Len(items) < length

\* Faulty form of Enqueue: xQueueSendToFront().
EnqueueInFront(m) ==
  /\ items' = <<m>> \o items
  /\ accepted' = Append(accepted, m)

\* The message goes to the back and the sender is told Success.
Enqueue(m) ==
  /\ items' = Append(items, m)
  /\ accepted' = Append(accepted, m)

\* What push() makes of the kernel's answer: Full, also when the time is up.
Answer(m, sent) ==
  answer' = [answer EXCEPT ![m] = IF sent THEN "Success" ELSE "Full"]

\* A new message, numbered in the order of the push() calls.
New == Len(answer) + 1

Number(m, code) == answer' = Append(answer, code)

\* push(in_isr, data, timeout_tick)
Push(caller, timeout) ==
  /\ Ready(caller) /\ MayWait(caller, timeout) /\ Len(answer) < MaxMessages
  /\ \/ /\ IsRoom
        /\ Enqueue(New) /\ Number(New, "Success")
        /\ UNCHANGED call
     \/ /\ ~IsRoom /\ timeout = "none"
        /\ Number(New, "Full")
        /\ UNCHANGED <<items, accepted, call>>
     \/ /\ ~IsRoom /\ timeout # "none"
        /\ Number(New, "pending")
        /\ Block(caller, [op |-> "push", msg |-> New, timeout |-> timeout])
        /\ UNCHANGED <<items, accepted>>
  /\ UNCHANGED <<length, delivered, dropped, seen, semaphoreVars>>

PushGoesThrough(t) ==
  /\ call[t].op = "push" /\ IsRoom
  /\ Enqueue(call[t].msg) /\ Answer(call[t].msg, TRUE)
  /\ Finish(t)
  /\ UNCHANGED <<length, delivered, dropped, seen, semaphoreVars>>

\* The answer to a push that timed out is Full, not Timeout.
PushTimesOut(t) ==
  /\ call[t].op = "push" /\ call[t].timeout = "finite"
  /\ Answer(call[t].msg, FALSE)
  /\ Finish(t)
  /\ UNCHANGED <<length, items, accepted, delivered, dropped, seen, semaphoreVars>>

\* forcePush(in_isr, data): xQueueOverwrite() is for queues of length one.
ForcePush(caller) ==
  /\ Ready(caller) /\ Len(answer) < MaxMessages /\ length = 1
  /\ dropped' = dropped \cup ToSet(items)
  /\ items' = <<New>> /\ accepted' = Append(accepted, New)
  /\ Number(New, "Success")
  /\ UNCHANGED <<length, call, delivered, seen, semaphoreVars>>

\* Faulty form of Receive: the newest message is shown.
ReceiveNewest(caller, op) ==
  /\ items # <<>>
  /\ items' = IF op = "peek" THEN items ELSE Front(items)
  /\ delivered' = IF op = "pop" THEN Append(delivered, Last(items)) ELSE delivered
  /\ dropped' = IF op = "discard" THEN dropped \cup {Last(items)} ELSE dropped
  /\ seen' = IF op = "discard" THEN seen ELSE [seen EXCEPT ![caller] = Last(items)]

\* What a receive does when there is a message: pop() hands it out, pop()
\* without an argument discards it, peek() leaves it.
Receive(caller, op) ==
  /\ items # <<>>
  /\ items' = IF op = "peek" THEN items ELSE Tail(items)
  /\ delivered' = IF op = "pop" THEN Append(delivered, Head(items)) ELSE delivered
  /\ dropped' = IF op = "discard" THEN dropped \cup {Head(items)} ELSE dropped
  /\ seen' = IF op = "discard" THEN seen ELSE [seen EXCEPT ![caller] = Head(items)]

\* pop(in_isr, data, timeout_tick), pop(in_isr), peek(in_isr, data, timeout_tick);
\* without a message the answer is Empty.
Get(caller, op, timeout) ==
  /\ Ready(caller) /\ MayWait(caller, timeout)
  /\ op = "discard" => timeout = "none"
  /\ \/ Receive(caller, op) /\ UNCHANGED call
     \/ /\ items = <<>> /\ timeout # "none"
        /\ Block(caller, [op |-> op, timeout |-> timeout])
        /\ UNCHANGED <<items, delivered, dropped, seen>>
  /\ UNCHANGED <<length, answer, accepted, semaphoreVars>>

GetGoesThrough(t) ==
  /\ call[t].op \in {"pop", "peek"}
  /\ Receive(t, call[t].op) /\ Finish(t)
  /\ UNCHANGED <<length, answer, accepted, semaphoreVars>>

\* clear(): xQueueReset()
Clear(caller) ==
  /\ Ready(caller) /\ items # <<>>
  /\ dropped' = dropped \cup ToSet(items)
  /\ items' = <<>>
  /\ UNCHANGED <<length, call, answer, accepted, delivered, seen, semaphoreVars>>

-----------------------------------------------------------------------------
(* The semaphore.                                                          *)

\* Faulty form of Release: a semaphore created without its largest count.
ReleaseUnlimited(caller) ==
  /\ Ready(caller) /\ released < MaxReleases
  /\ count' = count + 1 /\ released' = released + 1
  /\ UNCHANGED <<length, call, queueVars, acquired>>

\* release(in_isr): the result of xSemaphoreGive() is ignored, and at the
\* largest count the call does nothing.
Release(caller) ==
  /\ Ready(caller) /\ released < MaxReleases
  /\ count' = IF count < LeastMaxValue THEN count + 1 ELSE count
  /\ released' = released + 1
  /\ UNCHANGED <<length, call, queueVars, acquired>>

TakePermit == count > 0 /\ count' = count - 1

\* Faulty form of AcquireGoesThrough: the result of xSemaphoreTake() is
\* ignored, Success is returned after a timeout too.
AcquireUnchecked(t) ==
  /\ call[t].op = "acquire"
  /\ count' = IF count > 0 THEN count - 1 ELSE count
  /\ acquired' = acquired + 1 /\ Finish(t)
  /\ UNCHANGED <<length, queueVars, released>>

\* acquire(in_isr, timeout_tick), try_acquire(in_isr): the answer is Success,
\* or Timeout in a task and OperationFail in the interrupt.
Acquire(caller, timeout) ==
  /\ Ready(caller) /\ MayWait(caller, timeout)
  /\ \/ TakePermit /\ acquired' = acquired + 1 /\ UNCHANGED call
     \/ /\ count = 0 /\ timeout # "none"
        /\ Block(caller, [op |-> "acquire", timeout |-> timeout])
        /\ UNCHANGED <<count, acquired>>
  /\ UNCHANGED <<length, queueVars, released>>

AcquireGoesThrough(t) ==
  /\ call[t].op = "acquire"
  /\ TakePermit /\ acquired' = acquired + 1 /\ Finish(t)
  /\ UNCHANGED <<length, queueVars, released>>

\* A receive or an acquire has waited in vain.
TimesOut(t) ==
  /\ \/ call[t].op \in {"pop", "peek"} /\ items = <<>>
     \/ call[t].op = "acquire" /\ count = 0
  /\ call[t].timeout = "finite"
  /\ Finish(t)
  /\ UNCHANGED <<length, queueVars, semaphoreVars>>

Next ==
  \/ \E c \in Callers, timeout \in Timeouts :
       \/ Push(c, timeout) \/ Acquire(c, timeout)
       \/ \E op \in {"pop", "discard", "peek"} : Get(c, op, timeout)
  \/ \E c \in Callers : ForcePush(c) \/ Clear(c) \/ Release(c)
  \/ \E t \in Tasks :
       PushGoesThrough(t) \/ PushTimesOut(t) \/ GetGoesThrough(t)
         \/ AcquireGoesThrough(t) \/ TimesOut(t)

Spec == Init /\ [][Next]_vars
-----------------------------------------------------------------------------
TypeOK ==
  /\ length \in Lengths
  /\ answer \in Seq({"pending", "Success", "Full"})
  /\ items \in Seq(Messages) /\ Len(items) <= length
  /\ accepted \in Seq(Messages) /\ delivered \in Seq(Messages)
  /\ dropped \subseteq Messages
  /\ seen \in [Callers -> Messages \cup {NoMessage}]
  /\ count \in 0 .. LeastMaxValue
  /\ released \in 0 .. MaxReleases /\ acquired \in Nat
  /\ \A m \in Messages : answer[m] = "pending" <=>
       \E t \in Tasks : call[t].op = "push" /\ call[t].msg = m

\* When a message went in, by its number; 0 for none.
Place(m) == IF m = NoMessage THEN 0 ELSE CHOOSE i \in DOMAIN accepted : accepted[i] = m

\* Whatever tasks and interrupt do to the queue at once, a push answered
\* Success, and only such a one, delivers its message exactly once and in the
\* order the messages went in, unless pop() without an argument, clear() or
\* forcePush() throws it away; a push answered Full, even after its time was
\* up, has left nothing behind and may be repeated.
ExactlyOnceInOrder ==
  LET out == delivered \o items
  IN  /\ ToSet(out) = ToSet(accepted) \ dropped
      /\ \A i, j \in DOMAIN out : i < j => Place(out[i]) < Place(out[j])
      /\ IsInjective(accepted)
      /\ ToSet(accepted) = {m \in Messages : answer[m] = "Success"}

\* release() gives one permit to one acquire(): none is acquired twice, and
\* none is lost unless more are released than the semaphore can count.
PermitsAccounted ==
  /\ acquired + count <= released
  /\ released <= LeastMaxValue => acquired + count = released

\* No caller of peek() or pop() is ever shown a message older than the one it
\* saw last: a message slot that is overwritten while it is read gives the
\* old or the new value and does not fall back.
NeverGoesBack ==
  [][\A c \in Callers : Place(seen[c]) <= Place(seen[c])']_vars
=============================================================================
