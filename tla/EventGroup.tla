----------------------------- MODULE EventGroup -----------------------------
(***************************************************************************)
(* One EventGroup of the system layer                                      *)
(* (system/inc/emdevif/system/event_group.hpp and the FreeRTOS             *)
(* implementation in event_group_implements.inl), used by tasks, by an     *)
(* interrupt and, on the interrupt's behalf, by the kernel's timer task.   *)
(*                                                                         *)
(* Every task has a bit of its own, which it raises with sync() to meet    *)
(* the others; Flags are the bits that setBits(), clearBits() and          *)
(* waitBits() work on.  A call that waits takes two steps or more: the     *)
(* kernel's part, which may block, and the return of the call, where the   *)
(* code reads Success or Timeout from the bits the kernel handed back.     *)
(* What FreeRTOS does is modelled from how the code uses it: setting bits  *)
(* releases all the waiters it satisfies in one atomic step and then       *)
(* clears what they asked to have cleared; a call from an interrupt is     *)
(* only queued for the timer task.                                         *)
(***************************************************************************)
EXTENDS Naturals, Sequences, FiniteSets

CONSTANTS Tasks,      \* the tasks, each also the bit it raises in sync()
          Flags,      \* the other bits of the group
          TimerQueue, \* length of the kernel's timer command queue
          MaxRaises   \* bound on how often each bit is raised

ASSUME EventGroupAssumption ==
  /\ IsFiniteSet(Tasks) /\ IsFiniteSet(Flags)
  /\ Tasks \cap Flags = {}
  /\ TimerQueue \in Nat \ {0}
  /\ MaxRaises \in Nat

VARIABLES bits,    \* the event bits of the kernel's object
          pending, \* commands that wait for the timer task
          call,    \* what each task is doing
          raised,  \* how often each bit was set (history variable)
          told,    \* how often each task was told so (history variable)
          timedOut \* a sync() has ended in Timeout (history variable)

vars == <<bits, pending, call, raised, told, timedOut>>

AllBits == Tasks \cup Flags
Masks == (SUBSET Flags) \ {{}}
Timeouts == {"none", "finite", "forever"}

Idle == [stage |-> "idle"]

\* A call that waits for mask: all of it or any bit, cleared on exit or not.
Waits == [kind : {"sync", "waitBits"}, mask : (SUBSET AllBits) \ {{}},
          all : BOOLEAN, clear : BOOLEAN, timeout : Timeouts]

Blocked(w) == [stage |-> "blocked", wait |-> w]

\* The kernel's answer: the bits it returns, and whether it cleared the mask.
\* How long the call would have waited no longer matters.
Returned(w, ret, cleared) ==
  [stage |-> "returned", wait |-> [w EXCEPT !.timeout = "none"],
   ret |-> ret, cleared |-> cleared]

Commands == [op : {"set", "clear"}, mask : Masks]

-----------------------------------------------------------------------------
(* The kernel.                                                             *)

Satisfied(w, b) == IF w.all THEN w.mask \subseteq b ELSE w.mask \cap b # {}

ReleasedBy(b) ==
  {t \in Tasks : call[t].stage = "blocked" /\ Satisfied(call[t].wait, b)}

\* The bits that the waiters released by b have asked to have cleared.
ClearedBy(b) ==
  UNION {call[t].wait.mask : t \in {u \in ReleasedBy(b) : call[u].wait.clear}}

\* The waiters as b leaves them, each with the bits as they were before any
\* of them is cleared.
Woken(b) ==
  [t \in Tasks |->
     IF t \in ReleasedBy(b)
     THEN Returned(call[t].wait, b, call[t].wait.clear)
     ELSE call[t]]

Raise(mask) ==
  /\ bits' = (bits \cup mask) \ ClearedBy(bits \cup mask)
  /\ call' = Woken(bits \cup mask)

\* Faulty form of Wait: the timeout is not passed on.
WaitForEver(w, b) == Blocked(w)

\* How a call that waits for w and does not find it at once goes on.
Wait(w, b) == IF w.timeout = "none" THEN Returned(w, b, FALSE) ELSE Blocked(w)

-----------------------------------------------------------------------------
(* EventGroup's methods.                                                   *)

\* Faulty form of Succeeds: no other bit may be set.
SucceedsOnExactly(w, ret) ==
  IF w.all THEN ret = w.mask ELSE ret \cap w.mask # {}

\* Success is read from the returned bits alone.
Succeeds(w, ret) ==
  IF w.all THEN ret \cap w.mask = w.mask ELSE ret \cap w.mask # {}

Init ==
  /\ bits = {} /\ pending = <<>>
  /\ call = [t \in Tasks |-> Idle]
  /\ raised = [b \in AllBits |-> 0]
  /\ told = [t \in Tasks |-> [b \in AllBits |-> 0]]
  /\ timedOut = FALSE

Count(mask) == raised' = [b \in AllBits |-> raised[b] + IF b \in mask THEN 1 ELSE 0]

CanCount(mask) == \A b \in mask : raised[b] < MaxRaises

\* waitBits(mask, clear_on_exit, wait_for_all_bits, timeout_tick)
WaitBits(t, w) ==
  /\ call[t] = Idle
  /\ IF Satisfied(w, bits)
     THEN /\ call' = [call EXCEPT ![t] = Returned(w, bits, w.clear)]
          /\ bits' = IF w.clear THEN bits \ w.mask ELSE bits
     ELSE /\ call' = [call EXCEPT ![t] = Wait(w, bits)]
          /\ UNCHANGED bits
  /\ UNCHANGED <<pending, raised, told, timedOut>>

\* What sync() waits for: every task's bit, cleared when they have all met.
Meeting(timeout) ==
  [kind |-> "sync", mask |-> Tasks, all |-> TRUE, clear |-> TRUE,
   timeout |-> timeout]

\* Faulty form of Sync: waits without raising the task's own bit.
SyncWithoutRaising(t, timeout) ==
  /\ call[t] = Idle /\ CanCount({t})
  /\ call' = [call EXCEPT ![t] = Wait(Meeting(timeout), bits)]
  /\ Count({t})
  /\ UNCHANGED <<bits, pending, told, timedOut>>

\* sync({t}, Tasks, timeout_tick): t raises its bit, which may release the
\* others and clear the bits; whether t passes depends on the bits before.
Sync(t, timeout) ==
  /\ call[t] = Idle /\ CanCount({t})
  /\ LET w == Meeting(timeout)
         seen == bits \cup {t}
         left == seen \ ClearedBy(seen)
     IN  IF w.mask \subseteq seen
         THEN /\ bits' = left \ w.mask
              /\ call' = [Woken(seen) EXCEPT ![t] = Returned(w, seen, TRUE)]
         ELSE /\ bits' = left
              /\ call' = [Woken(seen) EXCEPT ![t] = Wait(w, left)]
  /\ Count({t})
  /\ UNCHANGED <<pending, told, timedOut>>

\* setBits() and clearBits() of a task act at once.
SetBits(mask) ==
  /\ CanCount(mask)
  /\ Raise(mask) /\ Count(mask)
  /\ UNCHANGED <<pending, told, timedOut>>

ClearBits(mask) ==
  /\ bits' = bits \ mask
  /\ UNCHANGED <<pending, call, raised, told, timedOut>>

\* Faulty form of SetBitsFromIsr: the status is read the wrong way round.
SetBitsFromIsrInverted(mask) ==
  /\ CanCount(mask)
  /\ IF Len(pending) < TimerQueue
     THEN /\ pending' = Append(pending, [op |-> "set", mask |-> mask])
          /\ UNCHANGED raised
     ELSE UNCHANGED pending /\ Count(mask)
  /\ UNCHANGED <<bits, call, told, timedOut>>

\* From the interrupt they are queued and answered with Success, or with
\* OperationFail when the queue is full.
SetBitsFromIsr(mask) ==
  /\ CanCount(mask)
  /\ IF Len(pending) < TimerQueue
     THEN /\ pending' = Append(pending, [op |-> "set", mask |-> mask])
          /\ Count(mask)
     ELSE UNCHANGED <<pending, raised>>
  /\ UNCHANGED <<bits, call, told, timedOut>>

ClearBitsFromIsr(mask) ==
  /\ IF Len(pending) < TimerQueue
     THEN pending' = Append(pending, [op |-> "clear", mask |-> mask])
     ELSE UNCHANGED pending
  /\ UNCHANGED <<bits, call, raised, told, timedOut>>

\* The timer task carries out the oldest command.
RunTimerCommand ==
  /\ pending # <<>>
  /\ pending' = Tail(pending)
  /\ LET command == Head(pending)
     IN  IF command.op = "set"
         THEN Raise(command.mask)
         ELSE bits' = bits \ command.mask /\ UNCHANGED call
  /\ UNCHANGED <<raised, told, timedOut>>

\* The time of a blocked call is up: it gets the bits as they are now.
TimeOut(t) ==
  /\ call[t].stage = "blocked" /\ call[t].wait.timeout = "finite"
  /\ call' = [call EXCEPT ![t] = Returned(@.wait, bits, FALSE)]
  /\ UNCHANGED <<bits, pending, raised, told, timedOut>>

\* What Success tells the caller: that the bits of an all-wait were set, or
\* those bits of an any-wait that were.
Told(w, ret) == IF w.all \/ w.mask \cap ret = {} THEN w.mask ELSE w.mask \cap ret

\* The call returns Success or Timeout.
Return(t) ==
  /\ call[t].stage = "returned"
  /\ LET w == call[t].wait
         ret == call[t].ret
     IN  IF Succeeds(w, ret)
         THEN /\ told' = IF w.clear
                         THEN [told EXCEPT ![t] = [b \in AllBits |->
                                @[b] + IF b \in Told(w, ret) THEN 1 ELSE 0]]
                         ELSE told
              /\ UNCHANGED timedOut
         ELSE /\ timedOut' = (timedOut \/ w.kind = "sync")
              /\ UNCHANGED told
  /\ call' = [call EXCEPT ![t] = Idle]
  /\ UNCHANGED <<bits, pending, raised>>

FlagWaits == {w \in Waits : w.kind = "waitBits" /\ w.mask \in Masks}

Calls(t) ==
  \/ \E w \in FlagWaits : WaitBits(t, w)
  \/ \E timeout \in Timeouts : Sync(t, timeout)

Next ==
  \/ \E t \in Tasks : Calls(t) \/ TimeOut(t) \/ Return(t)
  \/ \E mask \in Masks : SetBits(mask) \/ ClearBits(mask)
  \/ \E mask \in Masks : SetBitsFromIsr(mask) \/ ClearBitsFromIsr(mask)
  \/ RunTimerCommand

Spec == Init /\ [][Next]_vars

\* Every task comes to the meeting again and again, whatever else it does,
\* and goes on when it is released.
FairSpec ==
  /\ Spec
  /\ \A t \in Tasks : /\ WF_vars(Return(t))
                      /\ SF_vars(\E timeout \in Timeouts : Sync(t, timeout))
-----------------------------------------------------------------------------
TypeOK ==
  /\ bits \subseteq AllBits
  /\ pending \in Seq(Commands) /\ Len(pending) <= TimerQueue
  /\ \A t \in Tasks :
       \/ call[t] = Idle
       \/ call[t] \in [stage : {"blocked"}, wait : Waits] /\ call[t].wait.timeout # "none"
       \/ call[t] \in [stage : {"returned"}, wait : Waits, ret : SUBSET AllBits, cleared : BOOLEAN]
  /\ raised \in [AllBits -> Nat]
  /\ told \in [Tasks -> [AllBits -> Nat]]
  /\ timedOut \in BOOLEAN

\* No task is told of an event more often than it happened: it has not passed
\* the meeting more often than any other task has come to it (so nobody runs
\* ahead of a task that is late), and no waitBits() with clear_on_exit
\* consumes a flag twice or one whose setBits() was refused.
NothingFromNowhere ==
  \A t \in Tasks, b \in AllBits : told[t][b] <= raised[b]

\* waitBits() and sync() answer Success exactly when the kernel has cleared
\* the bits for them: no event is consumed by a call that reports Timeout, and
\* none is reported that stays to be reported again.
AnswerMatchesKernel ==
  \A t \in Tasks :
    call[t].stage = "returned" /\ call[t].wait.clear =>
      (Succeeds(call[t].wait, call[t].ret) <=> call[t].cleared)

InSync(t) == call[t].stage # "idle" /\ call[t].wait.kind = "sync"

InWaitBits(t) == call[t].stage = "blocked" /\ call[t].wait.kind = "waitBits"

\* The meeting is free of deadlock: when no sync() times out and no task is
\* stuck in waitBits(), every sync() returns.
SyncReturns ==
  [](~timedOut) /\ (\A u \in Tasks : []<>~InWaitBits(u)) =>
    \A t \in Tasks : InSync(t) ~> call[t] = Idle
=============================================================================
