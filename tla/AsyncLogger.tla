---------------------------- MODULE AsyncLogger -----------------------------
(***************************************************************************)
(* The asynchronous logger, logger/async/async.cpp: threads that log write *)
(* messages into a ring of line buffers, and one printer thread of low     *)
(* priority prints them.  A mutex guards the ring; a binary semaphore      *)
(* tells the printer that there is something to print.                     *)
(*                                                                         *)
(* A message is the stamp getTimeLine() gives it, read under the mutex.    *)
(* One action is what a thread does between two points where another one   *)
(* can interfere: taking or giving the mutex or the semaphore, a formatter *)
(* or the user's printLogMessage() at work on a slot, a change of the      *)
(* ring's indices.                                                         *)
(***************************************************************************)
EXTENDS Integers, Sequences, FiniteSets

CONSTANTS Producers,       \* the threads that log
          Printer,         \* logger_async_printer_thread_
          NoThread,        \* holder of a free mutex
          BufferCount,     \* logger_buffer_count
          SizeMax,         \* 2^w for a std::size_t of w bits
          MaxMessages,     \* bound on the messages the clients log
          Levels,          \* the levels the clients log at
          IgnoreLevel,     \* logger_ignore_level
          Blank,           \* a line buffer never written
          Torn,            \* a line buffer a failed formatter left behind
          FormatMayFail,   \* can vsnprintf return a negative number?
          PrintMayFail     \* can printLogMessage() return an error?

FatalLevel == 5

\* The fourth failure in a row ends the last attempt to print.
MaxFailCount == 3

ASSUME LoggerAssumption ==
  /\ NoThread \notin Producers \cup {Printer}
  /\ Printer \notin Producers /\ IsFiniteSet(Producers)
  /\ MaxMessages \in Nat
  /\ Levels \subseteq 0 .. FatalLevel
  /\ IgnoreLevel \in Nat
  /\ Blank \notin Int /\ Torn \notin Int /\ Blank # Torn
  /\ FormatMayFail \in BOOLEAN /\ PrintMayFail \in BOOLEAN

ASSUME BufferAssumption ==
  /\ BufferCount \in Nat \ {0}
  /\ SizeMax \in Nat
  /\ 2 * BufferCount <= SizeMax

Buffer == INSTANCE RingBuffer
            WITH ItemSize <- BufferCount,
                 Type <- Nat \cup {Torn}, Unset <- Blank

VARIABLES
  setup,       \* how far logInit() has come
  ring,        \* buffer_
  mutex,       \* the holder of mutex_
  semaphore,   \* the count of logger_async_printer_semaphore_
  pc,          \* where each thread is
  level,       \* the level argument of each producer's call
  failCount,   \* fail_count of the fatal path
  clock,       \* the last stamp getTimeLine() gave
  printed,     \* the slots printLogMessage() printed (history)
  fatal        \* the stamps of Fatal messages (history)

vars == <<setup, ring, mutex, semaphore, pc, level, failCount, clock,
          printed, fatal>>

Threads == Producers \cup {Printer}

Goto(t, from, to) == pc[t] = from /\ pc' = [pc EXCEPT ![t] = to]

Init ==
  /\ setup = "mutex"
  /\ ring = Buffer!NewRing
  /\ mutex = NoThread
  /\ semaphore = 0
  /\ pc = [t \in Threads |-> IF t = Printer THEN "unborn" ELSE "idle"]
  /\ level = [p \in Producers |-> FatalLevel]
  /\ failCount = 0
  /\ clock = 0
  /\ printed = <<>>
  /\ fatal = {}

-----------------------------------------------------------------------------
(***************************************************************************)
(* logInit(): three objects are created one after the other, and the first *)
(* that cannot be makes it return OperationFail.                           *)
(***************************************************************************)
CreateMutex ==
  /\ setup = "mutex"
  /\ ring' = Buffer!Cleared(ring)
  /\ setup' \in {"semaphore", "failed"}
  /\ UNCHANGED <<mutex, semaphore, pc, level, failCount, clock, printed, fatal>>

CreateSemaphore ==
  /\ setup = "semaphore"
  /\ setup' \in {"thread", "failed"}
  /\ UNCHANGED <<ring, mutex, semaphore, pc, level, failCount, clock, printed,
                 fatal>>

CreateThread ==
  /\ setup = "thread"
  /\ \/ setup' = "ready" /\ Goto(Printer, "unborn", "start")
     \/ setup' = "failed" /\ UNCHANGED pc
  /\ UNCHANGED <<ring, mutex, semaphore, level, failCount, clock, printed,
                 fatal>>

-----------------------------------------------------------------------------
(***************************************************************************)
(* Producers: log() and the functions of one level, down to logImpl().     *)
(***************************************************************************)

\* The calls that have not drawn their stamp yet.
InFlight == {p \in Producers : pc[p] \in {"lock", "format"}}

\* A call below IgnoreLevel returns before logImpl() and changes nothing.
Call(p, lvl) ==
  /\ setup = "ready"
  /\ clock + Cardinality(InFlight) < MaxMessages
  /\ lvl >= IgnoreLevel
  /\ Goto(p, "idle", "lock")
  /\ level' = [level EXCEPT ![p] = lvl]
  /\ UNCHANGED <<setup, ring, mutex, semaphore, failCount, clock, printed,
                 fatal>>

\* Faulty form of the wait: the result of the take is not looked at.
TakeUnchecked(t, from, to) ==
  /\ mutex' = t
  /\ Goto(t, from, to)
  /\ UNCHANGED <<setup, ring, semaphore, level, failCount, clock, printed,
                 fatal>>

\* lock_guard.lock() and mutex_.lock() wait for ever: portMAX_DELAY.
Take(t, from, to) ==
  /\ mutex = NoThread
  /\ mutex' = t
  /\ Goto(t, from, to)
  /\ UNCHANGED <<setup, ring, semaphore, level, failCount, clock, printed,
                 fatal>>

Give(t, from, to) ==
  /\ Goto(t, from, to)
  /\ mutex' = NoThread
  /\ UNCHANGED <<setup, ring, semaphore, level, failCount, clock, printed,
                 fatal>>

\* A binary semaphore saturates: release() on a given one changes nothing.
Signal(t, from, to) ==
  /\ Goto(t, from, to)
  /\ semaphore' = 1
  /\ UNCHANGED <<setup, ring, mutex, level, failCount, clock, printed, fatal>>

Lock(p) == Take(p, "lock", "format")

\* Both formatters succeed: the line stands in nextSlot().
Format(p) ==
  /\ clock' = clock + 1
  /\ ring' = Buffer!NextSlotWritten(ring, clock')
  /\ IF level[p] = FatalLevel
     THEN Goto(p, "format", "drain") /\ fatal' = fatal \cup {clock'}
     ELSE Goto(p, "format", "commit") /\ UNCHANGED fatal
  /\ UNCHANGED <<setup, mutex, semaphore, level, failCount, printed>>

\* One of them returns a negative number.  If it is the second, the prefix
\* stands in nextSlot(); if it is the first, anything may.
FormatFails(p) ==
  /\ FormatMayFail
  /\ clock' = clock + 1
  /\ ring' \in {ring, Buffer!NextSlotWritten(ring, Torn)}
  /\ Goto(p, "format", "abandon")
  /\ UNCHANGED <<setup, mutex, semaphore, level, failCount, printed, fatal>>

\* Faulty form of the early return: no guard unlocks.
AbandonLocked(p) ==
  /\ Goto(p, "abandon", "idle")
  /\ UNCHANGED <<setup, ring, mutex, semaphore, level, failCount, clock,
                 printed, fatal>>

\* The early return: the guard unlocks and the semaphore is not released.
\* Back in fatal(), though not in log(), the fatal handler ends the program.
Abandon(p) ==
  \/ Give(p, "abandon", "idle")
  \/ level[p] = FatalLevel /\ Give(p, "abandon", "halted")

\* Faulty form of the commit: a full ring drops the newest message.
CommitIfFree(p) ==
  /\ Goto(p, "commit", "unlock")
  /\ ring' = IF Buffer!IsFull(ring) THEN ring ELSE Buffer!NextSlotUsed(ring)
  /\ UNCHANGED <<setup, mutex, semaphore, level, failCount, clock, printed,
                 fatal>>

\* buffer_.useNextSlot()
Commit(p) ==
  /\ Goto(p, "commit", "unlock")
  /\ ring' = Buffer!NextSlotUsed(ring)
  /\ UNCHANGED <<setup, mutex, semaphore, level, failCount, clock, printed,
                 fatal>>

\* Faulty form of the end of a call: the semaphore is not released.
UnlockOnly(p) == Give(p, "unlock", "idle")

Unlock(p) == Give(p, "unlock", "release")

Release(p) == Signal(p, "release", "idle")

(***************************************************************************)
(* The Fatal path prints what is in the ring, oldest first, until the ring *)
(* is empty or four prints in a row have failed.  terminate() then never   *)
(* returns, and the mutex is never given back.                             *)
(***************************************************************************)
DrainPrint(p) ==
  /\ pc[p] = "drain" /\ ~Buffer!IsEmpty(ring)
  /\ printed' = Append(printed, Buffer!Peek(ring))
  /\ ring' = Buffer!Discarded(ring, 1)
  /\ failCount' = 0
  /\ UNCHANGED <<setup, mutex, semaphore, pc, level, clock, fatal>>

\* Faulty forms of a failed print: one attempt too many, a message dropped
\* with the attempt, and no last attempt.
DrainFailsOnceMore(p) ==
  /\ PrintMayFail
  /\ pc[p] = "drain" /\ ~Buffer!IsEmpty(ring)
  /\ IF failCount > MaxFailCount
     THEN failCount' = 0 /\ Goto(p, "drain", "halted")
     ELSE failCount' = failCount + 1 /\ UNCHANGED pc
  /\ UNCHANGED <<setup, ring, mutex, semaphore, level, clock, printed, fatal>>

DrainFailsDropping(p) ==
  /\ PrintMayFail
  /\ pc[p] = "drain" /\ ~Buffer!IsEmpty(ring)
  /\ ring' = Buffer!Discarded(ring, 1)
  /\ UNCHANGED <<setup, mutex, semaphore, pc, level, failCount, clock, printed,
                 fatal>>

DrainFailsForEver(p) ==
  /\ PrintMayFail
  /\ pc[p] = "drain" /\ ~Buffer!IsEmpty(ring)
  /\ failCount' = (failCount + 1) % MaxFailCount
  /\ UNCHANGED <<setup, ring, mutex, semaphore, pc, level, clock, printed,
                 fatal>>

DrainFails(p) ==
  /\ PrintMayFail
  /\ pc[p] = "drain" /\ ~Buffer!IsEmpty(ring)
  /\ IF failCount >= MaxFailCount
     THEN failCount' = 0 /\ Goto(p, "drain", "halted")
     ELSE failCount' = failCount + 1 /\ UNCHANGED pc
  /\ UNCHANGED <<setup, ring, mutex, semaphore, level, clock, printed, fatal>>

DrainDone(p) ==
  /\ Buffer!IsEmpty(ring)
  /\ Goto(p, "drain", "halted")
  /\ UNCHANGED <<setup, ring, mutex, semaphore, level, failCount, clock,
                 printed, fatal>>

-----------------------------------------------------------------------------
(***************************************************************************)
(* logPrinterThread()                                                      *)
(***************************************************************************)
PrinterStart == Signal(Printer, "start", "acquire")

PrinterAcquire ==
  /\ semaphore = 1
  /\ semaphore' = 0
  /\ Goto(Printer, "acquire", "lock")
  /\ UNCHANGED <<setup, ring, mutex, level, failCount, clock, printed, fatal>>

\* Faulty form of the printer's lock(): one that does not wait.
PrinterTryLock ==
  /\ Goto(Printer, "lock", "check")
  /\ UNCHANGED <<setup, ring, mutex, semaphore, level, failCount, clock,
                 printed, fatal>>

PrinterLock == Take(Printer, "lock", "check")

PrinterCheck ==
  /\ Goto(Printer, "check",
          IF Buffer!IsEmpty(ring) THEN "unlockEmpty" ELSE "print")
  /\ UNCHANGED <<setup, ring, mutex, semaphore, level, failCount, clock,
                 printed, fatal>>

\* Faulty form of the print: the mutex is given back for its duration.
PrinterPrintUnlocked ==
  /\ Goto(Printer, "print", "discard")
  /\ printed' = Append(printed, Buffer!Peek(ring))
  /\ mutex' = NoThread
  /\ UNCHANGED <<setup, ring, semaphore, level, failCount, clock, fatal>>

PrinterPrint ==
  /\ Goto(Printer, "print", "discard")
  /\ printed' = Append(printed, Buffer!Peek(ring))
  /\ UNCHANGED <<setup, ring, mutex, semaphore, level, failCount, clock, fatal>>

\* The message stays in the ring for another attempt.
PrinterFails ==
  /\ PrintMayFail
  /\ Goto(Printer, "print", "unlock")
  /\ UNCHANGED <<setup, ring, mutex, semaphore, level, failCount, clock,
                 printed, fatal>>

\* Faulty form of the discard: it is forgotten.
PrinterKeeps ==
  /\ Goto(Printer, "discard", "unlock")
  /\ UNCHANGED <<setup, ring, mutex, semaphore, level, failCount, clock,
                 printed, fatal>>

PrinterDiscard ==
  /\ Goto(Printer, "discard", "unlock")
  /\ ring' = Buffer!Discarded(ring, 1)
  /\ UNCHANGED <<setup, mutex, semaphore, level, failCount, clock, printed,
                 fatal>>

\* Faulty form of a turn's end: the printer does not wake itself again.
PrinterUnlockOnly == Give(Printer, "unlock", "acquire")

PrinterUnlock == Give(Printer, "unlock", "release")

\* Then Thread::yield(), which changes no state of the logger.
PrinterRelease == Signal(Printer, "release", "acquire")

PrinterUnlockEmpty == Give(Printer, "unlockEmpty", "acquire")

-----------------------------------------------------------------------------
Setup == CreateMutex \/ CreateSemaphore \/ CreateThread

\* What a producer does once it has called.
Produce(p) ==
  \/ Lock(p) \/ Format(p) \/ FormatFails(p) \/ Abandon(p)
  \/ Commit(p) \/ Unlock(p) \/ Release(p)
  \/ DrainPrint(p) \/ DrainFails(p) \/ DrainDone(p)

PrintMessages ==
  \/ PrinterStart \/ PrinterAcquire \/ PrinterLock \/ PrinterCheck
  \/ PrinterPrint \/ PrinterFails \/ PrinterDiscard
  \/ PrinterUnlock \/ PrinterRelease \/ PrinterUnlockEmpty

Next ==
  \/ Setup
  \/ \E p \in Producers : Produce(p) \/ \E lvl \in Levels : Call(p, lvl)
  \/ PrintMessages

Spec == Init /\ [][Next]_vars

(***************************************************************************)
(* Fairness.  A thread that can take a step takes one: the scheduler runs  *)
(* every ready thread in the end.  A thread that waits for a FreeRTOS      *)
(* mutex gets it when it is given back, before a holder of no higher       *)
(* priority can come round again, hence strong fairness of Lock(p); the    *)
(* printer, of low priority, has no such claim.  An output that is tried   *)
(* again and again works in the end.                                       *)
(***************************************************************************)
Fairness ==
  /\ WF_vars(Setup)
  /\ \A p \in Producers : WF_vars(Produce(p)) /\ SF_vars(Lock(p))
  /\ WF_vars(PrintMessages)

OutputWorks == SF_vars(PrinterPrint)

FairSpec == Spec /\ Fairness
-----------------------------------------------------------------------------
ProducerPlaces == {"idle", "lock", "format", "abandon", "commit", "unlock",
                   "release", "drain", "halted"}

PrinterPlaces == {"unborn", "start", "acquire", "lock", "check", "print",
                  "discard", "unlock", "release", "unlockEmpty"}

TypeOK ==
  /\ setup \in {"mutex", "semaphore", "thread", "ready", "failed"}
  /\ ring \in Buffer!Rings
  /\ mutex \in Threads \cup {NoThread}
  /\ semaphore \in {0, 1}
  /\ pc \in [Threads -> ProducerPlaces \cup PrinterPlaces]
  /\ \A p \in Producers : pc[p] \in ProducerPlaces
  /\ pc[Printer] \in PrinterPlaces
  /\ level \in [Producers -> 0 .. FatalLevel]
  /\ failCount \in 0 .. MaxFailCount
  /\ clock \in Nat
  /\ printed \in Seq(Nat \cup {Blank, Torn})
  /\ fatal \in SUBSET Nat

\* The places of a thread that works on the ring, with the mutex in hand.
Critical == {"format", "abandon", "commit", "drain", "check", "print",
             "discard", "unlockEmpty", "unlock"}

\* The ring, its slots and fail_count are one thread's at a time: a thread
\* between lock() and unlock() is the holder, and the holder is such a
\* thread or one that terminate() stopped there.  So unlock() never fails,
\* which would be fatal (Mutex::unlock).
MutexInv ==
  /\ \A t \in Threads : pc[t] \in Critical => mutex = t
  /\ \A t \in Threads : mutex = t => pc[t] \in Critical \cup {"halted"}

\* Someone will look at the ring: the semaphore is given, or the printer is
\* on its way to the ring or to a release, or a producer is on its way to
\* its release.
PrinterWillLook ==
  \/ semaphore = 1
  \/ pc[Printer] \in {"start", "lock", "check", "print", "discard", "unlock",
                      "release"}
  \/ \E p \in Producers : pc[p] \in {"unlock", "release"}

\* A stored message is never left with the printer asleep: the release that
\* follows the unlock, and the printer's own one, cover every order in which
\* a message is stored, seen, kept for another attempt or printed
\* (logPrinterThread and the end of logImpl).
NoLostWakeup == ~Buffer!IsEmpty(ring) => PrinterWillLook

\* What the printer discards is what it has printed, whatever was logged in
\* between (peekRef() and discard(1) in logPrinterThread).
DiscardsWhatItPrinted ==
  pc[Printer] = "discard" =>
    /\ ~Buffer!IsEmpty(ring)
    /\ printed # <<>> /\ printed[Len(printed)] = Buffer!Peek(ring)

\* Whole messages are printed once each and in the order of their stamps,
\* those of Fatal calls apart (getTimeLine() is read under the mutex and
\* the ring is first-in first-out).
PrintedInOrder ==
  \A i, j \in DOMAIN printed :
    i < j /\ {printed[i], printed[j]} \cap (fatal \cup {Torn}) = {} =>
      printed[i] < printed[j]

InRing == {Buffer!Contents(ring)[k] : k \in 1 .. ring.count} \ {Torn}

\* A stored message leaves the ring because it has been printed, or as the
\* oldest of a full ring, where nextSlot() gives its slot to a newer call.
LeavesPrintedOrOldest ==
  [][\A m \in InRing : m \notin InRing' =>
       \/ \E i \in DOMAIN printed' : printed'[i] = m
       \/ Buffer!IsFull(ring) /\ Buffer!Peek(ring) = m]_vars

\* Once a thread has stopped in terminate() with the mutex, nothing more is
\* printed or stored: the ring is left for a debugger as it was.
HaltFreezes ==
  [][\A p \in Producers :
       pc[p] = "halted" /\ mutex = p => UNCHANGED <<ring, printed>>]_vars

\* A Fatal message is output before the program ends ("Fatal log message
\* outputted, terminating program", sync_async_interface.hpp:107).
FatalMessageOutput ==
  \A p \in Producers : pc[p] = "halted" =>
    \A m \in fatal : \E i \in DOMAIN printed : printed[i] = m

\* A Fatal call has stopped, and with it everything that needs the mutex.
Ended == \E p \in Producers : pc[p] = "halted" /\ mutex = p

\* No message stays in the ring for ever but one the program ended on, if
\* the output works now and then.
EveryMessageLeaves ==
  OutputWorks => \A m \in 1 .. MaxMessages : m \in InRing ~> m \notin InRing \/ Ended

\* A call returns or the program ends, whatever the output does.
EveryCallReturns ==
  \A p \in Producers : pc[p] = "lock" ~> pc[p] \in {"idle", "halted"} \/ Ended

\* A Fatal call ends the program, whatever the output does: the loop that
\* drains the ring gives up on an output that fails.
FatalEnds == \A p \in Producers : pc[p] = "drain" ~> pc[p] = "halted"

\* The messages the channel still owes.  The oldest one is gone when it has
\* been printed and not yet discarded, and when its slot in a full ring has
\* been written over and useNextSlot() is still to come.
Pending ==
  IF \/ pc[Printer] = "discard"
     \/ Buffer!IsFull(ring) /\ \E p \in Producers : pc[p] = "commit"
  THEN Tail(Buffer!Contents(ring))
  ELSE Buffer!Contents(ring)

Channel == INSTANCE LogChannel
             WITH Capacity <- BufferCount, Messages <- 1 .. MaxMessages,
                  Spoilt <- Torn, pending <- Pending, output <- printed

\* The logger is a bounded channel that prints in order and loses only its
\* oldest line, to a newer one or to what a call that did not succeed left
\* in its slot (buffer_.nextSlot() of a full ring, in logImpl).
RefinesChannel == Channel!Spec
=============================================================================
