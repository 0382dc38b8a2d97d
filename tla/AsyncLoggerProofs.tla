------------------------- MODULE AsyncLoggerProofs --------------------------
(***************************************************************************)
(* For any number of producers, any number of line buffers and any failure *)
(* of a formatter or of the output: the mutex guards the ring, a stored    *)
(* message is never left with the printer asleep, and the printer discards *)
(* what it has printed.  The logger implements LogChannel, prints in order *)
(* and loses only its oldest line.                                         *)
(***************************************************************************)
EXTENDS AsyncLogger, FiniteSetTheorems, SequenceTheorems, TLAPS

\* The lemmas about the operators of RingBuffer; none is cited that is about
\* the calls of RingBufferUse, whose constants and variables stand for nothing.
Facts == INSTANCE RingBufferUseProofs
           WITH ItemSize <- BufferCount,
                Type <- Nat \cup {Torn}, Unset <- Blank,
                ConstantEvaluated <- FALSE, MaxSpan <- 0,
                call <- pc, did <- printed, out <- printed

\* Before the printer exists nothing has been logged, and then it does.
SetupInv ==
  IF setup = "ready"
  THEN pc[Printer] # "unborn"
  ELSE /\ pc[Printer] = "unborn" /\ Buffer!IsEmpty(ring)
       /\ \A p \in Producers : pc[p] = "idle"

\* What the printer found when it looked at the ring still holds.
PrinterKnows ==
  /\ pc[Printer] = "unlockEmpty" => Buffer!IsEmpty(ring)
  /\ pc[Printer] \in {"print", "discard"} => ~Buffer!IsEmpty(ring)

Inv ==
  /\ TypeOK
  /\ Buffer!Aligned(ring)
  /\ MutexInv
  /\ SetupInv
  /\ PrinterKnows
  /\ NoLostWakeup
  /\ DiscardsWhatItPrinted

-----------------------------------------------------------------------------
\* The ring of line buffers is a sound RingBuffer.
LEMMA SoundRing ==
  ASSUME NEW r
  PROVE  Facts!Sound(r) <=> r \in Buffer!Rings /\ Buffer!Aligned(r)
BY DEF Facts!Sound, Facts!Rings, Buffer!Rings, Facts!Aligned, Buffer!Aligned,
       Facts!Slots, Buffer!Slots

\* The ring as it is constructed, and after clear().
LEMMA EmptyRing ==
  /\ Buffer!NewRing \in Buffer!Rings /\ Buffer!Aligned(Buffer!NewRing)
  /\ Buffer!IsEmpty(Buffer!NewRing)
  /\ \A r \in Buffer!Rings :
       /\ Buffer!Cleared(r) \in Buffer!Rings
       /\ Buffer!Aligned(Buffer!Cleared(r))
       /\ Buffer!IsEmpty(Buffer!Cleared(r))
<1>1. /\ Buffer!NewRing = Facts!NewRing
      /\ Buffer!IsEmpty(Buffer!NewRing)
  BY DEF Buffer!NewRing, Facts!NewRing, Buffer!Ring, Facts!Ring,
         Buffer!Slots, Facts!Slots, Buffer!IsEmpty
<1>2. \A r : /\ Buffer!Cleared(r) = Facts!Cleared(r)
             /\ Buffer!IsEmpty(Buffer!Cleared(r))
  BY DEF Buffer!Cleared, Facts!Cleared, Buffer!Ring, Facts!Ring,
         Buffer!IsEmpty
<1>3. \A r \in Buffer!Rings : r \in Facts!Rings
  BY DEF Buffer!Rings, Facts!Rings, Buffer!Slots, Facts!Slots
<1> QED
  BY <1>1, <1>2, <1>3, SoundRing, BufferAssumption, Facts!NewRingFact,
     Facts!ClearedFact

\* A formatter at work on nextSlot() stores and removes nothing.
LEMMA WrittenRing ==
  ASSUME NEW r \in Buffer!Rings, Buffer!Aligned(r), NEW v \in Nat \cup {Torn}
  PROVE  /\ Buffer!NextSlotWritten(r, v) \in Buffer!Rings
         /\ Buffer!Aligned(Buffer!NextSlotWritten(r, v))
         /\ Buffer!NextSlotWritten(r, v).count = r.count
<1>1. Buffer!NextSlotWritten(r, v) = Facts!NextSlotWritten(r, v)
  BY DEF Buffer!NextSlotWritten, Facts!NextSlotWritten, Buffer!Ring, Facts!Ring
<1> QED
  BY <1>1, SoundRing, BufferAssumption, Facts!NextSlotWrittenFact

\* useNextSlot() leaves a message in the ring.
LEMMA UsedRing ==
  ASSUME NEW r \in Buffer!Rings, Buffer!Aligned(r)
  PROVE  /\ Buffer!NextSlotUsed(r) \in Buffer!Rings
         /\ Buffer!Aligned(Buffer!NextSlotUsed(r))
<1>1. Buffer!NextSlotUsed(r) = Facts!TakeSlot(r)
  BY DEF Buffer!NextSlotUsed, Buffer!TakeSlot, Facts!TakeSlot, Buffer!Ring,
         Facts!Ring, Buffer!IsFull, Facts!IsFull, Buffer!Index!Increment,
         Facts!Index!Increment, Buffer!Index!Wrap, Facts!Index!Wrap
<1> QED
  BY <1>1, SoundRing, BufferAssumption, Facts!TakeSlotFact

\* discard(1) keeps the ring sound.
LEMMA DiscardedRing ==
  ASSUME NEW r \in Buffer!Rings, Buffer!Aligned(r)
  PROVE  /\ Buffer!Discarded(r, 1) \in Buffer!Rings
         /\ Buffer!Aligned(Buffer!Discarded(r, 1))
<1>1. Buffer!Discarded(r, 1) = Facts!Discarded(r, 1)
  BY DEF Buffer!Discarded, Facts!Discarded, Buffer!Ring, Facts!Ring,
         Buffer!Index!AddAssign, Facts!Index!AddAssign,
         Buffer!Index!Wrap, Facts!Index!Wrap
<1> QED
  BY <1>1, SoundRing, BufferAssumption, Facts!DiscardedFact

\* peekRef() is one of the line buffers.
LEMMA PeekedLine ==
  ASSUME NEW r \in Buffer!Rings
  PROVE  Buffer!Peek(r) \in Nat \cup {Blank, Torn}
BY BufferAssumption DEF Buffer!Rings, Buffer!Peek, Buffer!Slots

-----------------------------------------------------------------------------
\* Before logInit() every part of the invariant holds.
LEMMA InitInv == Init => Inv
<1> SUFFICES ASSUME Init
             PROVE  Inv
  OBVIOUS
<1>1. /\ ring \in Buffer!Rings /\ Buffer!Aligned(ring) /\ Buffer!IsEmpty(ring)
  BY EmptyRing DEF Init
<1>2. TypeOK
  BY <1>1, LoggerAssumption
  DEF Init, TypeOK, Threads, ProducerPlaces, PrinterPlaces, FatalLevel,
      MaxFailCount
<1>3. MutexInv
  BY LoggerAssumption DEF Init, MutexInv, Threads, Critical
<1>4. SetupInv /\ PrinterKnows /\ NoLostWakeup /\ DiscardsWhatItPrinted
  BY <1>1, LoggerAssumption
  DEF Init, SetupInv, PrinterKnows, NoLostWakeup, DiscardsWhatItPrinted, Threads
<1> QED
  BY <1>1, <1>2, <1>3, <1>4 DEF Inv

-----------------------------------------------------------------------------
\* A thread that goes somewhere leaves the others where they are.
LEMMA GotoFact ==
  ASSUME TypeOK, NEW t \in Threads, NEW from, NEW to, Goto(t, from, to)
  PROVE  /\ pc[t] = from /\ pc'[t] = to
         /\ \A u \in Threads : u # t => pc'[u] = pc[u]
         /\ to \in ProducerPlaces \cup PrinterPlaces =>
              pc' \in [Threads -> ProducerPlaces \cup PrinterPlaces]
BY DEF Goto, TypeOK

\* The printer is a thread, and no producer.
LEMMA ThreadFact ==
  /\ Printer \in Threads /\ Printer \notin Producers
  /\ \A p \in Producers : p \in Threads /\ p # Printer
BY LoggerAssumption DEF Threads

\* A step of a thread that leaves the mutex alone keeps the mutex's
\* discipline, unless it enters or leaves the critical places.
LEMMA MoveKeepsMutex ==
  ASSUME TypeOK, MutexInv, NEW t \in Threads, NEW from, NEW to,
         Goto(t, from, to), mutex' = mutex,
         to \in Critical => from \in Critical,
         from \in Critical \cup {"halted"} => to \in Critical \cup {"halted"}
  PROVE  MutexInv'
<1>1. /\ pc[t] = from /\ pc'[t] = to
      /\ \A u \in Threads : u # t => pc'[u] = pc[u]
  BY GotoFact
<1> QED
  BY <1>1 DEF MutexInv

\* Taking a free mutex leads into the critical places.
LEMMA TakeKeepsMutex ==
  ASSUME TypeOK, MutexInv, NEW t \in Threads, NEW from, NEW to,
         Take(t, from, to), to \in Critical
  PROVE  MutexInv'
<1>1. /\ pc[t] = from /\ pc'[t] = to
      /\ \A u \in Threads : u # t => pc'[u] = pc[u]
  BY GotoFact DEF Take
<1>2. mutex = NoThread /\ mutex' = t
  BY DEF Take
<1>3. \A u \in Threads : pc[u] \notin Critical
  BY <1>2, LoggerAssumption DEF MutexInv, Threads
<1> QED
  BY <1>1, <1>2, <1>3 DEF MutexInv

\* Only the holder gives the mutex back, and it leaves the critical places.
LEMMA GiveKeepsMutex ==
  ASSUME TypeOK, MutexInv, NEW t \in Threads, NEW from, NEW to,
         Give(t, from, to), from \in Critical, to \notin Critical
  PROVE  MutexInv'
<1>1. /\ pc[t] = from /\ pc'[t] = to
      /\ \A u \in Threads : u # t => pc'[u] = pc[u]
  BY GotoFact DEF Give
<1>2. mutex = t /\ mutex' = NoThread
  BY <1>1 DEF Give, MutexInv
<1>3. NoThread \notin Threads
  BY LoggerAssumption DEF Threads
<1> QED
  BY <1>1, <1>2, <1>3 DEF MutexInv

\* Two threads are never in critical places at once.
LEMMA Exclusive ==
  ASSUME MutexInv, NEW t \in Threads, NEW u \in Threads,
         pc[t] \in Critical, pc[u] \in Critical
  PROVE  t = u
BY DEF MutexInv

\* A producer on its way keeps the types of every thread's place.
LEMMA ProducerMoves ==
  ASSUME TypeOK, NEW p \in Producers, NEW from, NEW to \in ProducerPlaces,
         Goto(p, from, to)
  PROVE  /\ pc[p] = from /\ pc'[p] = to /\ pc'[Printer] = pc[Printer]
         /\ \A q \in Producers : q # p => pc'[q] = pc[q]
         /\ pc' \in [Threads -> ProducerPlaces \cup PrinterPlaces]
         /\ \A q \in Producers : pc'[q] \in ProducerPlaces
         /\ pc'[Printer] \in PrinterPlaces
<1>1. p \in Threads /\ p # Printer /\ Printer \in Threads
  BY ThreadFact
<1>2. /\ pc[p] = from /\ pc'[p] = to
      /\ \A u \in Threads : u # p => pc'[u] = pc[u]
      /\ pc' \in [Threads -> ProducerPlaces \cup PrinterPlaces]
  BY <1>1, GotoFact
<1> QED
  BY <1>1, <1>2, ThreadFact DEF TypeOK

\* So does the printer.
LEMMA PrinterMoves ==
  ASSUME TypeOK, NEW from, NEW to \in PrinterPlaces, Goto(Printer, from, to)
  PROVE  /\ pc[Printer] = from /\ pc'[Printer] = to
         /\ \A q \in Producers : pc'[q] = pc[q]
         /\ pc' \in [Threads -> ProducerPlaces \cup PrinterPlaces]
         /\ \A q \in Producers : pc'[q] \in ProducerPlaces
         /\ pc'[Printer] \in PrinterPlaces
<1>1. /\ pc[Printer] = from /\ pc'[Printer] = to
      /\ \A u \in Threads : u # Printer => pc'[u] = pc[u]
      /\ pc' \in [Threads -> ProducerPlaces \cup PrinterPlaces]
  BY ThreadFact, GotoFact
<1> QED
  BY <1>1, ThreadFact DEF TypeOK

-----------------------------------------------------------------------------
\* logInit() touches nothing a thread could be using.
LEMMA SetupStep ==
  ASSUME Inv, Setup
  PROVE  Inv'
<1>1. TypeOK /\ MutexInv /\ SetupInv /\ PrinterKnows /\ Buffer!Aligned(ring)
  BY DEF Inv
<1>2. CASE CreateMutex
  <2>1. /\ ring' \in Buffer!Rings /\ Buffer!Aligned(ring')
        /\ Buffer!IsEmpty(ring')
    BY <1>1, <1>2, EmptyRing DEF CreateMutex, TypeOK
  <2>2. TypeOK' /\ MutexInv'
    BY <1>1, <1>2, <2>1 DEF CreateMutex, TypeOK, MutexInv
  <2>3. /\ SetupInv' /\ PrinterKnows' /\ NoLostWakeup'
        /\ DiscardsWhatItPrinted'
    BY <1>1, <1>2, <2>1
    DEF CreateMutex, SetupInv, PrinterKnows, NoLostWakeup,
        DiscardsWhatItPrinted, Buffer!IsEmpty
  <2> QED
    BY <2>1, <2>2, <2>3 DEF Inv, Buffer!Aligned
<1>3. CASE CreateSemaphore
  BY <1>3 DEF CreateSemaphore, Inv, TypeOK, MutexInv, SetupInv, PrinterKnows,
              NoLostWakeup, PrinterWillLook, DiscardsWhatItPrinted
<1>4. CASE CreateThread /\ setup' = "failed"
  BY <1>4 DEF CreateThread, Inv, TypeOK, MutexInv, SetupInv, PrinterKnows,
              NoLostWakeup, PrinterWillLook, DiscardsWhatItPrinted, Goto
<1>5. CASE CreateThread /\ setup' = "ready"
  <2>1. /\ setup = "thread" /\ setup' = "ready"
        /\ Goto(Printer, "unborn", "start")
        /\ UNCHANGED <<ring, mutex, semaphore, level, failCount, clock,
                       printed, fatal>>
    BY <1>5 DEF CreateThread
  <2>2. /\ pc'[Printer] = "start"
        /\ pc' \in [Threads -> ProducerPlaces \cup PrinterPlaces]
        /\ \A q \in Producers : pc'[q] \in ProducerPlaces
        /\ pc'[Printer] \in PrinterPlaces
    BY <1>1, <2>1, PrinterMoves DEF PrinterPlaces
  <2>3. MutexInv'
    BY <1>1, <2>1, MoveKeepsMutex, ThreadFact DEF Critical
  <2> QED
    BY <2>1, <2>2, <2>3
    DEF Inv, TypeOK, SetupInv, PrinterKnows, NoLostWakeup, PrinterWillLook,
        DiscardsWhatItPrinted
<1> QED
  BY <1>2, <1>3, <1>4, <1>5 DEF Setup, CreateThread

\* A producer that moves on and touches neither ring nor output disturbs
\* nothing the printer relies on, unless it skips its release.
LEMMA QuietMove ==
  ASSUME Inv, NEW p \in Producers, NEW from, NEW to \in ProducerPlaces,
         Goto(p, from, to), from # "idle" \/ setup = "ready",
         UNCHANGED <<setup, ring, printed>>, semaphore' \in {semaphore, 1},
         from \in {"unlock", "release"} =>
           to \in {"unlock", "release"} \/ semaphore' = 1
  PROVE  /\ Buffer!Aligned(ring)' /\ SetupInv' /\ PrinterKnows'
         /\ NoLostWakeup' /\ DiscardsWhatItPrinted'
<1>1. /\ TypeOK /\ SetupInv /\ PrinterKnows /\ NoLostWakeup
      /\ DiscardsWhatItPrinted /\ Buffer!Aligned(ring)
  BY DEF Inv
<1>2. /\ pc[p] = from /\ pc'[p] = to /\ pc'[Printer] = pc[Printer]
      /\ \A q \in Producers : q # p => pc'[q] = pc[q]
  BY <1>1, ProducerMoves
<1>3. SetupInv'
  BY <1>1, <1>2 DEF SetupInv
<1>4. NoLostWakeup'
  BY <1>1, <1>2 DEF NoLostWakeup, PrinterWillLook
<1> QED
  BY <1>1, <1>2, <1>3, <1>4 DEF PrinterKnows, DiscardsWhatItPrinted

\* Whatever a producer does in a call, in any interleaving.
LEMMA ProducerStep ==
  ASSUME Inv, NEW p \in Producers, Produce(p)
  PROVE  Inv'
<1>1. /\ TypeOK /\ MutexInv /\ SetupInv /\ PrinterKnows /\ NoLostWakeup
      /\ DiscardsWhatItPrinted /\ Buffer!Aligned(ring)
  BY DEF Inv
<1>2. p \in Threads /\ p # Printer /\ Printer \in Threads
  BY ThreadFact
<1>3. pc[p] # "idle" => setup = "ready"
  BY <1>1 DEF SetupInv
<1>4. pc[p] \in Critical => pc[Printer] \notin Critical
  BY <1>1, <1>2, Exclusive
<1>5. CASE Lock(p)
  <2>1. Goto(p, "lock", "format")
    BY <1>5 DEF Lock, Take
  <2>2. MutexInv'
    BY <1>1, <1>2, <1>5, TakeKeepsMutex DEF Lock, Critical
  <2>3. TypeOK'
    BY <1>1, <1>2, <1>5, <2>1, ProducerMoves
    DEF Lock, Take, TypeOK, ProducerPlaces
  <2> QED
    BY <1>5, <2>1, <2>2, <2>3, QuietMove DEF Lock, Take, Inv, ProducerPlaces
<1>6. CASE Format(p) \/ FormatFails(p)
  <2>1. PICK to \in {"drain", "commit", "abandon"} : Goto(p, "format", to)
    BY <1>6 DEF Format, FormatFails
  <2>2. PICK v \in Nat \cup {Torn} :
          ring' \in {ring, Buffer!NextSlotWritten(ring, v)}
    <3>1. CASE Format(p)
      <4>1. clock + 1 \in Nat \cup {Torn}
        BY <1>1 DEF TypeOK
      <4>2. ring' = Buffer!NextSlotWritten(ring, clock + 1)
        BY <3>1 DEF Format
      <4> QED
        BY <4>1, <4>2
    <3>2. CASE FormatFails(p)
      BY <3>2 DEF FormatFails
    <3> QED
      BY <1>6, <3>1, <3>2
  <2>3. /\ ring' \in Buffer!Rings /\ Buffer!Aligned(ring')
        /\ ring'.count = ring.count
    BY <1>1, <2>2, WrittenRing DEF TypeOK
  <2>4. /\ UNCHANGED <<setup, mutex, semaphore, level, failCount, printed>>
        /\ clock' = clock + 1 /\ fatal' \in {fatal, fatal \cup {clock'}}
    BY <1>6 DEF Format, FormatFails
  <2>5. MutexInv'
    BY <1>1, <1>2, <2>1, <2>4, MoveKeepsMutex DEF Critical
  <2>6. TypeOK'
    BY <1>1, <1>2, <2>1, <2>3, <2>4, ProducerMoves DEF TypeOK, ProducerPlaces
  <2>7. /\ pc[p] = "format" /\ pc'[p] = to /\ pc'[Printer] = pc[Printer]
        /\ \A q \in Producers : q # p => pc'[q] = pc[q]
        /\ pc[Printer] \notin Critical
    BY <1>1, <1>4, <2>1, ProducerMoves DEF ProducerPlaces, Critical
  <2>8. NoLostWakeup'
    BY <1>1, <2>3, <2>4, <2>7
    DEF NoLostWakeup, PrinterWillLook, Buffer!IsEmpty
  <2>9. SetupInv' /\ PrinterKnows' /\ DiscardsWhatItPrinted'
    BY <1>1, <1>3, <2>4, <2>7
    DEF SetupInv, PrinterKnows, DiscardsWhatItPrinted, Critical
  <2> QED
    BY <2>3, <2>5, <2>6, <2>8, <2>9 DEF Inv, Buffer!Aligned
<1>7. CASE Abandon(p)
  <2>1. PICK to \in {"idle", "halted"} : Give(p, "abandon", to)
    BY <1>7 DEF Abandon
  <2>2. Goto(p, "abandon", to)
    BY <2>1 DEF Give
  <2>3. MutexInv'
    BY <1>1, <1>2, <2>1, GiveKeepsMutex DEF Critical
  <2>4. TypeOK'
    BY <1>1, <2>1, <2>2, ProducerMoves DEF Give, TypeOK, ProducerPlaces
  <2> QED
    BY <2>1, <2>2, <2>3, <2>4, QuietMove DEF Give, Inv, ProducerPlaces
<1>8. CASE Commit(p)
  <2>1. /\ ring' = Buffer!NextSlotUsed(ring) /\ Goto(p, "commit", "unlock")
        /\ UNCHANGED <<setup, mutex, semaphore, level, failCount, clock,
                       printed, fatal>>
    BY <1>8 DEF Commit
  <2>2. ring' \in Buffer!Rings /\ Buffer!Aligned(ring')
    BY <1>1, <2>1, UsedRing DEF TypeOK
  <2>3. MutexInv'
    BY <1>1, <1>2, <2>1, MoveKeepsMutex DEF Critical
  <2>4. TypeOK'
    BY <1>1, <2>1, <2>2, ProducerMoves DEF TypeOK, ProducerPlaces
  <2>5. /\ pc[p] = "commit" /\ pc'[p] = "unlock" /\ pc'[Printer] = pc[Printer]
        /\ \A q \in Producers : q # p => pc'[q] = pc[q]
        /\ pc[Printer] \notin Critical
    BY <1>1, <1>4, <2>1, ProducerMoves DEF ProducerPlaces, Critical
  <2>6. /\ SetupInv' /\ PrinterKnows' /\ NoLostWakeup'
        /\ DiscardsWhatItPrinted'
    BY <1>1, <1>3, <2>1, <2>5
    DEF SetupInv, PrinterKnows, NoLostWakeup, PrinterWillLook,
        DiscardsWhatItPrinted, Critical
  <2> QED
    BY <2>2, <2>3, <2>4, <2>6 DEF Inv, Buffer!Aligned
<1>9. CASE Unlock(p)
  <2>1. Give(p, "unlock", "release") /\ Goto(p, "unlock", "release")
    BY <1>9 DEF Unlock, Give
  <2>2. MutexInv'
    BY <1>1, <1>2, <2>1, GiveKeepsMutex DEF Critical
  <2>3. TypeOK'
    BY <1>1, <2>1, ProducerMoves DEF Give, TypeOK, ProducerPlaces
  <2> QED
    BY <2>1, <2>2, <2>3, QuietMove DEF Give, Inv, ProducerPlaces
<1>10. CASE Release(p)
  <2>1. Signal(p, "release", "idle") /\ Goto(p, "release", "idle")
    BY <1>10 DEF Release, Signal
  <2>2. MutexInv'
    BY <1>1, <1>2, <2>1, MoveKeepsMutex DEF Signal, Critical
  <2>3. TypeOK'
    BY <1>1, <2>1, ProducerMoves DEF Signal, TypeOK, ProducerPlaces
  <2> QED
    BY <2>1, <2>2, <2>3, QuietMove DEF Signal, Inv, ProducerPlaces
<1>11. CASE DrainPrint(p)
  <2>1. /\ ring' \in Buffer!Rings /\ Buffer!Aligned(ring')
        /\ Buffer!Peek(ring) \in Nat \cup {Blank, Torn}
    BY <1>1, <1>11, DiscardedRing, PeekedLine DEF DrainPrint, TypeOK
  <2>2. /\ TypeOK' /\ MutexInv'
    BY <1>1, <1>11, <2>1 DEF DrainPrint, TypeOK, MutexInv, MaxFailCount
  <2>3. pc[Printer] \notin Critical /\ setup = "ready"
    BY <1>3, <1>4, <1>11 DEF DrainPrint, Critical
  <2>4. /\ SetupInv' /\ PrinterKnows' /\ DiscardsWhatItPrinted'
    BY <1>1, <1>11, <2>3
    DEF DrainPrint, SetupInv, PrinterKnows, DiscardsWhatItPrinted, Critical
  <2>5. NoLostWakeup'
    BY <1>1, <1>11 DEF DrainPrint, NoLostWakeup, PrinterWillLook
  <2> QED
    BY <2>1, <2>2, <2>4, <2>5 DEF Inv, Buffer!Aligned
<1>12. CASE DrainFails(p) /\ failCount < MaxFailCount
  BY <1>1, <1>12
  DEF DrainFails, Inv, TypeOK, MutexInv, SetupInv, PrinterKnows, NoLostWakeup,
      PrinterWillLook, DiscardsWhatItPrinted, MaxFailCount
<1>13. CASE /\ Goto(p, "drain", "halted") /\ failCount' \in {0, failCount}
            /\ UNCHANGED <<setup, ring, mutex, semaphore, level, clock,
                           printed, fatal>>
  <2>1. MutexInv'
    BY <1>1, <1>2, <1>13, MoveKeepsMutex DEF Critical
  <2>2. TypeOK'
    BY <1>1, <1>13, ProducerMoves DEF TypeOK, ProducerPlaces, MaxFailCount
  <2> QED
    BY <1>13, <2>1, <2>2, QuietMove DEF Inv, ProducerPlaces
<1>14. CASE DrainFails(p) /\ ~(failCount < MaxFailCount)
  BY <1>1, <1>13, <1>14 DEF DrainFails, TypeOK, MaxFailCount
<1>15. CASE DrainDone(p)
  BY <1>13, <1>15 DEF DrainDone
<1> QED
  BY <1>5, <1>6, <1>7, <1>8, <1>9, <1>10, <1>11, <1>12, <1>14, <1>15
  DEF Produce

\* Whatever the printer does, in any interleaving.
LEMMA PrinterStep ==
  ASSUME Inv, PrintMessages
  PROVE  Inv'
<1>1. /\ TypeOK /\ MutexInv /\ SetupInv /\ PrinterKnows /\ NoLostWakeup
      /\ DiscardsWhatItPrinted /\ Buffer!Aligned(ring)
  BY DEF Inv
<1>2. Printer \in Threads
  BY ThreadFact
<1>3. CASE PrinterStart
  <2>1. Signal(Printer, "start", "acquire") /\ Goto(Printer, "start", "acquire")
    BY <1>3 DEF PrinterStart, Signal
  <2>2. MutexInv'
    BY <1>1, <1>2, <2>1, MoveKeepsMutex DEF Signal, Critical
  <2>3. TypeOK'
    BY <1>1, <2>1, PrinterMoves DEF Signal, TypeOK, PrinterPlaces
  <2>4. /\ SetupInv' /\ PrinterKnows' /\ NoLostWakeup'
        /\ DiscardsWhatItPrinted'
    BY <1>1, <2>1, PrinterMoves
    DEF Signal, SetupInv, PrinterKnows, NoLostWakeup, PrinterWillLook,
        DiscardsWhatItPrinted, PrinterPlaces
  <2> QED
    BY <1>1, <2>1, <2>2, <2>3, <2>4 DEF Signal, Inv
<1>4. CASE PrinterAcquire
  <2>1. MutexInv'
    BY <1>1, <1>2, <1>4, MoveKeepsMutex DEF PrinterAcquire, Critical
  <2>2. TypeOK'
    BY <1>1, <1>4, PrinterMoves DEF PrinterAcquire, TypeOK, PrinterPlaces
  <2>3. /\ SetupInv' /\ PrinterKnows' /\ NoLostWakeup'
        /\ DiscardsWhatItPrinted'
    BY <1>1, <1>4, PrinterMoves
    DEF PrinterAcquire, SetupInv, PrinterKnows, NoLostWakeup, PrinterWillLook,
        DiscardsWhatItPrinted, PrinterPlaces
  <2> QED
    BY <1>1, <1>4, <2>1, <2>2, <2>3 DEF PrinterAcquire, Inv
<1>5. CASE PrinterLock
  <2>1. Take(Printer, "lock", "check") /\ Goto(Printer, "lock", "check")
    BY <1>5 DEF PrinterLock, Take
  <2>2. MutexInv'
    BY <1>1, <1>2, <2>1, TakeKeepsMutex DEF Critical
  <2>3. TypeOK'
    BY <1>1, <1>2, <2>1, PrinterMoves DEF Take, TypeOK, PrinterPlaces
  <2>4. /\ SetupInv' /\ PrinterKnows' /\ NoLostWakeup'
        /\ DiscardsWhatItPrinted'
    BY <1>1, <2>1, PrinterMoves
    DEF Take, SetupInv, PrinterKnows, NoLostWakeup, PrinterWillLook,
        DiscardsWhatItPrinted, PrinterPlaces
  <2> QED
    BY <1>1, <2>1, <2>2, <2>3, <2>4 DEF Take, Inv
<1>6. CASE PrinterCheck
  <2>1. PICK to \in {"unlockEmpty", "print"} :
          /\ Goto(Printer, "check", to)
          /\ to = "unlockEmpty" <=> Buffer!IsEmpty(ring)
    BY <1>6 DEF PrinterCheck
  <2>2. MutexInv'
    BY <1>1, <1>2, <1>6, <2>1, MoveKeepsMutex DEF PrinterCheck, Critical
  <2>3. TypeOK'
    BY <1>1, <1>6, <2>1, PrinterMoves DEF PrinterCheck, TypeOK, PrinterPlaces
  <2>4. pc[Printer] = "check" /\ pc'[Printer] = to
        /\ \A q \in Producers : pc'[q] = pc[q]
    BY <1>1, <2>1, PrinterMoves DEF PrinterPlaces
  <2>5. /\ SetupInv' /\ PrinterKnows' /\ NoLostWakeup'
        /\ DiscardsWhatItPrinted'
    BY <1>1, <1>6, <2>1, <2>4
    DEF PrinterCheck, SetupInv, PrinterKnows, NoLostWakeup, PrinterWillLook,
        DiscardsWhatItPrinted
  <2> QED
    BY <1>1, <1>6, <2>2, <2>3, <2>5 DEF PrinterCheck, Inv
<1>7. CASE PrinterPrint
  <2>1. Buffer!Peek(ring) \in Nat \cup {Blank, Torn}
    BY <1>1, PeekedLine DEF TypeOK
  <2>2. MutexInv'
    BY <1>1, <1>2, <1>7, MoveKeepsMutex DEF PrinterPrint, Critical
  <2>3. TypeOK'
    BY <1>1, <1>7, <2>1, PrinterMoves DEF PrinterPrint, TypeOK, PrinterPlaces
  <2>4. printed' # <<>> /\ printed'[Len(printed')] = Buffer!Peek(ring)
    BY <1>1, <1>7, <2>1 DEF PrinterPrint, TypeOK
  <2>5. pc[Printer] = "print" /\ pc'[Printer] = "discard"
        /\ \A q \in Producers : pc'[q] = pc[q]
    BY <1>1, <1>7, PrinterMoves DEF PrinterPrint, PrinterPlaces
  <2>6. /\ SetupInv' /\ PrinterKnows' /\ NoLostWakeup'
        /\ DiscardsWhatItPrinted'
    BY <1>1, <1>7, <2>4, <2>5
    DEF PrinterPrint, SetupInv, PrinterKnows, NoLostWakeup, PrinterWillLook,
        DiscardsWhatItPrinted
  <2> QED
    BY <1>1, <1>7, <2>2, <2>3, <2>6 DEF PrinterPrint, Inv
<1>8. CASE PrinterFails
  <2>1. MutexInv'
    BY <1>1, <1>2, <1>8, MoveKeepsMutex DEF PrinterFails, Critical
  <2>2. TypeOK'
    BY <1>1, <1>8, PrinterMoves DEF PrinterFails, TypeOK, PrinterPlaces
  <2>3. /\ SetupInv' /\ PrinterKnows' /\ NoLostWakeup'
        /\ DiscardsWhatItPrinted'
    BY <1>1, <1>8, PrinterMoves
    DEF PrinterFails, SetupInv, PrinterKnows, NoLostWakeup, PrinterWillLook,
        DiscardsWhatItPrinted, PrinterPlaces
  <2> QED
    BY <1>1, <1>8, <2>1, <2>2, <2>3 DEF PrinterFails, Inv
<1>9. CASE PrinterDiscard
  <2>1. ring' \in Buffer!Rings /\ Buffer!Aligned(ring')
    BY <1>1, <1>9, DiscardedRing DEF PrinterDiscard, TypeOK
  <2>2. MutexInv'
    BY <1>1, <1>2, <1>9, MoveKeepsMutex DEF PrinterDiscard, Critical
  <2>3. TypeOK'
    BY <1>1, <1>9, <2>1, PrinterMoves DEF PrinterDiscard, TypeOK, PrinterPlaces
  <2>4. /\ SetupInv' /\ PrinterKnows' /\ NoLostWakeup'
        /\ DiscardsWhatItPrinted'
    BY <1>1, <1>9, PrinterMoves
    DEF PrinterDiscard, SetupInv, PrinterKnows, NoLostWakeup, PrinterWillLook,
        DiscardsWhatItPrinted, PrinterPlaces
  <2> QED
    BY <2>1, <2>2, <2>3, <2>4 DEF Inv, Buffer!Aligned
<1>10. CASE PrinterUnlock
  <2>1. Give(Printer, "unlock", "release") /\ Goto(Printer, "unlock", "release")
    BY <1>10 DEF PrinterUnlock, Give
  <2>2. MutexInv'
    BY <1>1, <1>2, <2>1, GiveKeepsMutex DEF Critical
  <2>3. TypeOK'
    BY <1>1, <2>1, PrinterMoves DEF Give, TypeOK, PrinterPlaces
  <2>4. /\ SetupInv' /\ PrinterKnows' /\ NoLostWakeup'
        /\ DiscardsWhatItPrinted'
    BY <1>1, <2>1, PrinterMoves
    DEF Give, SetupInv, PrinterKnows, NoLostWakeup, PrinterWillLook,
        DiscardsWhatItPrinted, PrinterPlaces
  <2> QED
    BY <1>1, <2>1, <2>2, <2>3, <2>4 DEF Give, Inv
<1>11. CASE PrinterRelease
  <2>1. /\ Signal(Printer, "release", "acquire")
        /\ Goto(Printer, "release", "acquire")
    BY <1>11 DEF PrinterRelease, Signal
  <2>2. MutexInv'
    BY <1>1, <1>2, <2>1, MoveKeepsMutex DEF Signal, Critical
  <2>3. TypeOK'
    BY <1>1, <2>1, PrinterMoves DEF Signal, TypeOK, PrinterPlaces
  <2>4. /\ SetupInv' /\ PrinterKnows' /\ NoLostWakeup'
        /\ DiscardsWhatItPrinted'
    BY <1>1, <2>1, PrinterMoves
    DEF Signal, SetupInv, PrinterKnows, NoLostWakeup, PrinterWillLook,
        DiscardsWhatItPrinted, PrinterPlaces
  <2> QED
    BY <1>1, <2>1, <2>2, <2>3, <2>4 DEF Signal, Inv
<1>12. CASE PrinterUnlockEmpty
  <2>1. /\ Give(Printer, "unlockEmpty", "acquire")
        /\ Goto(Printer, "unlockEmpty", "acquire")
    BY <1>12 DEF PrinterUnlockEmpty, Give
  <2>2. MutexInv'
    BY <1>1, <1>2, <2>1, GiveKeepsMutex DEF Critical
  <2>3. TypeOK'
    BY <1>1, <2>1, PrinterMoves DEF Give, TypeOK, PrinterPlaces
  <2>4. /\ SetupInv' /\ PrinterKnows' /\ NoLostWakeup'
        /\ DiscardsWhatItPrinted'
    BY <1>1, <2>1, PrinterMoves
    DEF Give, SetupInv, PrinterKnows, NoLostWakeup, PrinterWillLook,
        DiscardsWhatItPrinted, PrinterPlaces
  <2> QED
    BY <1>1, <2>1, <2>2, <2>3, <2>4 DEF Give, Inv
<1> QED
  BY <1>3, <1>4, <1>5, <1>6, <1>7, <1>8, <1>9, <1>10, <1>11, <1>12
  DEF PrintMessages

\* A producer that calls a logger that is set up.
LEMMA CallStep ==
  ASSUME Inv, NEW p \in Producers, NEW lvl \in Levels, Call(p, lvl)
  PROVE  Inv'
<1>1. TypeOK /\ MutexInv
  BY DEF Inv
<1>2. /\ Goto(p, "idle", "lock") /\ setup = "ready"
      /\ level' = [level EXCEPT ![p] = lvl]
      /\ UNCHANGED <<setup, ring, mutex, semaphore, failCount, clock, printed,
                     fatal>>
  BY DEF Call
<1>3. MutexInv'
  BY <1>1, <1>2, MoveKeepsMutex, ThreadFact DEF Critical
<1>4. TypeOK'
  BY <1>1, <1>2, ProducerMoves, LoggerAssumption DEF TypeOK, ProducerPlaces
<1> QED
  BY <1>2, <1>3, <1>4, QuietMove DEF Inv, ProducerPlaces

\* Any step of any thread, or none, keeps the invariant.
LEMMA NextInv == Inv /\ [Next]_vars => Inv'
<1> SUFFICES ASSUME Inv, [Next]_vars
             PROVE  Inv'
  OBVIOUS
<1>1. CASE UNCHANGED vars
  BY <1>1
  DEF vars, Inv, TypeOK, MutexInv, SetupInv, PrinterKnows, NoLostWakeup,
      PrinterWillLook, DiscardsWhatItPrinted
<1> QED
  BY <1>1, SetupStep, ProducerStep, CallStep, PrinterStep DEF Next

\* The invariant holds throughout.
LEMMA Invariance == Spec => []Inv
BY InitInv, NextInv, PTL DEF Spec

-----------------------------------------------------------------------------
\* Every variable keeps its type: line buffers, places of the threads, the
\* binary semaphore, fail_count of the fatal path.
THEOREM TypeCorrect == Spec => []TypeOK
<1>1. Inv => TypeOK
  BY DEF Inv
<1> QED
  BY <1>1, Invariance, PTL

\* mutex_ makes the ring, its slots and fail_count one thread's at a time,
\* and no unlock() is ever called by a thread that does not hold it.
THEOREM MutualExclusion == Spec => []MutexInv
<1>1. Inv => MutexInv
  BY DEF Inv
<1> QED
  BY <1>1, Invariance, PTL

\* A stored message is never left with the printer asleep and nobody on the
\* way to release the semaphore.
THEOREM NoWakeupIsLost == Spec => []NoLostWakeup
<1>1. Inv => NoLostWakeup
  BY DEF Inv
<1> QED
  BY <1>1, Invariance, PTL

\* discard(1) removes the message printLogMessage() was given, although
\* other threads log all the while.
THEOREM DiscardIsSafe == Spec => []DiscardsWhatItPrinted
<1>1. Inv => DiscardsWhatItPrinted
  BY DEF Inv
<1> QED
  BY <1>1, Invariance, PTL

\* A thread that terminate() stopped while it held mutex_ freezes the ring
\* and the output.
THEOREM HaltIsFinal == Spec => HaltFreezes
<1> DEFINE Frozen == \A p \in Producers :
                       pc[p] = "halted" /\ mutex = p => UNCHANGED <<ring, printed>>
<1>1. ASSUME Inv, [Next]_vars
      PROVE  Frozen
  <2> SUFFICES ASSUME NEW p \in Producers, pc[p] = "halted", mutex = p
               PROVE  UNCHANGED <<ring, printed>>
    OBVIOUS
  <2>1. setup = "ready"
    BY <1>1 DEF Inv, SetupInv
  <2>2. \A t \in Threads : pc[t] \notin Critical
    BY <1>1 DEF Inv, MutexInv, Critical
  <2>3. CASE Setup
    BY <2>1, <2>3 DEF Setup, CreateMutex, CreateSemaphore, CreateThread
  <2>4. ASSUME NEW q \in Producers, Produce(q)
        PROVE  UNCHANGED <<ring, printed>>
    <3>1. pc[q] \notin Critical
      BY <2>2, ThreadFact
    <3> QED
      BY <2>4, <3>1
      DEF Produce, Lock, Format, FormatFails, Abandon, Commit, Unlock, Release,
          DrainPrint, DrainFails, DrainDone, Take, Give, Signal, Goto, Critical
  <2>5. ASSUME NEW q \in Producers, NEW lvl \in Levels, Call(q, lvl)
        PROVE  UNCHANGED <<ring, printed>>
    BY <2>5 DEF Call
  <2>6. CASE PrintMessages
    <3>1. pc[Printer] \notin Critical
      BY <2>2, ThreadFact
    <3> QED
      BY <2>6, <3>1
      DEF PrintMessages, PrinterStart, PrinterAcquire, PrinterLock,
          PrinterCheck, PrinterPrint, PrinterFails, PrinterDiscard,
          PrinterUnlock, PrinterRelease, PrinterUnlockEmpty, Take, Give,
          Signal, Goto, Critical
  <2> QED
    BY <1>1, <2>3, <2>4, <2>5, <2>6 DEF Next, vars
<1>2. Inv /\ [Next]_vars => [Frozen]_vars
  BY <1>1
<1> QED
  BY <1>2, Invariance, PTL DEF Spec, HaltFreezes

-----------------------------------------------------------------------------
(***************************************************************************)
(* The order of the lines.                                                 *)
(***************************************************************************)

\* What has been printed and what is still owed are in the order of their
\* stamps, one after the other, some lines apart.
Line(out, owed, apart) ==
  /\ \A i, j \in DOMAIN out :
       i < j /\ {out[i], out[j]} \cap apart = {} => out[i] < out[j]
  /\ \A i, j \in DOMAIN owed :
       i < j /\ {owed[i], owed[j]} \cap apart = {} => owed[i] < owed[j]
  /\ \A i \in DOMAIN out, j \in DOMAIN owed :
       {out[i], owed[j]} \cap apart = {} => out[i] < owed[j]

\* More lines apart leave less to order.
LEMMA LineApart ==
  ASSUME NEW out, NEW owed, NEW apart, NEW more,
         Line(out, owed, apart), apart \subseteq more
  PROVE  Line(out, owed, more)
BY DEF Line

\* The oldest line owed may go.
LEMMA LineEvicted ==
  ASSUME NEW S, NEW out \in Seq(S), NEW owed \in Seq(S), NEW apart,
         Line(out, owed, apart), owed # <<>>
  PROVE  Line(out, Tail(owed), apart)
<1>1. /\ DOMAIN Tail(owed) = 1 .. Len(owed) - 1 /\ DOMAIN owed = 1 .. Len(owed)
      /\ Len(owed) \in Nat
      /\ \A i \in 1 .. Len(owed) - 1 : Tail(owed)[i] = owed[i + 1]
  BY HeadTailProperties, LenProperties
<1>2. \A i \in DOMAIN Tail(owed) : i + 1 \in DOMAIN owed /\ i \in Int
  BY <1>1
<1> QED
  BY <1>1, <1>2 DEF Line

\* A line newer than all there were may be added.
LEMMA LineAccepted ==
  ASSUME NEW S, NEW out \in Seq(S), NEW owed \in Seq(S), NEW apart, NEW m \in S,
         Line(out, owed, apart),
         \A i \in DOMAIN out : out[i] \in apart \/ out[i] < m,
         \A i \in DOMAIN owed : owed[i] \in apart \/ owed[i] < m
  PROVE  Line(out, Append(owed, m), apart)
<1> DEFINE more == Append(owed, m)
<1>1. /\ DOMAIN more = 1 .. Len(owed) + 1 /\ DOMAIN owed = 1 .. Len(owed)
      /\ Len(owed) \in Nat /\ more[Len(owed) + 1] = m
      /\ \A i \in 1 .. Len(owed) : more[i] = owed[i]
  BY AppendProperties, LenProperties
<1> HIDE DEF more
<1>2. \A i \in DOMAIN more : \/ i \in DOMAIN owed /\ more[i] = owed[i]
                             \/ i = Len(owed) + 1 /\ more[i] = m
  BY <1>1
<1>3. \A i, j \in DOMAIN more : i < j => i \in DOMAIN owed /\ more[i] = owed[i]
  BY <1>1
<1>4. \A i, j \in DOMAIN more :
        i < j /\ {more[i], more[j]} \cap apart = {} => more[i] < more[j]
  BY <1>2, <1>3 DEF Line
<1>5. \A i \in DOMAIN out, j \in DOMAIN more :
        {out[i], more[j]} \cap apart = {} => out[i] < more[j]
  BY <1>2 DEF Line
<1> QED
  BY <1>4, <1>5 DEF Line, more

\* A line apart may take the oldest one's place.
LEMMA LineDisplaced ==
  ASSUME NEW S, NEW out \in Seq(S), NEW owed \in Seq(S), NEW apart,
         NEW x \in S \cap apart, Line(out, owed, apart), owed # <<>>
  PROVE  Line(out, <<x>> \o Tail(owed), apart)
<1> DEFINE other == <<x>> \o Tail(owed)
<1>1. /\ <<x>> \in Seq(S) /\ Len(<<x>>) = 1 /\ Tail(owed) \in Seq(S)
      /\ Len(Tail(owed)) = Len(owed) - 1 /\ Len(owed) \in Nat \ {0}
      /\ DOMAIN owed = 1 .. Len(owed)
      /\ \A i \in 1 .. Len(owed) - 1 : Tail(owed)[i] = owed[i + 1]
  BY HeadTailProperties, LenProperties, EmptySeq
<1>2. /\ other \in Seq(S) /\ Len(other) = Len(owed)
      /\ \A i \in 1 .. Len(owed) :
           other[i] = IF i <= 1 THEN <<x>>[i] ELSE Tail(owed)[i - 1]
  BY <1>1, ConcatProperties
<1>3. DOMAIN other = DOMAIN owed
  BY <1>1, <1>2, LenProperties
<1> HIDE DEF other
<1>4. \A i \in DOMAIN owed : other[i] = x \/ other[i] = owed[i]
  <2> SUFFICES ASSUME NEW i \in 1 .. Len(owed)
               PROVE  other[i] = x \/ other[i] = owed[i]
    BY <1>1
  <2>1. CASE i <= 1
    BY <1>1, <1>2, <2>1
  <2>2. CASE ~(i <= 1)
    <3>1. i - 1 \in 1 .. Len(owed) - 1 /\ (i - 1) + 1 = i
      BY <1>1, <2>2
    <3> QED
      BY <1>1, <1>2, <2>2, <3>1
  <2> QED
    BY <2>1, <2>2
<1> QED
  BY <1>3, <1>4 DEF Line, other

\* The oldest line owed may be printed.
LEMMA LineEmitted ==
  ASSUME NEW S, NEW out \in Seq(S), NEW owed \in Seq(S), NEW apart,
         Line(out, owed, apart), owed # <<>>
  PROVE  Line(Append(out, Head(owed)), Tail(owed), apart)
<1> DEFINE more == Append(out, Head(owed))
           rest == Tail(owed)
<1>1. /\ DOMAIN rest = 1 .. Len(owed) - 1 /\ DOMAIN owed = 1 .. Len(owed)
      /\ Len(owed) \in Nat \ {0} /\ Head(owed) \in S /\ Head(owed) = owed[1]
      /\ \A i \in 1 .. Len(owed) - 1 : rest[i] = owed[i + 1]
  BY HeadTailProperties, LenProperties, EmptySeq
<1>2. /\ DOMAIN more = 1 .. Len(out) + 1 /\ DOMAIN out = 1 .. Len(out)
      /\ Len(out) \in Nat /\ more[Len(out) + 1] = owed[1]
      /\ \A i \in 1 .. Len(out) : more[i] = out[i]
  BY <1>1, AppendProperties, LenProperties
<1> HIDE DEF more, rest
<1>3. \A i \in DOMAIN more : \/ i \in DOMAIN out /\ more[i] = out[i]
                             \/ i = Len(out) + 1 /\ more[i] = owed[1]
  BY <1>2
<1>4. \A i, j \in DOMAIN more : i < j => i \in DOMAIN out /\ more[i] = out[i]
  BY <1>2
<1>5. \A i \in DOMAIN rest : /\ i + 1 \in DOMAIN owed /\ i \in Int /\ 1 < i + 1
                             /\ rest[i] = owed[i + 1]
  BY <1>1
<1>6. 1 \in DOMAIN owed
  BY <1>1
<1>7. \A i, j \in DOMAIN more :
        i < j /\ {more[i], more[j]} \cap apart = {} => more[i] < more[j]
  BY <1>3, <1>4, <1>6 DEF Line
<1>8. \A i, j \in DOMAIN rest :
        i < j /\ {rest[i], rest[j]} \cap apart = {} => rest[i] < rest[j]
  BY <1>5 DEF Line
<1>9. \A i \in DOMAIN more, j \in DOMAIN rest :
        {more[i], rest[j]} \cap apart = {} => more[i] < rest[j]
  BY <1>3, <1>5, <1>6 DEF Line
<1> QED
  BY <1>7, <1>8, <1>9 DEF Line, more, rest

\* The elements of a sequence.
Elements(s) == {s[k] : k \in 1 .. Len(s)}

\* All but the first element stay when the first one goes or is replaced.
LEMMA Kept ==
  ASSUME NEW S, NEW s \in Seq(S), NEW v \in S
  PROVE  /\ Elements(s) \subseteq Elements(Append(s, v))
         /\ s # <<>> => /\ Elements(s) \subseteq {Head(s)} \cup Elements(Tail(s))
                        /\ Elements(Tail(s)) \subseteq Elements(<<v>> \o Tail(s))
<1>1. Elements(s) \subseteq Elements(Append(s, v))
  <2>1. /\ Len(s) \in Nat /\ Len(Append(s, v)) = Len(s) + 1
        /\ \A i \in 1 .. Len(s) : Append(s, v)[i] = s[i]
    BY AppendProperties, LenProperties
  <2>2. \A i \in 1 .. Len(s) : i \in 1 .. Len(Append(s, v))
    BY <2>1
  <2> QED
    BY <2>1, <2>2 DEF Elements
<1>2. ASSUME s # <<>>
      PROVE  /\ Elements(s) \subseteq {Head(s)} \cup Elements(Tail(s))
             /\ Elements(Tail(s)) \subseteq Elements(<<v>> \o Tail(s))
  <2> DEFINE t == Tail(s)
  <2>1. /\ t \in Seq(S) /\ Len(t) = Len(s) - 1 /\ Len(s) \in Nat \ {0}
        /\ Head(s) = s[1] /\ <<v>> \in Seq(S) /\ Len(<<v>>) = 1
        /\ \A i \in 1 .. Len(t) : t[i] = s[i + 1]
    BY <1>2, HeadTailProperties, LenProperties, EmptySeq
  <2>2. /\ Len(<<v>> \o t) = 1 + Len(t)
        /\ \A i \in 1 .. 1 + Len(t) :
             (<<v>> \o t)[i] = IF i <= 1 THEN <<v>>[i] ELSE t[i - 1]
    BY <2>1, ConcatProperties
  <2> HIDE DEF t
  <2>3. \A i \in 1 .. Len(s) : i = 1 \/ (i - 1 \in 1 .. Len(t) /\ (i - 1) + 1 = i)
    BY <2>1
  <2>4. \A i \in 1 .. Len(t) : /\ i + 1 \in 1 .. 1 + Len(t)
                               /\ ~(i + 1 <= 1) /\ (i + 1) - 1 = i
    BY <2>1
  <2>5. Elements(s) \subseteq {Head(s)} \cup Elements(t)
    <3> SUFFICES ASSUME NEW i \in 1 .. Len(s)
                 PROVE  s[i] = Head(s) \/ s[i] \in Elements(t)
      BY DEF Elements
    <3>1. CASE i = 1
      BY <2>1, <3>1
    <3>2. CASE i - 1 \in 1 .. Len(t) /\ (i - 1) + 1 = i
      <4>1. t[i - 1] = s[i]
        BY <2>1, <3>2
      <4> QED
        BY <3>2, <4>1 DEF Elements
    <3> QED
      BY <2>3, <3>1, <3>2
  <2>6. Elements(t) \subseteq Elements(<<v>> \o t)
    <3> SUFFICES ASSUME NEW i \in 1 .. Len(t)
                 PROVE  t[i] \in Elements(<<v>> \o t)
      BY DEF Elements
    <3>1. (<<v>> \o t)[i + 1] = t[i] /\ i + 1 \in 1 .. Len(<<v>> \o t)
      BY <2>2, <2>4
    <3> QED
      BY <3>1 DEF Elements
  <2> QED
    BY <2>5, <2>6 DEF t
<1> QED
  BY <1>1, <1>2

-----------------------------------------------------------------------------
(***************************************************************************)
(* The lines of the ring, oldest first, under the methods the logger uses. *)
(***************************************************************************)

\* What a line buffer holds.
Texts == Nat \cup {Torn} \cup {Blank}

LEMMA RingLines ==
  ASSUME NEW r \in Buffer!Rings
  PROVE  /\ Buffer!Contents(r) \in Seq(Texts)
         /\ Len(Buffer!Contents(r)) = r.count
         /\ r.count \in Nat /\ r.count <= BufferCount /\ BufferCount \in Nat \ {0}
         /\ Buffer!IsEmpty(r) <=> Buffer!Contents(r) = <<>>
         /\ ~Buffer!IsEmpty(r) => Buffer!Peek(r) = Head(Buffer!Contents(r))
<1> DEFINE c == Buffer!Contents(r)
<1>1. r \in Facts!Rings /\ c = Facts!Contents(r)
  BY DEF Buffer!Rings, Facts!Rings, Buffer!Slots, Facts!Slots,
         Buffer!Contents, Facts!Contents
<1>2. c \in Seq(Texts) /\ Len(c) = r.count
  BY <1>1, BufferAssumption, Facts!ContentsFact DEF Facts!Items, Texts
<1>3. r.count \in Nat /\ r.count <= BufferCount /\ BufferCount \in Nat \ {0}
  BY BufferAssumption DEF Buffer!Rings
<1>4. Buffer!IsEmpty(r) <=> c = <<>>
  <2> HIDE DEF c
  <2> QED
    BY <1>2, EmptySeq DEF Buffer!IsEmpty
<1>5. ASSUME ~Buffer!IsEmpty(r)
      PROVE  Buffer!Peek(r) = Head(c)
  <2>1. <<Buffer!Peek(r)>> = SubSeq(c, 1, 1)
    BY <1>1, <1>5, BufferAssumption, Facts!PeekedOldest
    DEF Buffer!Peek, Facts!Peek, Buffer!IsEmpty, Facts!IsEmpty
  <2> HIDE DEF c
  <2>2. 1 \in 1 .. Len(c)
    BY <1>2, <1>3, <1>5 DEF Buffer!IsEmpty
  <2>3. Head(SubSeq(c, 1, 1)) = c[1]
    BY <1>2, <2>2, HeadTailOfSubSeq
  <2> QED
    BY <2>1, <2>3
<1> QED
  BY <1>2, <1>3, <1>4, <1>5

\* A formatter at work on nextSlot() writes over the oldest line of a full
\* ring, and over none otherwise.
LEMMA WrittenLines ==
  ASSUME NEW r \in Buffer!Rings, Buffer!Aligned(r), NEW v \in Nat \cup {Torn}
  PROVE  LET q == Buffer!NextSlotWritten(r, v)
         IN  /\ q.buffer[q.head] = v
             /\ Buffer!IsFull(q) <=> Buffer!IsFull(r)
             /\ ~Buffer!IsFull(r) => Buffer!Contents(q) = Buffer!Contents(r)
             /\ Buffer!IsFull(r) =>
                  /\ Tail(Buffer!Contents(q)) = Tail(Buffer!Contents(r))
                  /\ Buffer!Contents(q) = <<v>> \o Tail(Buffer!Contents(r))
<1> DEFINE q == Buffer!NextSlotWritten(r, v)
           c == Buffer!Contents(q)
<1>1. /\ Facts!Sound(r) /\ q = Facts!NextSlotWritten(r, v)
      /\ c = Facts!Contents(q) /\ Buffer!Contents(r) = Facts!Contents(r)
      /\ Buffer!IsFull(r) <=> Facts!IsFull(r)
  BY SoundRing
  DEF Buffer!NextSlotWritten, Facts!NextSlotWritten, Buffer!Ring, Facts!Ring,
      Buffer!Contents, Facts!Contents, Buffer!IsFull, Facts!IsFull
<1>2. /\ q \in Buffer!Rings /\ q.count = r.count
  BY WrittenRing
<1>3. /\ q.head = r.head /\ q.tail = r.tail
  BY <1>1, BufferAssumption, Facts!NextSlotWrittenFact
<1>4. /\ q.buffer[q.head] = v
      /\ ~Buffer!IsFull(r) => c = Buffer!Contents(r)
      /\ Buffer!IsFull(r) => Tail(c) = Tail(Buffer!Contents(r))
  BY <1>1, BufferAssumption, Facts!WrittenContents
<1>5. Buffer!IsFull(q) <=> Buffer!IsFull(r)
  BY <1>2 DEF Buffer!IsFull
<1>6. ASSUME Buffer!IsFull(r)
      PROVE  c = <<v>> \o Tail(c)
  <2>1. r.head = r.tail
    <3>1. /\ r.tail \in Nat /\ r.count = BufferCount
          /\ r.head = IF r.tail + r.count < BufferCount
                      THEN r.tail + r.count ELSE r.tail + r.count - BufferCount
      BY <1>1, <1>6, BufferAssumption, Facts!Places DEF Buffer!IsFull
    <3> QED
      BY <3>1, BufferAssumption
  <2>2. Buffer!Peek(q) = v
    BY <1>3, <1>4, <2>1 DEF Buffer!Peek
  <2> HIDE DEF c, q
  <2>3. c \in Seq(Texts) /\ Len(c) \in Nat \ {0} /\ Head(c) = v
    BY <1>2, <1>5, <1>6, <2>2, RingLines DEF Buffer!IsFull, Buffer!IsEmpty, c
  <2>4. 1 \in 1 .. Len(c) /\ Len(c) \in 1 .. Len(c) /\ 1 + 1 = 2 /\ c # <<>>
    BY <2>3, EmptySeq
  <2>5. SubSeq(c, 1, Len(c)) = <<c[1]>> \o SubSeq(c, 2, Len(c))
    BY <2>3, <2>4, SubSeqRecursiveFirst
  <2> QED
    BY <2>3, <2>4, <2>5, SubSeqFull, TailIsSubSeq
<1> QED
  BY <1>4, <1>5, <1>6

\* useNextSlot() stores the line in nextSlot(), in a full ring for the oldest.
LEMMA UsedLines ==
  ASSUME NEW r \in Buffer!Rings, Buffer!Aligned(r)
  PROVE  Buffer!Contents(Buffer!NextSlotUsed(r)) =
           IF Buffer!IsFull(r)
           THEN Append(Tail(Buffer!Contents(r)), r.buffer[r.head])
           ELSE Append(Buffer!Contents(r), r.buffer[r.head])
<1>1. /\ Facts!Sound(r) /\ Buffer!NextSlotUsed(r) = Facts!TakeSlot(r)
      /\ Buffer!IsFull(r) <=> Facts!IsFull(r)
  BY SoundRing
  DEF Buffer!NextSlotUsed, Buffer!TakeSlot, Facts!TakeSlot, Buffer!Ring,
      Facts!Ring, Buffer!IsFull, Facts!IsFull, Buffer!Index!Increment,
      Facts!Index!Increment, Buffer!Index!Wrap, Facts!Index!Wrap
<1>2. \A x : Buffer!Contents(x) = Facts!Contents(x)
  BY DEF Buffer!Contents, Facts!Contents
<1> QED
  BY <1>1, <1>2, BufferAssumption, Facts!TakeSlotContents

\* discard(1) takes the oldest line out.
LEMMA DiscardedLines ==
  ASSUME NEW r \in Buffer!Rings, Buffer!Aligned(r), ~Buffer!IsEmpty(r)
  PROVE  Buffer!Contents(Buffer!Discarded(r, 1)) = Tail(Buffer!Contents(r))
<1> DEFINE c == Buffer!Contents(r)
<1>1. c \in Seq(Texts) /\ Len(c) = r.count /\ r.count \in Nat \ {0} /\ c # <<>>
  BY RingLines DEF Buffer!IsEmpty
<1>2. PICK n \in 0 .. r.count : n = 1
  BY <1>1
<1>3. ~(n > r.count)
  BY <1>1, <1>2
<1>4. /\ Facts!Sound(r) /\ Buffer!Discarded(r, 1) = Facts!PoppedCopy(r, n)
  BY <1>2, <1>3, SoundRing
  DEF Buffer!Discarded, Facts!PoppedCopy, Buffer!Ring, Facts!Ring,
      Buffer!Index!AddAssign, Facts!Index!AddAssign, Buffer!Index!Wrap,
      Facts!Index!Wrap
<1>5. \A x : Buffer!Contents(x) = Facts!Contents(x)
  BY DEF Buffer!Contents, Facts!Contents
<1>6. Buffer!Contents(Buffer!Discarded(r, 1)) = SubSeq(c, n + 1, r.count)
  <2>1. Facts!Contents(Facts!PoppedCopy(r, n)) = SubSeq(Facts!Contents(r), n + 1, r.count)
    <3>1. 0 < SizeMax - BufferCount
      BY BufferAssumption
    <3>2. \A m \in 0 .. r.count :
            Facts!Contents(Facts!PoppedCopy(r, m)) = SubSeq(Facts!Contents(r), m + 1, r.count)
      BY ONLY <1>4, <3>1, BufferAssumption, Facts!TakenOut
    <3> QED BY <3>2
  <2> QED BY <1>4, <1>5, <2>1
<1>7. n + 1 = 2
  BY <1>2
<1> HIDE DEF c
<1>8. Tail(c) = SubSeq(c, n + 1, r.count)
  BY <1>1, <1>7, TailIsSubSeq
<1> QED
  BY <1>6, <1>8 DEF c

-----------------------------------------------------------------------------
(***************************************************************************)
(* The invariant of the order.                                             *)
(***************************************************************************)

\* Is the oldest line of the ring printed already, or its slot written over
\* by a message on its way to useNextSlot()?
Gone == \/ pc[Printer] = "discard"
        \/ Buffer!IsFull(ring) /\ \E p \in Producers : pc[p] = "commit"

\* The lines there are when c stamps have been drawn.
Stamped(c) == 1 .. c \cup {Torn}

\* Lines carry the stamps drawn so far, and the calls that have yet to draw
\* one stay within the bound.
StampInv ==
  /\ Buffer!Contents(ring) \in Seq(Stamped(clock))
  /\ printed \in Seq(Stamped(clock))

BoundInv == clock + Cardinality(InFlight) <= MaxMessages

\* A message on its way to useNextSlot() is the newest of all.
CommitInv ==
  \A p \in Producers : pc[p] = "commit" =>
    /\ clock \in Nat \ {0} /\ ring.buffer[ring.head] = clock
    /\ printed \in Seq(Stamped(clock - 1))
    /\ Pending \in Seq(Stamped(clock - 1))

OrderInv == Line(printed, Pending, fatal \cup {Torn})

LinesInv == Inv /\ StampInv /\ BoundInv /\ CommitInv

\* What a step is to the channel.
Transition ==
  /\ fatal \subseteq fatal'
  /\ \/ UNCHANGED <<Pending, printed>>
     \/ Channel!Evict
     \/ Channel!Emit
     \/ clock \in 1 .. MaxMessages /\ Channel!Accept(clock)
     \/ \E line \in (fatal' \cap 1 .. MaxMessages) \cup {Torn} :
          Channel!Displace(line)

\* Whatever message leaves the ring has been printed or was the oldest.
Leaves ==
  \A m \in InRing : m \notin InRing' =>
    \/ \E i \in DOMAIN printed' : printed'[i] = m
    \/ Buffer!IsFull(ring) /\ Buffer!Peek(ring) = m

\* The lines the channel owes, before and after a step.
LEMMA OwedLines ==
  /\ Pending = IF Gone THEN Tail(Buffer!Contents(ring)) ELSE Buffer!Contents(ring)
  /\ Pending' = IF Gone' THEN Tail(Buffer!Contents(ring')) ELSE Buffer!Contents(ring')
  /\ Gone' <=> \/ pc'[Printer] = "discard"
               \/ Buffer!IsFull(ring') /\ \E p \in Producers : pc'[p] = "commit"
BY DEF Pending, Gone, Buffer!Contents, Buffer!IsFull

\* The messages in the ring, before and after a step.
LEMMA RingMessages ==
  ASSUME ring \in Buffer!Rings, ring' \in Buffer!Rings
  PROVE  /\ InRing = Elements(Buffer!Contents(ring)) \ {Torn}
         /\ InRing' = Elements(Buffer!Contents(ring')) \ {Torn}
<1>1. /\ Len(Buffer!Contents(ring)) = ring.count
      /\ Len(Buffer!Contents(ring')) = ring'.count
  BY RingLines
<1>2. /\ InRing = {Buffer!Contents(ring)[k] : k \in 1 .. ring.count} \ {Torn}
      /\ InRing' = {Buffer!Contents(ring')[k] : k \in 1 .. ring'.count} \ {Torn}
  BY DEF InRing, Buffer!Contents
<1> QED
  BY <1>1, <1>2 DEF Elements

\* A stamp drawn is newer than all there were.
LEMMA NewStamp ==
  ASSUME NEW c \in Nat
  PROVE  /\ Stamped(c) \subseteq Stamped(c + 1) /\ c + 1 \in Stamped(c + 1)
         /\ Torn \in Stamped(c)
         /\ Seq(Stamped(c)) \subseteq Seq(Stamped(c + 1))
         /\ \A x \in Stamped(c) : x = Torn \/ x < c + 1
<1>1. /\ Stamped(c) \subseteq Stamped(c + 1) /\ c + 1 \in Stamped(c + 1)
      /\ Torn \in Stamped(c) /\ \A x \in Stamped(c) : x = Torn \/ x < c + 1
  BY DEF Stamped
<1> QED
  BY <1>1, SeqMonotonic

LEMMA NewForChannel ==
  ASSUME NEW c \in Nat, Pending \in Seq(Stamped(c)), printed \in Seq(Stamped(c))
  PROVE  Channel!New(c + 1)
<1>1. /\ \A i \in DOMAIN Pending : Pending[i] \in Stamped(c)
      /\ \A i \in DOMAIN printed : printed[i] \in Stamped(c)
  BY LenProperties, ElementOfSeq
<1>2. \A x \in Channel!Accepted : x \in Stamped(c)
  BY <1>1 DEF Channel!Accepted
<1> QED
  BY <1>2, NewStamp DEF Channel!New

\* A thread at work on the ring is alone there.
LEMMA Alone ==
  ASSUME Inv, NEW t \in Threads, pc[t] \in Critical
  PROVE  /\ \A u \in Threads : u # t => pc[u] \notin Critical
         /\ t \in Producers => pc[Printer] # "discard"
         /\ \A p \in Producers : p # t => pc[p] # "commit"
<1>1. \A u \in Threads : u # t => pc[u] \notin Critical
  BY Exclusive DEF Inv
<1> QED
  BY <1>1, ThreadFact DEF Critical

\* The clock stays within the bound.
LEMMA ClockBounded ==
  ASSUME NEW c \in Nat, NEW F \in SUBSET Producers,
         c + Cardinality(F) <= MaxMessages
  PROVE  c <= MaxMessages
<1>1. Cardinality(F) \in Nat
  BY LoggerAssumption, FS_Subset, FS_CardinalityType
<1> QED
  BY <1>1, LoggerAssumption

-----------------------------------------------------------------------------
\* What every step does to the lines.
Orderly == Transition /\ Leaves /\ StampInv' /\ CommitInv'

\* A step that leaves ring, output and stamps alone, and takes no thread to
\* or from the two places where the oldest line is gone.
LEMMA QuietLines ==
  ASSUME LinesInv, UNCHANGED <<ring, printed, clock, fatal>>,
         pc'[Printer] = "discard" <=> pc[Printer] = "discard",
         \A p \in Producers : pc'[p] = "commit" <=> pc[p] = "commit"
  PROVE  Orderly
<1>1. Pending' = Pending
  BY OwedLines DEF Gone
<1>2. Transition
  BY <1>1 DEF Transition
<1>3. Leaves
  BY RingMessages DEF Leaves, LinesInv, Inv, TypeOK
<1>4. StampInv'
  BY DEF LinesInv, StampInv, Stamped, Buffer!Contents
<1>5. CommitInv'
  BY <1>1 DEF LinesInv, CommitInv, Stamped
<1> QED
  BY <1>2, <1>3, <1>4, <1>5 DEF Orderly

\* A producer that moves within the quiet places.
LEMMA QuietProducer ==
  ASSUME LinesInv, NEW p \in Producers, NEW from, NEW to \in ProducerPlaces,
         Goto(p, from, to), from # "commit", to # "commit",
         UNCHANGED <<ring, printed, clock, fatal>>
  PROVE  Orderly
<1>1. /\ pc[p] = from /\ pc'[p] = to /\ pc'[Printer] = pc[Printer]
      /\ \A q \in Producers : q # p => pc'[q] = pc[q]
  BY ProducerMoves DEF LinesInv, Inv
<1> QED
  BY <1>1, QuietLines

\* The printer likewise.
LEMMA QuietPrinter ==
  ASSUME LinesInv, NEW from, NEW to \in PrinterPlaces,
         Goto(Printer, from, to), from # "discard", to # "discard",
         UNCHANGED <<ring, printed, clock, fatal>>
  PROVE  Orderly
<1>1. /\ pc[Printer] = from /\ pc'[Printer] = to
      /\ \A q \in Producers : pc'[q] = pc[q]
  BY PrinterMoves DEF LinesInv, Inv
<1> QED
  BY <1>1, QuietLines

\* Only the oldest line leaves: it has been printed, or the ring was full.
LEMMA OldestLeaves ==
  ASSUME ring \in Buffer!Rings, ring' \in Buffer!Rings,
         Elements(Buffer!Contents(ring)) \subseteq
           {Buffer!Peek(ring)} \cup Elements(Buffer!Contents(ring')),
         \/ Buffer!IsFull(ring)
         \/ \E i \in DOMAIN printed' : printed'[i] = Buffer!Peek(ring)
  PROVE  Leaves
BY RingMessages DEF Leaves

\* A formatter that fails at once draws a stamp and leaves the ring alone.
LEMMA FailedLines ==
  ASSUME LinesInv, NEW p \in Producers, FormatFails(p), ring' = ring
  PROVE  Orderly
<1> DEFINE c == Buffer!Contents(ring)
<1>1. /\ TypeOK /\ Inv /\ ring \in Buffer!Rings /\ clock \in Nat
      /\ c \in Seq(Stamped(clock)) /\ printed \in Seq(Stamped(clock))
  BY DEF LinesInv, Inv, TypeOK, StampInv
<1>2. /\ pc[p] = "format" /\ pc'[p] = "abandon" /\ pc'[Printer] = pc[Printer]
      /\ \A q \in Producers : q # p => pc'[q] = pc[q]
  BY <1>1, ProducerMoves DEF FormatFails, ProducerPlaces
<1>3. /\ pc[Printer] # "discard" /\ \A q \in Producers : pc'[q] # "commit"
      /\ \A q \in Producers : pc[q] # "commit"
  BY <1>1, <1>2, Alone, ThreadFact DEF Critical
<1>4. Pending' = Pending
  BY <1>2, <1>3, OwedLines DEF Gone
<1>5. clock' = clock + 1 /\ printed' = printed /\ fatal' = fatal
  BY DEF FormatFails
<1>6. Transition
  BY <1>4, <1>5 DEF Transition
<1>7. Leaves
  BY <1>1, RingMessages DEF Leaves
<1>8. StampInv'
  <2>1. /\ c \in Seq(Stamped(clock + 1)) /\ printed \in Seq(Stamped(clock + 1))
    BY <1>1, NewStamp
  <2> QED
    BY <1>5, <2>1 DEF StampInv, Stamped, Buffer!Contents
<1>9. CommitInv'
  BY <1>3 DEF CommitInv
<1> QED
  BY <1>6, <1>7, <1>8, <1>9 DEF Orderly

\* A formatter that writes to nextSlot(), in a full ring over the oldest line.
LEMMA FormatLines ==
  ASSUME LinesInv, TypeOK', BoundInv', NEW p \in Producers,
         NEW v \in Nat \cup {Torn}, ring' = Buffer!NextSlotWritten(ring, v),
         (Format(p) /\ v = clock + 1) \/ (FormatFails(p) /\ v = Torn)
  PROVE  Orderly
<1> DEFINE c == Buffer!Contents(ring)
           d == Buffer!Contents(ring')
<1>1. /\ TypeOK /\ Inv /\ Buffer!Aligned(ring) /\ ring \in Buffer!Rings
      /\ clock \in Nat /\ c \in Seq(Stamped(clock)) /\ printed \in Seq(Stamped(clock))
      /\ ring' \in Buffer!Rings
  BY DEF LinesInv, Inv, TypeOK, StampInv
<1>2. PICK to \in {"drain", "commit", "abandon"} :
        /\ Goto(p, "format", to)
        /\ to = "commit" => v = clock + 1
        /\ v = Torn \/ to = "commit" \/ v \in fatal'
  BY DEF Format, FormatFails
<1>3. /\ pc[p] = "format" /\ pc'[p] = to /\ pc'[Printer] = pc[Printer]
      /\ \A q \in Producers : q # p => pc'[q] = pc[q]
  BY <1>1, <1>2, ProducerMoves DEF ProducerPlaces
<1>4. /\ pc[Printer] # "discard" /\ \A q \in Producers : pc[q] # "commit"
  BY <1>1, <1>3, Alone, ThreadFact DEF Critical
<1>5. /\ clock' = clock + 1 /\ printed' = printed /\ fatal \subseteq fatal'
      /\ clock + 1 \in 1 .. MaxMessages
  <2>1. clock' = clock + 1 /\ printed' = printed /\ fatal \subseteq fatal'
    BY DEF Format, FormatFails
  <2>2. clock' <= MaxMessages
    BY <1>1, <2>1, ClockBounded DEF BoundInv, InFlight
  <2> QED
    BY <1>1, <2>1, <2>2, LoggerAssumption
<1>6. /\ ring'.buffer[ring'.head] = v
      /\ Buffer!IsFull(ring') <=> Buffer!IsFull(ring)
      /\ ~Buffer!IsFull(ring) => d = c
      /\ Buffer!IsFull(ring) => Tail(d) = Tail(c) /\ d = <<v>> \o Tail(c)
  BY <1>1, WrittenLines
<1>7. /\ Pending = c
      /\ Pending' = IF Buffer!IsFull(ring') /\ to = "commit" THEN Tail(d) ELSE d
  BY <1>3, <1>4, OwedLines DEF Gone
<1>8. /\ Buffer!IsFull(ring) => c # <<>> /\ Len(c) = BufferCount
      /\ c # <<>> => Buffer!Peek(ring) = Head(c)
  BY <1>1, RingLines DEF Buffer!IsFull, Buffer!IsEmpty
<1> HIDE DEF c, d
<1>9. v \in Stamped(clock + 1)
  BY <1>1, NewStamp
<1>10. c \in Seq(Stamped(clock + 1)) /\ printed \in Seq(Stamped(clock + 1))
  BY <1>1, NewStamp
<1>11. d \in Seq(Stamped(clock + 1))
  <2>1. CASE Buffer!IsFull(ring)
    <3>1. <<v>> \in Seq(Stamped(clock + 1)) /\ Tail(c) \in Seq(Stamped(clock + 1))
      BY <1>8, <1>9, <1>10, <2>1, HeadTailProperties
    <3> QED
      BY <1>6, <2>1, <3>1, ConcatProperties
  <2> QED
    BY <1>6, <1>10, <2>1
<1>12. StampInv'
  BY <1>5, <1>10, <1>11 DEF StampInv, Stamped, Buffer!Contents, d
<1>13. Transition
  <2>1. CASE ~Buffer!IsFull(ring)
    BY <1>5, <1>6, <1>7, <2>1 DEF Transition
  <2>2. CASE Buffer!IsFull(ring) /\ to = "commit"
    BY <1>5, <1>6, <1>7, <1>8, <2>2 DEF Transition, Channel!Evict
  <2>3. CASE Buffer!IsFull(ring) /\ to # "commit"
    <3>1. v = Torn \/ (v = clock + 1 /\ v \in fatal')
      BY <1>2, <2>3
    <3>2. v = Torn \/ Channel!New(v)
      BY <1>1, <1>7, <3>1, NewForChannel
    <3>3. Channel!Displace(v)
      BY <1>5, <1>6, <1>7, <1>8, <2>3, <3>2 DEF Channel!Displace
    <3> QED
      BY <1>5, <3>1, <3>3 DEF Transition
  <2> QED
    BY <2>1, <2>2, <2>3
<1>14. Leaves
  <2>1. CASE ~Buffer!IsFull(ring)
    BY <1>1, <1>6, <2>1, RingMessages DEF Leaves, c, d
  <2>2. CASE Buffer!IsFull(ring)
    <3>1. Elements(c) \subseteq {Buffer!Peek(ring)} \cup Elements(d)
      BY <1>6, <1>8, <1>9, <1>10, <2>2, Kept
    <3> QED
      BY <1>1, <2>2, <3>1, OldestLeaves DEF c, d
  <2> QED
    BY <2>1, <2>2
<1>15. CommitInv'
  <2> SUFFICES ASSUME to = "commit"
               PROVE  /\ clock' \in Nat \ {0} /\ ring'.buffer[ring'.head] = clock'
                      /\ printed' \in Seq(Stamped(clock' - 1))
                      /\ Pending' \in Seq(Stamped(clock' - 1))
    BY <1>3, <1>4 DEF CommitInv, Stamped
  <2>1. clock' \in Nat \ {0} /\ clock' - 1 = clock
    BY <1>1, <1>5
  <2>2. Pending' \in Seq(Stamped(clock))
    BY <1>1, <1>6, <1>7, <1>8, HeadTailProperties DEF c
  <2> QED
    BY <1>1, <1>2, <1>5, <1>6, <2>1, <2>2
<1> QED
  BY <1>12, <1>13, <1>14, <1>15 DEF Orderly

\* useNextSlot(): the newest message joins the others, and the oldest one of
\* a full ring, already written over, leaves.
LEMMA CommitLines ==
  ASSUME LinesInv, TypeOK', NEW p \in Producers, Commit(p)
  PROVE  Orderly
<1> DEFINE c == Buffer!Contents(ring)
           d == Buffer!Contents(ring')
<1>1. /\ TypeOK /\ Inv /\ Buffer!Aligned(ring) /\ ring \in Buffer!Rings
      /\ clock \in Nat /\ c \in Seq(Stamped(clock)) /\ printed \in Seq(Stamped(clock))
      /\ ring' \in Buffer!Rings /\ clock <= MaxMessages
  BY ClockBounded DEF LinesInv, Inv, TypeOK, StampInv, BoundInv, InFlight
<1>2. /\ pc[p] = "commit" /\ pc'[p] = "unlock" /\ pc'[Printer] = pc[Printer]
      /\ \A q \in Producers : q # p => pc'[q] = pc[q]
  BY <1>1, ProducerMoves DEF Commit, ProducerPlaces
<1>3. /\ pc[Printer] # "discard" /\ \A q \in Producers : pc'[q] # "commit"
  BY <1>1, <1>2, Alone, ThreadFact DEF Critical
<1>4. /\ ring' = Buffer!NextSlotUsed(ring)
      /\ clock' = clock /\ printed' = printed /\ fatal' = fatal
  BY DEF Commit
<1>5. /\ clock \in Nat \ {0} /\ ring.buffer[ring.head] = clock
      /\ printed \in Seq(Stamped(clock - 1)) /\ Pending \in Seq(Stamped(clock - 1))
  BY <1>2 DEF LinesInv, CommitInv
<1>6. d = IF Buffer!IsFull(ring) THEN Append(Tail(c), clock) ELSE Append(c, clock)
  BY <1>1, <1>4, <1>5, UsedLines
<1>7. /\ Pending = IF Buffer!IsFull(ring) THEN Tail(c) ELSE c
      /\ Pending' = d
  BY <1>2, <1>3, OwedLines DEF Gone
<1>8. /\ Buffer!IsFull(ring) => c # <<>> /\ Len(c) = BufferCount
      /\ ~Buffer!IsFull(ring) => Len(c) < BufferCount
      /\ c # <<>> => Buffer!Peek(ring) = Head(c)
      /\ BufferCount \in Nat \ {0}
  BY <1>1, RingLines DEF Buffer!IsFull, Buffer!IsEmpty
<1> HIDE DEF c, d
<1>9. clock \in Stamped(clock) /\ clock \in 1 .. MaxMessages
  BY <1>1, <1>5, LoggerAssumption DEF Stamped
<1>10. StampInv'
  <2>1. d \in Seq(Stamped(clock))
    BY <1>1, <1>6, <1>8, <1>9, HeadTailProperties, AppendProperties
  <2> QED
    BY <1>1, <1>4, <2>1 DEF StampInv, Stamped, Buffer!Contents, d
<1>11. Transition
  <2>1. Channel!New(clock)
    <3>1. PICK k \in Nat : k = clock - 1
      BY <1>5
    <3>2. k + 1 = clock
      BY <1>5, <3>1
    <3>3. Channel!New(k + 1)
      BY <1>5, <3>1, NewForChannel
    <3> QED
      BY <3>2, <3>3
  <2>2. Len(Pending) < BufferCount
    <3>1. CASE Buffer!IsFull(ring)
      <4>1. Len(Tail(c)) = Len(c) - 1
        BY <1>1, <1>8, <3>1, HeadTailProperties
      <4> QED
        BY <1>7, <1>8, <3>1, <4>1
    <3> QED
      BY <1>7, <1>8, <3>1
  <2>3. Channel!Accept(clock)
    BY <1>4, <1>6, <1>7, <2>1, <2>2 DEF Channel!Accept
  <2> QED
    BY <1>4, <1>9, <2>3 DEF Transition
<1>12. Leaves
  <2>1. CASE ~Buffer!IsFull(ring)
    <3>1. Elements(c) \subseteq Elements(d)
      BY <1>1, <1>6, <1>9, <2>1, Kept
    <3> QED
      BY <1>1, <3>1, RingMessages DEF Leaves, c, d
  <2>2. CASE Buffer!IsFull(ring)
    <3>1. /\ Elements(c) \subseteq {Buffer!Peek(ring)} \cup Elements(Tail(c))
          /\ Tail(c) \in Seq(Stamped(clock))
      BY <1>1, <1>8, <1>9, <2>2, Kept, HeadTailProperties
    <3>2. Elements(Tail(c)) \subseteq Elements(d)
      BY <1>6, <1>9, <2>2, <3>1, Kept
    <3> QED
      BY <1>1, <2>2, <3>1, <3>2, OldestLeaves DEF c, d
  <2> QED
    BY <2>1, <2>2
<1>13. CommitInv'
  BY <1>3 DEF CommitInv
<1> QED
  BY <1>10, <1>11, <1>12, <1>13 DEF Orderly

\* The oldest line is printed, and with it or later it leaves the ring.
LEMMA PrintLines ==
  ASSUME LinesInv, TypeOK', ~Gone, ~Buffer!IsEmpty(ring),
         printed' = Append(printed, Buffer!Peek(ring)),
         UNCHANGED <<clock, fatal>>, \A p \in Producers : pc'[p] # "commit",
         \/ ring' = Buffer!Discarded(ring, 1) /\ pc'[Printer] # "discard"
         \/ ring' = ring /\ pc'[Printer] = "discard"
  PROVE  Orderly
<1> DEFINE c == Buffer!Contents(ring)
           d == Buffer!Contents(ring')
<1>1. /\ TypeOK /\ Inv /\ Buffer!Aligned(ring) /\ ring \in Buffer!Rings
      /\ clock \in Nat /\ c \in Seq(Stamped(clock)) /\ printed \in Seq(Stamped(clock))
      /\ ring' \in Buffer!Rings
  BY DEF LinesInv, Inv, TypeOK, StampInv
<1>2. /\ Pending = c /\ Pending' = Tail(c)
      /\ d = c \/ d = Tail(c)
  BY <1>1, OwedLines, DiscardedLines
<1>3. c # <<>> /\ Buffer!Peek(ring) = Head(c)
  BY <1>1, RingLines
<1> HIDE DEF c, d
<1>4. /\ Head(c) \in Stamped(clock) /\ Tail(c) \in Seq(Stamped(clock))
      /\ Append(printed, Head(c)) \in Seq(Stamped(clock))
  BY <1>1, <1>3, HeadTailProperties, AppendProperties
<1>5. StampInv'
  <2>1. d \in Seq(Stamped(clock)) /\ printed' \in Seq(Stamped(clock))
    BY <1>1, <1>2, <1>3, <1>4
  <2> QED
    BY <2>1 DEF StampInv, Stamped, Buffer!Contents, d
<1>6. Transition
  BY <1>2, <1>3 DEF Transition, Channel!Emit
<1>7. Leaves
  <2>1. Elements(c) \subseteq {Buffer!Peek(ring)} \cup Elements(d)
    BY <1>1, <1>2, <1>3, <1>4, Kept
  <2>2. \E i \in DOMAIN printed' : printed'[i] = Buffer!Peek(ring)
    <3>1. /\ Len(printed') = Len(printed) + 1 /\ Len(printed) \in Nat
          /\ DOMAIN printed' = 1 .. Len(printed')
          /\ printed'[Len(printed) + 1] = Head(c)
      BY <1>1, <1>3, <1>4, AppendProperties, LenProperties
    <3>2. Len(printed) + 1 \in DOMAIN printed'
      BY <3>1
    <3> QED
      BY <1>3, <3>1, <3>2
  <2> QED
    BY <1>1, <2>1, <2>2, OldestLeaves DEF c, d
<1>8. CommitInv'
  BY DEF CommitInv
<1> QED
  BY <1>5, <1>6, <1>7, <1>8 DEF Orderly

\* The printer's discard(1) takes out the line it has printed.
LEMMA DiscardLines ==
  ASSUME LinesInv, TypeOK', PrinterDiscard
  PROVE  Orderly
<1> DEFINE c == Buffer!Contents(ring)
           d == Buffer!Contents(ring')
<1>1. /\ TypeOK /\ Inv /\ Buffer!Aligned(ring) /\ ring \in Buffer!Rings
      /\ clock \in Nat /\ c \in Seq(Stamped(clock)) /\ printed \in Seq(Stamped(clock))
      /\ ring' \in Buffer!Rings /\ DiscardsWhatItPrinted
  BY DEF LinesInv, Inv, TypeOK, StampInv
<1>2. /\ pc[Printer] = "discard" /\ pc'[Printer] = "unlock"
      /\ \A q \in Producers : pc'[q] = pc[q]
  BY <1>1, PrinterMoves DEF PrinterDiscard, PrinterPlaces
<1>3. \A p \in Producers : pc'[p] # "commit"
  BY <1>1, <1>2, Alone, ThreadFact DEF Critical
<1>4. /\ ring' = Buffer!Discarded(ring, 1)
      /\ clock' = clock /\ printed' = printed /\ fatal' = fatal
  BY DEF PrinterDiscard
<1>5. /\ ~Buffer!IsEmpty(ring)
      /\ printed # <<>> /\ printed[Len(printed)] = Buffer!Peek(ring)
  BY <1>1, <1>2 DEF DiscardsWhatItPrinted
<1>6. /\ d = Tail(c) /\ c # <<>> /\ Buffer!Peek(ring) = Head(c)
  BY <1>1, <1>4, <1>5, DiscardedLines, RingLines
<1>7. Pending = Tail(c) /\ Pending' = d
  BY <1>2, <1>3, OwedLines DEF Gone
<1> HIDE DEF c, d
<1>8. StampInv'
  <2>1. d \in Seq(Stamped(clock))
    BY <1>1, <1>6, HeadTailProperties
  <2> QED
    BY <1>1, <1>4, <2>1 DEF StampInv, Stamped, Buffer!Contents, d
<1>9. Transition
  BY <1>4, <1>6, <1>7 DEF Transition
<1>10. Leaves
  <2>1. Elements(c) \subseteq {Buffer!Peek(ring)} \cup Elements(d)
    BY <1>1, <1>6, NewStamp, Kept
  <2>2. Len(printed) \in DOMAIN printed'
    BY <1>1, <1>4, <1>5, EmptySeq, LenProperties
  <2> QED
    BY <1>1, <1>4, <1>5, <2>1, <2>2, OldestLeaves DEF c, d
<1>11. CommitInv'
  BY <1>3 DEF CommitInv
<1> QED
  BY <1>8, <1>9, <1>10, <1>11 DEF Orderly

-----------------------------------------------------------------------------
\* logInit() clears an empty ring.
LEMMA SetupLines ==
  ASSUME LinesInv, TypeOK', Setup
  PROVE  Orderly
<1>1. TypeOK /\ SetupInv /\ ring \in Buffer!Rings /\ ring' \in Buffer!Rings
  BY DEF LinesInv, Inv, TypeOK
<1>2. CASE CreateMutex
  <2>1. /\ Buffer!IsEmpty(ring) /\ ring' = Buffer!Cleared(ring)
        /\ pc[Printer] = "unborn" /\ \A p \in Producers : pc[p] = "idle"
        /\ UNCHANGED <<pc, clock, printed, fatal>>
    BY <1>1, <1>2 DEF CreateMutex, SetupInv
  <2>2. /\ Buffer!Contents(ring) = <<>> /\ Buffer!Contents(ring') = <<>>
    BY <1>1, <2>1, RingLines, EmptyRing
  <2>3. Pending = <<>> /\ Pending' = <<>>
    BY <2>1, <2>2, OwedLines DEF Gone
  <2>4. Transition /\ CommitInv'
    BY <2>1, <2>3 DEF Transition, CommitInv
  <2>5. Leaves
    BY <1>1, <2>2, RingMessages DEF Leaves
  <2>6. StampInv'
    <3>1. <<>> \in Seq(Stamped(clock)) /\ printed \in Seq(Stamped(clock))
      BY EmptySeq DEF LinesInv, StampInv
    <3> QED
      BY <2>1, <2>2, <3>1 DEF StampInv, Stamped, Buffer!Contents
  <2> QED
    BY <2>4, <2>5, <2>6 DEF Orderly
<1>3. CASE CreateSemaphore \/ (CreateThread /\ UNCHANGED pc)
  BY <1>3, QuietLines DEF CreateSemaphore, CreateThread
<1>4. CASE CreateThread /\ Goto(Printer, "unborn", "start")
  BY <1>4, QuietPrinter DEF CreateThread, PrinterPlaces
<1> QED
  BY <1>2, <1>3, <1>4 DEF Setup, CreateThread

\* Whatever a producer does in a call.
LEMMA ProducerLines ==
  ASSUME LinesInv, TypeOK', BoundInv', NEW p \in Producers, Produce(p)
  PROVE  Orderly
<1>1. TypeOK /\ Inv /\ p \in Threads /\ clock + 1 \in Nat
  BY ThreadFact DEF LinesInv, Inv, TypeOK
<1>2. CASE Lock(p)
  BY <1>2, QuietProducer DEF Lock, Take, ProducerPlaces
<1>3. CASE Format(p)
  <2>1. ring' = Buffer!NextSlotWritten(ring, clock + 1)
    BY <1>3 DEF Format
  <2> QED
    BY <1>1, <1>3, <2>1, FormatLines
<1>4. CASE FormatFails(p)
  <2>1. ring' = ring \/ ring' = Buffer!NextSlotWritten(ring, Torn)
    BY <1>4 DEF FormatFails
  <2> QED
    BY <1>4, <2>1, FailedLines, FormatLines
<1>5. CASE Abandon(p)
  <2>1. PICK to \in {"idle", "halted"} : Give(p, "abandon", to)
    BY <1>5 DEF Abandon
  <2> QED
    BY <2>1, QuietProducer DEF Give, ProducerPlaces
<1>6. CASE Commit(p)
  BY <1>6, CommitLines
<1>7. CASE Unlock(p)
  BY <1>7, QuietProducer DEF Unlock, Give, ProducerPlaces
<1>8. CASE Release(p)
  BY <1>8, QuietProducer DEF Release, Signal, ProducerPlaces
<1>9. CASE DrainPrint(p)
  <2>1. /\ pc[p] = "drain" /\ ~Buffer!IsEmpty(ring) /\ pc' = pc
        /\ printed' = Append(printed, Buffer!Peek(ring))
        /\ ring' = Buffer!Discarded(ring, 1) /\ UNCHANGED <<clock, fatal>>
    BY <1>9 DEF DrainPrint
  <2>2. pc[Printer] # "discard" /\ \A q \in Producers : pc[q] # "commit"
    BY <1>1, <2>1, Alone DEF Critical
  <2> QED
    BY <2>1, <2>2, PrintLines DEF Gone
<1>10. CASE DrainFails(p) /\ UNCHANGED pc
  BY <1>10, QuietLines DEF DrainFails
<1>11. CASE DrainFails(p) /\ Goto(p, "drain", "halted")
  BY <1>11, QuietProducer DEF DrainFails, ProducerPlaces
<1>12. CASE DrainDone(p)
  BY <1>12, QuietProducer DEF DrainDone, ProducerPlaces
<1> QED
  BY <1>2, <1>3, <1>4, <1>5, <1>6, <1>7, <1>8, <1>9, <1>10, <1>11, <1>12
  DEF Produce, DrainFails

\* Whatever the printer does.
LEMMA PrinterLines ==
  ASSUME LinesInv, TypeOK', PrintMessages
  PROVE  Orderly
<1>1. TypeOK /\ Inv /\ Printer \in Threads /\ PrinterKnows
  BY ThreadFact DEF LinesInv, Inv
<1>2. CASE PrinterPrint
  <2>1. /\ pc[Printer] = "print" /\ pc'[Printer] = "discard"
        /\ \A q \in Producers : pc'[q] = pc[q]
        /\ printed' = Append(printed, Buffer!Peek(ring))
        /\ UNCHANGED <<ring, clock, fatal>>
    BY <1>1, <1>2, PrinterMoves DEF PrinterPrint, PrinterPlaces
  <2>2. \A q \in Producers : pc[q] # "commit"
    BY <1>1, <2>1, Alone, ThreadFact DEF Critical
  <2>3. ~Buffer!IsEmpty(ring)
    BY <1>1, <2>1 DEF PrinterKnows
  <2> QED
    BY <2>1, <2>2, <2>3, PrintLines DEF Gone
<1>3. CASE PrinterCheck
  <2>1. PICK to \in {"unlockEmpty", "print"} : Goto(Printer, "check", to)
    BY <1>3 DEF PrinterCheck
  <2> QED
    BY <1>3, <2>1, QuietPrinter DEF PrinterCheck, PrinterPlaces
<1>4. CASE PrinterDiscard
  BY <1>4, DiscardLines
<1>5. CASE PrinterStart \/ PrinterRelease
  BY <1>5, QuietPrinter DEF PrinterStart, PrinterRelease, Signal, PrinterPlaces
<1>6. CASE PrinterAcquire
  BY <1>6, QuietPrinter DEF PrinterAcquire, PrinterPlaces
<1>7. CASE PrinterLock
  BY <1>7, QuietPrinter DEF PrinterLock, Take, PrinterPlaces
<1>8. CASE PrinterFails
  BY <1>8, QuietPrinter DEF PrinterFails, PrinterPlaces
<1>9. CASE PrinterUnlock \/ PrinterUnlockEmpty
  BY <1>9, QuietPrinter DEF PrinterUnlock, PrinterUnlockEmpty, Give, PrinterPlaces
<1> QED
  BY <1>2, <1>3, <1>4, <1>5, <1>6, <1>7, <1>8, <1>9 DEF PrintMessages

\* A call leaves the lines alone.
LEMMA CallLines ==
  ASSUME LinesInv, NEW p \in Producers, NEW lvl \in Levels, Call(p, lvl)
  PROVE  Orderly
BY QuietProducer DEF Call, ProducerPlaces

-----------------------------------------------------------------------------
\* Producers that stay where they are are as many to draw a stamp as before.
LEMMA SameInFlight ==
  ASSUME BoundInv, clock' = clock,
         \A p \in Producers : pc'[p] \in {"lock", "format"} <=> pc[p] \in {"lock", "format"}
  PROVE  BoundInv'
<1>1. InFlight' = InFlight
  BY DEF InFlight
<1> QED
  BY <1>1 DEF BoundInv

\* A call is one more stamp to draw, a formatter draws one.
LEMMA BoundStep ==
  ASSUME TypeOK, BoundInv, Next
  PROVE  BoundInv'
<1>1. IsFiniteSet(InFlight) /\ clock \in Nat /\ Cardinality(InFlight) \in Nat
  BY LoggerAssumption, FS_Subset, FS_CardinalityType DEF InFlight, TypeOK
<1>2. CASE Setup
  <2>1. clock' = clock /\ \A p \in Producers : pc'[p] = pc[p]
    BY <1>2, PrinterMoves
    DEF Setup, CreateMutex, CreateSemaphore, CreateThread, PrinterPlaces
  <2> QED
    BY <2>1, SameInFlight
<1>3. ASSUME NEW p \in Producers, NEW lvl \in Levels, Call(p, lvl)
      PROVE  BoundInv'
  <2>1. /\ pc[p] = "idle" /\ pc'[p] = "lock" /\ clock' = clock
        /\ \A q \in Producers : q # p => pc'[q] = pc[q]
        /\ clock + Cardinality(InFlight) < MaxMessages
    BY <1>3, ProducerMoves DEF Call, ProducerPlaces
  <2>2. InFlight' = InFlight \cup {p} /\ p \notin InFlight
    BY <2>1 DEF InFlight
  <2>3. Cardinality(InFlight') = Cardinality(InFlight) + 1
    BY <1>1, <2>2, FS_AddElement
  <2> QED
    BY <1>1, <2>1, <2>3, LoggerAssumption DEF BoundInv
<1>4. ASSUME NEW p \in Producers, Format(p) \/ FormatFails(p)
      PROVE  BoundInv'
  <2>1. PICK to \in {"drain", "commit", "abandon"} : Goto(p, "format", to)
    BY <1>4 DEF Format, FormatFails
  <2>2. /\ pc[p] = "format" /\ pc'[p] = to /\ clock' = clock + 1
        /\ \A q \in Producers : q # p => pc'[q] = pc[q]
    BY <1>4, <2>1, ProducerMoves DEF Format, FormatFails, ProducerPlaces
  <2>3. InFlight' = InFlight \ {p} /\ p \in InFlight
    BY <2>2 DEF InFlight
  <2>4. Cardinality(InFlight') = Cardinality(InFlight) - 1
    BY <1>1, <2>3, FS_RemoveElement
  <2> QED
    BY <1>1, <2>2, <2>4, LoggerAssumption DEF BoundInv
<1>5. ASSUME NEW p \in Producers, Produce(p), ~Format(p), ~FormatFails(p)
      PROVE  BoundInv'
  <2>1. /\ clock' = clock
        /\ \/ pc' = pc
           \/ Goto(p, "lock", "format")
           \/ \E from \in ProducerPlaces \ {"lock", "format"},
                 to \in ProducerPlaces \ {"lock", "format"} : Goto(p, from, to)
    BY <1>5
    DEF Produce, Lock, Take, Abandon, Give, Commit, Unlock, Release, Signal,
        DrainPrint, DrainFails, DrainDone, ProducerPlaces
  <2>2. CASE Goto(p, "lock", "format")
    BY <2>1, <2>2, ProducerMoves, SameInFlight DEF ProducerPlaces
  <2>3. ASSUME NEW from \in ProducerPlaces \ {"lock", "format"},
               NEW to \in ProducerPlaces \ {"lock", "format"}, Goto(p, from, to)
        PROVE  BoundInv'
    BY <2>1, <2>3, ProducerMoves, SameInFlight
  <2> QED
    BY <2>1, <2>2, <2>3, SameInFlight
<1>6. CASE PrintMessages
  <2>1. /\ clock' = clock
        /\ \E from \in PrinterPlaces, to \in PrinterPlaces : Goto(Printer, from, to)
    BY <1>6
    DEF PrintMessages, PrinterStart, PrinterAcquire, PrinterLock, PrinterCheck,
        PrinterPrint, PrinterFails, PrinterDiscard, PrinterUnlock,
        PrinterRelease, PrinterUnlockEmpty, Take, Give, Signal, PrinterPlaces
  <2> QED
    BY <2>1, PrinterMoves, SameInFlight
<1> QED
  BY <1>2, <1>3, <1>4, <1>5, <1>6 DEF Next

\* Every step keeps the invariant, and is orderly.
LEMMA LinesStep ==
  ASSUME LinesInv, [Next]_vars
  PROVE  LinesInv' /\ Orderly
<1>1. Inv' /\ TypeOK'
  BY NextInv DEF LinesInv, Inv
<1>2. CASE UNCHANGED vars
  <2>1. Orderly
    BY <1>2, QuietLines DEF vars
  <2>2. BoundInv'
    BY <1>2 DEF vars, LinesInv, BoundInv, InFlight
  <2> QED
    BY <1>1, <2>1, <2>2 DEF LinesInv, Orderly
<1>3. CASE Next
  <2>1. BoundInv'
    BY <1>3, BoundStep DEF LinesInv, Inv
  <2>2. Orderly
    BY <1>1, <1>3, <2>1, SetupLines, ProducerLines, CallLines, PrinterLines DEF Next
  <2> QED
    BY <1>1, <2>1, <2>2 DEF LinesInv, Orderly
<1> QED
  BY <1>2, <1>3

\* Nothing has been logged before logInit().
LEMMA InitLines == Init => LinesInv /\ OrderInv /\ Channel!Init
<1> SUFFICES ASSUME Init
             PROVE  LinesInv /\ OrderInv /\ Channel!Init
  OBVIOUS
<1>1. Inv /\ ring \in Buffer!Rings /\ Buffer!IsEmpty(ring)
  BY InitInv, EmptyRing DEF Init
<1>2. /\ Buffer!Contents(ring) = <<>> /\ printed = <<>>
      /\ \A p \in Producers : pc[p] = "idle"
  BY <1>1, RingLines, ThreadFact DEF Init
<1>3. Pending = <<>>
  BY <1>1, <1>2, OwedLines, ThreadFact DEF Gone, Init
<1>4. InFlight = {} /\ Cardinality(InFlight) = 0 /\ clock = 0
  BY <1>2, FS_EmptySet DEF InFlight, Init
<1>5. StampInv /\ BoundInv /\ CommitInv
  BY <1>2, <1>4, EmptySeq, LoggerAssumption DEF StampInv, BoundInv, CommitInv
<1>6. OrderInv /\ Channel!Init
  BY <1>2, <1>3 DEF OrderInv, Line, Channel!Init
<1> QED
  BY <1>1, <1>5, <1>6 DEF LinesInv

\* A step of the channel keeps what is printed and owed in order, if the
\* lines that take another one's place are Fatal or torn.
LEMMA OrderStep ==
  ASSUME LinesInv, OrderInv, Transition
  PROVE  OrderInv'
<1> DEFINE apart == fatal \cup {Torn}
           more == fatal' \cup {Torn}
<1>1. Pending \in Seq(Texts) /\ printed \in Seq(Texts)
  <2>1. Buffer!Contents(ring) \in Seq(Texts) /\ printed \in Seq(Texts)
    BY RingLines DEF LinesInv, Inv, TypeOK, Texts
  <2>2. Gone => Buffer!Contents(ring) # <<>>
    BY RingLines
    DEF Gone, LinesInv, Inv, TypeOK, DiscardsWhatItPrinted, Buffer!IsFull,
        Buffer!IsEmpty
  <2> QED
    BY <2>1, <2>2, OwedLines, HeadTailProperties
<1>2. Line(printed, Pending, more)
  BY LineApart DEF Transition, OrderInv
<1> SUFFICES Line(printed', Pending', more)
  BY DEF OrderInv, Line
<1> HIDE DEF more
<1>3. CASE UNCHANGED <<Pending, printed>>
  BY <1>2, <1>3
<1>4. CASE Channel!Evict
  <2>1. Pending # <<>> /\ Pending' = Tail(Pending) /\ printed' = printed
    BY <1>1, <1>4, BufferAssumption, EmptySeq DEF Channel!Evict
  <2> QED
    BY <1>1, <1>2, <2>1, LineEvicted
<1>5. CASE Channel!Emit
  BY <1>1, <1>2, <1>5, LineEmitted DEF Channel!Emit
<1>6. CASE clock \in 1 .. MaxMessages /\ Channel!Accept(clock)
  <2>1. /\ Channel!New(clock) /\ Pending' = Append(Pending, clock)
        /\ printed' = printed /\ clock \in Texts
    BY <1>6, LoggerAssumption DEF Channel!Accept, Texts
  <2>2. Torn \in more
    BY DEF more
  <2>3. /\ \A i \in DOMAIN printed : printed[i] \in more \/ printed[i] < clock
        /\ \A i \in DOMAIN Pending : Pending[i] \in more \/ Pending[i] < clock
    BY <2>1, <2>2 DEF Channel!New, Channel!Accepted
  <2> QED
    BY <1>1, <1>2, <2>1, <2>3, LineAccepted
<1>7. ASSUME NEW line \in (fatal' \cap 1 .. MaxMessages) \cup {Torn},
             Channel!Displace(line)
      PROVE  Line(printed', Pending', more)
  <2>1. line \in Texts \cap more
    BY LoggerAssumption DEF Texts, more
  <2>2. /\ Pending # <<>> /\ Pending' = <<line>> \o Tail(Pending)
        /\ printed' = printed
    BY <1>1, <1>7, BufferAssumption, EmptySeq DEF Channel!Displace
  <2> QED
    BY <1>1, <1>2, <2>1, <2>2, LineDisplaced
<1> QED
  BY <1>3, <1>4, <1>5, <1>6, <1>7 DEF Transition

LEMMA LinesInvariance == Spec => [](LinesInv /\ OrderInv)
<1>1. Init => LinesInv /\ OrderInv
  BY InitLines
<1>2. LinesInv /\ OrderInv /\ [Next]_vars => (LinesInv /\ OrderInv)'
  BY LinesStep, OrderStep DEF Orderly
<1> QED
  BY <1>1, <1>2, PTL DEF Spec

\* Whole messages are printed once each and in the order of their stamps,
\* those of Fatal calls apart.
THEOREM OutputIsOrdered == Spec => []PrintedInOrder
<1>1. OrderInv => PrintedInOrder
  BY DEF OrderInv, Line, PrintedInOrder
<1> QED
  BY <1>1, LinesInvariance, PTL

\* A stored message leaves the ring because it has been printed, or as the
\* oldest of a full ring.
THEOREM OnlyTheOldestIsLost == Spec => LeavesPrintedOrOldest
<1>1. LinesInv /\ [Next]_vars => [Leaves]_vars
  BY LinesStep DEF Orderly
<1> QED
  BY <1>1, LinesInvariance, PTL DEF Spec, LeavesPrintedOrOldest, Leaves

\* The logger is a bounded channel that prints in order and loses only its
\* oldest line, to a newer one or to what a call that did not succeed left in
\* its slot: each step of a thread is a step of the channel, or none.
THEOREM LoggerIsChannel == Spec => RefinesChannel
<1>1. LinesInv /\ [Next]_vars => [Channel!Next]_(Channel!vars)
  <2> SUFFICES ASSUME LinesInv, [Next]_vars
               PROVE  [Channel!Next]_(Channel!vars)
    OBVIOUS
  <2>1. Transition
    BY LinesStep DEF Orderly
  <2> QED
    BY <2>1 DEF Transition, Channel!Next, Channel!vars
<1>2. Init => Channel!Init
  BY InitLines
<1> QED
  BY <1>1, <1>2, LinesInvariance, PTL DEF Spec, RefinesChannel, Channel!Spec
=============================================================================
