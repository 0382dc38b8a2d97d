--------------------------- MODULE SysQueueProofs ---------------------------
(***************************************************************************)
(* For any number of tasks and an interrupt, any length of the queue and   *)
(* any largest count of the semaphore: what a push answers is what happens *)
(* to its message, messages come out once and in order, no caller is shown *)
(* an older message than before, and permits are accounted for.            *)
(***************************************************************************)
EXTENDS SysQueue, SequenceTheorems, TLAPS

\* What a task that waits has asked for.
Waiting ==
  [op : {"push"}, msg : Nat, timeout : {"finite", "forever"}]
    \cup [op : {"pop", "peek", "acquire"}, timeout : {"finite", "forever"}]

\* Every push that waits has a message of its own.
CallsInv ==
  /\ call \in [Tasks -> {Idle} \cup Waiting]
  /\ \A t \in Tasks : call[t].op = "push" => call[t].msg \in Messages
  /\ \A t, u \in Tasks :
       call[t].op = "push" /\ call[u].op = "push" /\ call[t].msg = call[u].msg => t = u

\* How many of the messages acc have left the queue it.
Gone(it, acc) == Len(acc) - Len(it)

\* How many of them can have been shown: one more if there is a first one.
Shown(it, acc) == Gone(it, acc) + IF it = <<>> THEN 0 ELSE 1

\* The queue is the end of what was accepted.
IsEnd(it, acc) ==
  /\ Len(it) <= Len(acc)
  /\ \A i \in 1 .. Len(it) : it[i] = acc[Gone(it, acc) + i]

\* Every message that has left the queue is either dropped or delivered.
Settled(it, acc, del, drop) ==
  /\ \A m \in drop : \E k \in 1 .. Gone(it, acc) : acc[k] = m
  /\ \A i \in 1 .. Len(del) :
       del[i] \notin drop /\ \E k \in 1 .. Gone(it, acc) : acc[k] = del[i]
  /\ \A k \in 1 .. Gone(it, acc) :
       acc[k] \in drop \/ \E i \in 1 .. Len(del) : del[i] = acc[k]

\* The messages del are in the order of acc.
InOrder(acc, del) ==
  \A i, j \in 1 .. Len(del), k, l \in 1 .. Len(acc) :
    i < j /\ del[i] = acc[k] /\ del[j] = acc[l] => k < l

\* Nobody has seen a message beyond the first in the queue.
SeenSoFar(it, acc, sn) ==
  \A c \in Callers : sn[c] = NoMessage \/ \E k \in 1 .. Shown(it, acc) : acc[k] = sn[c]

Types(it, acc, del, drop, sn) ==
  /\ it \in Seq(Nat) /\ acc \in Seq(Nat \ {NoMessage}) /\ del \in Seq(Nat)
  /\ drop \subseteq Nat /\ sn \in [Callers -> Nat]

Order(it, acc, del, drop, sn) ==
  /\ Types(it, acc, del, drop, sn)
  /\ IsInjective(acc)
  /\ IsEnd(it, acc)
  /\ Settled(it, acc, del, drop)
  /\ InOrder(acc, del)
  /\ SeenSoFar(it, acc, sn)

AcceptedInv == ToSet(accepted) = {m \in Messages : answer[m] = "Success"}

Codes == {"pending", "Success", "Full"}

\* What the steps say of the queue and of its pushes.
DataInv ==
  /\ length \in Lengths /\ Len(items) <= length
  /\ answer \in Seq(Codes)
  /\ Order(items, accepted, delivered, dropped, seen)
  /\ AcceptedInv

PendingInv ==
  \A m \in Messages : answer[m] = "pending" <=>
    \E t \in Tasks : call[t].op = "push" /\ call[t].msg = m

SemaphoreInv ==
  /\ count \in 0 .. LeastMaxValue
  /\ released \in 0 .. MaxReleases /\ acquired \in Nat
  /\ PermitsAccounted

IInv == DataInv /\ CallsInv /\ PendingInv /\ SemaphoreInv

-----------------------------------------------------------------------------
(* Messages in the queue, and what becomes of them.                        *)

\* The place of a message is where it stands among the accepted ones, also
\* when more have been accepted.
LEMMA PlaceIs ==
  ASSUME NEW acc \in Seq(Nat \ {NoMessage}), IsInjective(acc), NEW k \in 1 .. Len(acc)
  PROVE  (CHOOSE i \in DOMAIN acc : acc[i] = acc[k]) = k
BY DEF IsInjective

LEMMA Ranges ==
  ASSUME NEW it, NEW acc, NEW del, NEW drop, NEW sn,
         Types(it, acc, del, drop, sn), IsEnd(it, acc)
  PROVE  /\ Gone(it, acc) \in 0 .. Len(acc)
         /\ Gone(it, acc) + Len(it) = Len(acc)
         /\ Len(it) \in Nat /\ Len(acc) \in Nat /\ Len(del) \in Nat
         /\ (it = <<>>) <=> (Len(it) = 0)
         /\ DOMAIN acc = 1 .. Len(acc) /\ DOMAIN it = 1 .. Len(it)
         /\ DOMAIN del = 1 .. Len(del)
         /\ Shown(it, acc) \in 0 .. Len(acc)
BY EmptySeq DEF Types, IsEnd, Gone, Shown

\* A queue that was just created.
LEMMA OrderInit == Order(<<>>, <<>>, <<>>, {}, [c \in Callers |-> NoMessage])
BY DEF Order, Types, IsEnd, Settled, InOrder, SeenSoFar, Gone, Shown, IsInjective,
       NoMessage

\* A message that was not accepted before goes in at the back.
LEMMA OrderAdd ==
  ASSUME NEW it, NEW acc, NEW del, NEW drop, NEW sn,
         Order(it, acc, del, drop, sn),
         NEW m \in Nat \ {NoMessage}, \A k \in 1 .. Len(acc) : acc[k] # m
  PROVE  Order(Append(it, m), Append(acc, m), del, drop, sn)
<1> DEFINE it1 == Append(it, m)
           acc1 == Append(acc, m)
<1>0. /\ Types(it, acc, del, drop, sn) /\ IsInjective(acc) /\ IsEnd(it, acc)
      /\ Settled(it, acc, del, drop) /\ InOrder(acc, del) /\ SeenSoFar(it, acc, sn)
  BY DEF Order
<1>1. /\ it1 \in Seq(Nat) /\ Len(it1) = Len(it) + 1 /\ it1 # <<>>
      /\ \A i \in 1 .. Len(it) : it1[i] = it[i]
      /\ it1[Len(it) + 1] = m
  <2>1. it \in Seq(Nat) /\ m \in Nat
    BY <1>0 DEF Types
  <2> QED
    BY <2>1, AppendProperties
<1>2. /\ acc1 \in Seq(Nat \ {NoMessage}) /\ Len(acc1) = Len(acc) + 1
      /\ \A i \in 1 .. Len(acc) : acc1[i] = acc[i]
      /\ acc1[Len(acc) + 1] = m
      /\ DOMAIN acc1 = 1 .. Len(acc) + 1
  <2>1. acc \in Seq(Nat \ {NoMessage})
    BY <1>0 DEF Types
  <2> QED
    BY <2>1, AppendProperties, LenProperties
<1> HIDE DEF it1, acc1
<1>3. /\ Gone(it, acc) \in 0 .. Len(acc) /\ Gone(it, acc) + Len(it) = Len(acc)
      /\ Len(it) \in Nat /\ Len(acc) \in Nat /\ Len(del) \in Nat
      /\ (it = <<>>) <=> (Len(it) = 0)
      /\ DOMAIN acc = 1 .. Len(acc)
      /\ Shown(it, acc) \in 0 .. Len(acc)
  BY <1>0, Ranges
<1>4. Gone(it1, acc1) = Gone(it, acc) /\ Shown(it1, acc1) = Gone(it, acc) + 1
  BY <1>1, <1>2, <1>3 DEF Gone, Shown
<1>5. IsInjective(acc1)
  BY <1>0, <1>2, <1>3 DEF IsInjective
<1>6. IsEnd(it1, acc1)
  <2> SUFFICES ASSUME NEW i \in 1 .. Len(it) + 1
               PROVE  it1[i] = acc1[Gone(it, acc) + i]
    BY <1>0, <1>1, <1>2, <1>3, <1>4 DEF IsEnd
  <2>1. CASE i \in 1 .. Len(it)
    <3>1. it[i] = acc[Gone(it, acc) + i]
      BY <1>0, <2>1 DEF IsEnd
    <3>2. Gone(it, acc) + i \in 1 .. Len(acc)
      BY <1>3, <2>1
    <3> QED
      BY <3>1, <3>2, <1>1, <1>2, <2>1
  <2>2. CASE i = Len(it) + 1
    BY <2>2, <1>1, <1>2, <1>3
  <2> QED
    BY <2>1, <2>2, <1>3
<1>7. Settled(it1, acc1, del, drop)
  <2>1. \A k \in 1 .. Gone(it, acc) : acc1[k] = acc[k]
    BY <1>2, <1>3
  <2> QED
    BY <1>0, <2>1, <1>4 DEF Settled
<1>8. InOrder(acc1, del)
  <2> SUFFICES ASSUME NEW i \in 1 .. Len(del), NEW j \in 1 .. Len(del),
                      NEW k \in 1 .. Len(acc1), NEW l \in 1 .. Len(acc1),
                      i < j, del[i] = acc1[k], del[j] = acc1[l]
               PROVE  k < l
    BY DEF InOrder
  <2>1. \A x \in 1 .. Len(del) : del[x] # m
    <3> SUFFICES ASSUME NEW x \in 1 .. Len(del), del[x] = m
                 PROVE  FALSE
      OBVIOUS
    <3>1. PICK y \in 1 .. Gone(it, acc) : acc[y] = del[x]
      BY <1>0 DEF Settled
    <3> QED
      BY <3>1, <1>3
  <2>2. k \in 1 .. Len(acc) /\ l \in 1 .. Len(acc)
    BY <2>1, <1>2, <1>3
  <2>3. del[i] = acc[k] /\ del[j] = acc[l]
    BY <2>2, <1>2
  <2> QED
    BY <1>0, <2>2, <2>3 DEF InOrder
<1>9. SeenSoFar(it1, acc1, sn)
  <2> SUFFICES ASSUME NEW c \in Callers, sn[c] # NoMessage
               PROVE  \E k \in 1 .. Shown(it1, acc1) : acc1[k] = sn[c]
    BY DEF SeenSoFar
  <2>1. PICK k \in 1 .. Shown(it, acc) : acc[k] = sn[c]
    BY <1>0 DEF SeenSoFar
  <2>2. k \in 1 .. Len(acc) /\ k \in 1 .. Shown(it1, acc1)
    BY <1>3, <1>4 DEF Shown
  <2> QED
    BY <2>1, <2>2, <1>2
<1>10. Types(it1, acc1, del, drop, sn)
  BY <1>0, <1>1, <1>2 DEF Types
<1> QED
  BY <1>5, <1>6, <1>7, <1>8, <1>9, <1>10 DEF Order, it1, acc1

\* The first message in the queue, and the queue without it.
LEMMA FirstItem ==
  ASSUME NEW it, NEW acc, NEW del, NEW drop, NEW sn,
         Types(it, acc, del, drop, sn), IsEnd(it, acc), it # <<>>
  PROVE  /\ Gone(it, acc) \in Nat /\ Gone(it, acc) + 1 \in 1 .. Len(acc)
         /\ Head(it) = acc[Gone(it, acc) + 1]
         /\ Shown(it, acc) = Gone(it, acc) + 1
         /\ Head(it) \in Nat /\ Tail(it) \in Seq(Nat)
         /\ IsEnd(Tail(it), acc)
         /\ Gone(Tail(it), acc) = Gone(it, acc) + 1
         /\ Shown(Tail(it), acc) >= Gone(it, acc) + 1
<1>1. /\ Gone(it, acc) \in 0 .. Len(acc) /\ Gone(it, acc) + Len(it) = Len(acc)
      /\ Len(it) \in Nat /\ Len(acc) \in Nat
      /\ (it = <<>>) <=> (Len(it) = 0)
  BY Ranges
<1>2. it \in Seq(Nat)
  BY DEF Types
<1>3. Head(it) = it[1] /\ Head(it) \in Nat
  BY <1>2
<1>4. 1 \in 1 .. Len(it)
  BY <1>1
<1>5. /\ Tail(it) \in Seq(Nat) /\ Len(Tail(it)) = Len(it) - 1
      /\ \A i \in 1 .. Len(Tail(it)) : Tail(it)[i] = it[i + 1]
  BY <1>2, HeadTailProperties
<1>6. Gone(Tail(it), acc) = Gone(it, acc) + 1
  BY <1>1, <1>5 DEF Gone
<1>7. IsEnd(Tail(it), acc)
  <2> SUFFICES ASSUME NEW i \in 1 .. Len(it) - 1
               PROVE  Tail(it)[i] = acc[Gone(it, acc) + 1 + i]
    BY <1>1, <1>5, <1>6 DEF IsEnd
  <2>1. i + 1 \in 1 .. Len(it) /\ Tail(it)[i] = it[i + 1]
    BY <1>1, <1>5
  <2>2. it[i + 1] = acc[Gone(it, acc) + (i + 1)]
    BY <2>1 DEF IsEnd
  <2>3. Gone(it, acc) + (i + 1) = Gone(it, acc) + 1 + i
    BY <1>1
  <2> QED
    BY <2>1, <2>2, <2>3
<1>8. it[1] = acc[Gone(it, acc) + 1]
  BY <1>4 DEF IsEnd
<1> QED
  BY <1>1, <1>3, <1>5, <1>6, <1>7, <1>8 DEF Shown

\* What was seen so far stays so when more can have been shown.
LEMMA SeenMore ==
  ASSUME NEW it, NEW it1, NEW acc, NEW sn, SeenSoFar(it, acc, sn),
         Shown(it, acc) \in Nat, Shown(it1, acc) \in Nat, Shown(it, acc) <= Shown(it1, acc)
  PROVE  /\ SeenSoFar(it1, acc, sn)
         /\ \A c \in Callers, k \in 1 .. Shown(it1, acc) :
              sn \in [Callers -> Nat] => SeenSoFar(it1, acc, [sn EXCEPT ![c] = acc[k]])
BY DEF SeenSoFar

\* Messages in the queue are not the ones that have left it.
LEMMA NotGone ==
  ASSUME NEW it, NEW acc, NEW del, NEW drop, NEW sn, Order(it, acc, del, drop, sn),
         NEW k \in Gone(it, acc) + 1 .. Len(acc)
  PROVE  acc[k] \notin drop /\ \A i \in 1 .. Len(del) : del[i] # acc[k]
<1>1. /\ Gone(it, acc) \in 0 .. Len(acc) /\ Len(acc) \in Nat
      /\ DOMAIN acc = 1 .. Len(acc)
  BY Ranges DEF Order
<1>2. \A l \in 1 .. Gone(it, acc) : acc[l] # acc[k]
  BY <1>1 DEF Order, IsInjective
<1> QED
  BY <1>2 DEF Order, Settled

\* peek() shows the first message to a caller.
LEMMA OrderPeek ==
  ASSUME NEW it, NEW acc, NEW del, NEW drop, NEW sn, Order(it, acc, del, drop, sn),
         it # <<>>, NEW c \in Callers
  PROVE  Order(it, acc, del, drop, [sn EXCEPT ![c] = Head(it)])
<1>1. Types(it, acc, del, drop, sn) /\ IsEnd(it, acc) /\ SeenSoFar(it, acc, sn)
  BY DEF Order
<1>2. /\ Head(it) = acc[Gone(it, acc) + 1] /\ Head(it) \in Nat
      /\ Gone(it, acc) \in Nat /\ Shown(it, acc) = Gone(it, acc) + 1
  BY <1>1, FirstItem
<1>3. SeenSoFar(it, acc, [sn EXCEPT ![c] = Head(it)])
  BY <1>1, <1>2 DEF SeenSoFar, Types
<1>4. Types(it, acc, del, drop, [sn EXCEPT ![c] = Head(it)])
  BY <1>1, <1>2 DEF Types
<1> QED
  BY <1>3, <1>4 DEF Order

\* pop() hands out the first message.
LEMMA OrderPop ==
  ASSUME NEW it, NEW acc, NEW del, NEW drop, NEW sn, Order(it, acc, del, drop, sn),
         it # <<>>, NEW c \in Callers
  PROVE  Order(Tail(it), acc, Append(del, Head(it)), drop, [sn EXCEPT ![c] = Head(it)])
<1> DEFINE g == Gone(it, acc)
           it1 == Tail(it)
           del1 == Append(del, Head(it))
<1>1. /\ Types(it, acc, del, drop, sn) /\ IsEnd(it, acc) /\ SeenSoFar(it, acc, sn)
      /\ Settled(it, acc, del, drop) /\ InOrder(acc, del) /\ IsInjective(acc)
  BY DEF Order
<1>2. /\ Head(it) = acc[g + 1] /\ Head(it) \in Nat
      /\ g \in Nat /\ g + 1 \in 1 .. Len(acc)
      /\ Shown(it, acc) = g + 1 /\ Shown(it1, acc) >= g + 1
      /\ it1 \in Seq(Nat) /\ IsEnd(it1, acc) /\ Gone(it1, acc) = g + 1
  BY <1>1, FirstItem
<1>3. Len(acc) \in Nat /\ Len(del) \in Nat /\ DOMAIN acc = 1 .. Len(acc)
  BY <1>1, Ranges
<1>4. /\ del1 \in Seq(Nat) /\ Len(del1) = Len(del) + 1
      /\ \A i \in 1 .. Len(del) : del1[i] = del[i]
      /\ del1[Len(del) + 1] = acc[g + 1]
  BY <1>1, <1>2, AppendProperties DEF Types
<1>5. acc[g + 1] \notin drop /\ \A i \in 1 .. Len(del) : del[i] # acc[g + 1]
  BY <1>2, <1>3, NotGone
<1>6. Types(it1, acc, del1, drop, [sn EXCEPT ![c] = Head(it)])
  BY <1>1, <1>2, <1>4 DEF Types
<1> HIDE DEF it1, del1, g
<1>7. Settled(it1, acc, del1, drop)
  <2>1. \A m \in drop : \E k \in 1 .. g + 1 : acc[k] = m
    BY <1>1, <1>2 DEF Settled, g
  <2>2. ASSUME NEW i \in 1 .. Len(del1)
        PROVE  del1[i] \notin drop /\ \E k \in 1 .. g + 1 : acc[k] = del1[i]
    <3>1. CASE i \in 1 .. Len(del)
      <4>1. PICK k \in 1 .. g : acc[k] = del[i]
        BY <3>1, <1>1 DEF Settled, g
      <4>2. del[i] \notin drop /\ del1[i] = del[i]
        BY <3>1, <1>1, <1>4 DEF Settled
      <4>3. k \in 1 .. g + 1
        BY <1>2
      <4> QED
        BY <4>1, <4>2, <4>3
    <3>2. CASE i = Len(del) + 1
      BY <3>2, <1>2, <1>4, <1>5
    <3> QED
      BY <3>1, <3>2, <1>3, <1>4
  <2>3. ASSUME NEW k \in 1 .. g + 1
        PROVE  acc[k] \in drop \/ \E i \in 1 .. Len(del1) : del1[i] = acc[k]
    <3>1. CASE k \in 1 .. g
      <4>1. acc[k] \in drop \/ \E i \in 1 .. Len(del) : del[i] = acc[k]
        BY <3>1, <1>1 DEF Settled, g
      <4> QED
        BY <4>1, <1>3, <1>4
    <3>2. CASE k = g + 1
      BY <3>2, <1>3, <1>4
    <3> QED
      BY <3>1, <3>2, <1>2
  <2> QED
    BY <2>1, <2>2, <2>3, <1>2 DEF Settled
<1>8. InOrder(acc, del1)
  <2> SUFFICES ASSUME NEW i \in 1 .. Len(del1), NEW j \in 1 .. Len(del1),
                      NEW k \in 1 .. Len(acc), NEW l \in 1 .. Len(acc),
                      i < j, del1[i] = acc[k], del1[j] = acc[l]
               PROVE  k < l
    BY DEF InOrder
  <2>1. i \in 1 .. Len(del) /\ del[i] = acc[k]
    BY <1>3, <1>4
  <2>2. CASE j \in 1 .. Len(del)
    BY <2>1, <2>2, <1>1, <1>4 DEF InOrder
  <2>3. CASE j = Len(del) + 1
    <3>1. l = g + 1
      <4>1. acc[l] = acc[g + 1]
        BY <2>3, <1>4
      <4> QED
        BY <4>1, <1>1, <1>2, <1>3 DEF IsInjective
    <3>2. PICK x \in 1 .. g : acc[x] = del[i]
      BY <2>1, <1>1 DEF Settled, g
    <3>3. k = x
      <4>1. acc[k] = acc[x] /\ x \in 1 .. Len(acc)
        BY <2>1, <3>2, <1>2, <1>3
      <4> QED
        BY <4>1, <1>1, <1>3 DEF IsInjective
    <3> QED
      BY <3>1, <3>2, <3>3, <1>2
  <2> QED
    BY <2>2, <2>3, <1>3, <1>4
<1>9. SeenSoFar(it1, acc, [sn EXCEPT ![c] = Head(it)])
  <2>1. Shown(it, acc) \in Nat /\ Shown(it1, acc) \in Nat
    <3>1. Types(it1, acc, del, drop, sn)
      BY <1>1, <1>2 DEF Types
    <3> QED
      BY <3>1, <1>1, <1>2, <1>3, Ranges
  <2>2. g + 1 \in 1 .. Shown(it1, acc) /\ sn \in [Callers -> Nat]
    BY <2>1, <1>1, <1>2 DEF Types
  <2> QED
    BY <2>1, <2>2, <1>1, <1>2, SeenMore
<1> QED
  BY <1>1, <1>2, <1>6, <1>7, <1>8, <1>9 DEF Order, it1, del1

\* pop() without an argument discards it.
LEMMA OrderDiscard ==
  ASSUME NEW it, NEW acc, NEW del, NEW drop, NEW sn, Order(it, acc, del, drop, sn),
         it # <<>>
  PROVE  Order(Tail(it), acc, del, drop \cup {Head(it)}, sn)
<1> DEFINE g == Gone(it, acc)
           it1 == Tail(it)
<1>1. /\ Types(it, acc, del, drop, sn) /\ IsEnd(it, acc) /\ SeenSoFar(it, acc, sn)
      /\ Settled(it, acc, del, drop) /\ InOrder(acc, del) /\ IsInjective(acc)
  BY DEF Order
<1>2. /\ Head(it) = acc[g + 1] /\ Head(it) \in Nat
      /\ g \in Nat /\ g + 1 \in 1 .. Len(acc)
      /\ Shown(it, acc) = g + 1 /\ Shown(it1, acc) >= g + 1
      /\ it1 \in Seq(Nat) /\ IsEnd(it1, acc) /\ Gone(it1, acc) = g + 1
  BY <1>1, FirstItem
<1>3. Len(acc) \in Nat /\ Len(del) \in Nat /\ DOMAIN acc = 1 .. Len(acc)
  BY <1>1, Ranges
<1>4. acc[g + 1] \notin drop /\ \A i \in 1 .. Len(del) : del[i] # acc[g + 1]
  BY <1>2, <1>3, NotGone
<1>5. Types(it1, acc, del, drop \cup {Head(it)}, sn)
  BY <1>1, <1>2 DEF Types
<1>6. SeenSoFar(it1, acc, sn)
  <2>1. Shown(it, acc) \in Nat /\ Shown(it1, acc) \in Nat
    BY <1>1, <1>5, <1>2, Ranges
  <2> QED
    BY <2>1, <1>1, <1>2, SeenMore
<1>7. Settled(it1, acc, del, drop \cup {Head(it)})
  <2> HIDE DEF it1, g
  <2>1. \A m \in drop \cup {Head(it)} : \E k \in 1 .. g + 1 : acc[k] = m
    <3>1. \A m \in drop : \E k \in 1 .. g : acc[k] = m
      BY <1>1 DEF Settled, g
    <3>2. g + 1 \in 1 .. g + 1 /\ \A k \in 1 .. g : k \in 1 .. g + 1
      BY <1>2
    <3> QED
      BY <3>1, <3>2, <1>2
  <2>2. \A i \in 1 .. Len(del) : /\ del[i] \notin drop \cup {Head(it)}
                                 /\ \E k \in 1 .. g + 1 : acc[k] = del[i]
    BY <1>1, <1>2, <1>4 DEF Settled, g
  <2>3. \A k \in 1 .. g + 1 :
          acc[k] \in drop \cup {Head(it)} \/ \E i \in 1 .. Len(del) : del[i] = acc[k]
    <3>1. \A k \in 1 .. g : acc[k] \in drop \/ \E i \in 1 .. Len(del) : del[i] = acc[k]
      BY <1>1 DEF Settled, g
    <3>2. \A k \in 1 .. g + 1 : k \in 1 .. g \/ k = g + 1
      BY <1>2
    <3> QED
      BY <3>1, <3>2, <1>2
  <2> QED
    BY <2>1, <2>2, <2>3, <1>2 DEF Settled
<1> QED
  BY <1>1, <1>2, <1>5, <1>6, <1>7 DEF Order

\* clear() drops whatever is in the queue.
LEMMA OrderClear ==
  ASSUME NEW it, NEW acc, NEW del, NEW drop, NEW sn, Order(it, acc, del, drop, sn)
  PROVE  Order(<<>>, acc, del, drop \cup ToSet(it), sn)
<1> DEFINE g == Gone(it, acc)
<1>1. /\ Types(it, acc, del, drop, sn) /\ IsEnd(it, acc) /\ SeenSoFar(it, acc, sn)
      /\ Settled(it, acc, del, drop) /\ InOrder(acc, del) /\ IsInjective(acc)
  BY DEF Order
<1>2. /\ g \in 0 .. Len(acc) /\ g + Len(it) = Len(acc)
      /\ Len(it) \in Nat /\ Len(acc) \in Nat /\ Len(del) \in Nat
      /\ DOMAIN acc = 1 .. Len(acc) /\ DOMAIN it = 1 .. Len(it)
      /\ Shown(it, acc) \in 0 .. Len(acc)
  BY <1>1, Ranges
<1>3. Gone(<<>>, acc) = Len(acc) /\ Shown(<<>>, acc) = Len(acc)
  BY <1>2 DEF Gone, Shown
<1>4. ToSet(it) = {acc[k] : k \in g + 1 .. Len(acc)}
  <2>1. \A i \in 1 .. Len(it) : g + i \in g + 1 .. Len(acc) /\ it[i] = acc[g + i]
    BY <1>1, <1>2 DEF IsEnd
  <2>2. \A k \in g + 1 .. Len(acc) : k - g \in 1 .. Len(it) /\ it[k - g] = acc[k]
    <3> SUFFICES ASSUME NEW k \in g + 1 .. Len(acc)
                 PROVE  k - g \in 1 .. Len(it) /\ it[k - g] = acc[k]
      OBVIOUS
    <3>1. k - g \in 1 .. Len(it) /\ g + (k - g) = k
      BY <1>2
    <3> QED
      BY <2>1, <3>1
  <2>3. ASSUME NEW y \in ToSet(it)
        PROVE  \E k \in g + 1 .. Len(acc) : acc[k] = y
    <3>1. PICK i \in 1 .. Len(it) : it[i] = y
      BY <1>2 DEF ToSet
    <3> QED
      BY <3>1, <2>1
  <2>4. ASSUME NEW k \in g + 1 .. Len(acc)
        PROVE  acc[k] \in ToSet(it)
    <3>1. k - g \in DOMAIN it /\ it[k - g] = acc[k]
      BY <2>2, <1>2
    <3> HIDE DEF g
    <3> QED
      BY <3>1 DEF ToSet
  <2> HIDE DEF g
  <2> QED
    BY <2>3, <2>4
<1>5. \A k \in g + 1 .. Len(acc) :
        acc[k] \notin drop /\ \A i \in 1 .. Len(del) : del[i] # acc[k]
  BY NotGone
<1>6. Types(<<>>, acc, del, drop \cup ToSet(it), sn)
  <2>1. \A k \in g + 1 .. Len(acc) : k \in 1 .. Len(acc)
    BY <1>2
  <2>2. \A k \in 1 .. Len(acc) : acc[k] \in Nat
    BY <1>1 DEF Types
  <2>3. ToSet(it) \subseteq Nat
    BY <2>1, <2>2, <1>4
  <2>4. <<>> \in Seq(Nat)
    BY EmptySeq
  <2> QED
    BY <2>3, <2>4, <1>1 DEF Types
<1>7. SeenSoFar(<<>>, acc, sn)
  BY <1>1, <1>2, <1>3, SeenMore
<1>8. IsEnd(<<>>, acc)
  BY <1>2 DEF IsEnd
<1>9. Settled(<<>>, acc, del, drop \cup ToSet(it))
  <2> HIDE DEF g
  <2>1. \A k \in 1 .. Len(acc) : k \in 1 .. g \/ k \in g + 1 .. Len(acc)
    BY <1>2
  <2>2. \A k \in 1 .. g : k \in 1 .. Len(acc)
    BY <1>2
  <2>3. \A k \in g + 1 .. Len(acc) : k \in 1 .. Len(acc)
    BY <1>2
  <2>4. \A m \in drop \cup ToSet(it) : \E k \in 1 .. Len(acc) : acc[k] = m
    BY <1>1, <1>4, <2>2, <2>3 DEF Settled, g
  <2>5. \A i \in 1 .. Len(del) : /\ del[i] \notin drop \cup ToSet(it)
                                 /\ \E k \in 1 .. Len(acc) : acc[k] = del[i]
    BY <1>1, <1>4, <1>5, <2>2 DEF Settled, g
  <2>6. \A k \in 1 .. Len(acc) :
          acc[k] \in drop \cup ToSet(it) \/ \E i \in 1 .. Len(del) : del[i] = acc[k]
    BY <1>1, <1>4, <2>1 DEF Settled, g
  <2> QED
    BY <2>4, <2>5, <2>6, <1>3 DEF Settled
<1> QED
  BY <1>1, <1>6, <1>7, <1>8, <1>9 DEF Order

-----------------------------------------------------------------------------
(* The answers.                                                            *)

\* A new message gets a number of its own and its answer.
LEMMA NumberStep ==
  ASSUME answer \in Seq(Codes), NEW code \in Codes, Number(New, code)
  PROVE  /\ answer' \in Seq(Codes) /\ Messages' = Messages \cup {New}
         /\ New \in Nat \ {NoMessage} /\ New \notin Messages
         /\ answer'[New] = code /\ \A m \in Messages : answer'[m] = answer[m]
<1>1. Len(answer) \in Nat
  OBVIOUS
<1>2. /\ answer' \in Seq(Codes) /\ Len(answer') = Len(answer) + 1
      /\ \A m \in 1 .. Len(answer) : answer'[m] = answer[m]
      /\ answer'[Len(answer) + 1] = code
  BY AppendProperties DEF Number
<1> QED
  BY <1>1, <1>2 DEF Messages, New, NoMessage

\* The answer of a message that waited.
LEMMA AnswerStep ==
  ASSUME answer \in Seq(Codes), NEW m \in Messages, NEW sent \in BOOLEAN, Answer(m, sent)
  PROVE  /\ answer' \in Seq(Codes) /\ Messages' = Messages
         /\ answer'[m] = IF sent THEN "Success" ELSE "Full"
         /\ \A n \in Messages \ {m} : answer'[n] = answer[n]
<1> DEFINE code == IF sent THEN "Success" ELSE "Full"
<1>1. code \in Codes /\ m \in 1 .. Len(answer)
  BY DEF Codes, Messages
<1>2. answer' = [answer EXCEPT ![m] = code]
  BY DEF Answer
<1> HIDE DEF code
<1>3. /\ answer' \in Seq(Codes) /\ Len(answer') = Len(answer)
      /\ \A j \in 1 .. Len(answer) : answer'[j] = IF j = m THEN code ELSE answer[j]
  BY <1>1, <1>2, ExceptSeq
<1> QED
  BY <1>1, <1>3 DEF Messages, code

LEMMA ToSetAppend ==
  ASSUME NEW S, NEW s \in Seq(S), NEW m \in S
  PROVE  ToSet(Append(s, m)) = ToSet(s) \cup {m}
<1>1. /\ Append(s, m) \in Seq(S) /\ Len(Append(s, m)) = Len(s) + 1
      /\ \A i \in 1 .. Len(s) : Append(s, m)[i] = s[i]
      /\ Append(s, m)[Len(s) + 1] = m
  BY AppendProperties
<1>2. /\ Len(s) \in Nat /\ DOMAIN s = 1 .. Len(s)
      /\ DOMAIN Append(s, m) = 1 .. Len(s) + 1
  BY <1>1, LenProperties
<1>3. ASSUME NEW y \in ToSet(Append(s, m))
      PROVE  y \in ToSet(s) \cup {m}
  <2>1. PICK i \in 1 .. Len(s) + 1 : Append(s, m)[i] = y
    BY <1>2 DEF ToSet
  <2>2. CASE i \in 1 .. Len(s)
    BY <2>1, <2>2, <1>1, <1>2 DEF ToSet
  <2>3. CASE i = Len(s) + 1
    BY <2>1, <2>3, <1>1
  <2> QED
    BY <2>2, <2>3, <1>2
<1>4. ASSUME NEW i \in 1 .. Len(s)
      PROVE  s[i] \in ToSet(Append(s, m))
  <2>1. i \in 1 .. Len(s) + 1 /\ Append(s, m)[i] = s[i]
    BY <1>1, <1>2
  <2> QED
    BY <2>1, <1>2 DEF ToSet
<1>5. m \in ToSet(Append(s, m))
  <2>1. Len(s) + 1 \in 1 .. Len(s) + 1
    BY <1>2
  <2> QED
    BY <2>1, <1>1, <1>2 DEF ToSet
<1>6. \A y \in ToSet(s) : \E i \in 1 .. Len(s) : s[i] = y
  BY <1>2 DEF ToSet
<1> QED
  BY <1>3, <1>4, <1>5, <1>6

\* What was accepted is among the messages.
LEMMA Accepted ==
  ASSUME DataInv
  PROVE  /\ \A k \in 1 .. Len(accepted) :
              accepted[k] \in Messages /\ answer[accepted[k]] = "Success"
         /\ accepted \in Seq(Nat \ {NoMessage}) /\ items \in Seq(Nat)
         /\ DOMAIN accepted = 1 .. Len(accepted)
<1>1. accepted \in Seq(Nat \ {NoMessage}) /\ items \in Seq(Nat)
  BY DEF DataInv, Order, Types
<1>2. DOMAIN accepted = 1 .. Len(accepted)
  BY <1>1, LenProperties
<1>3. \A k \in 1 .. Len(accepted) : accepted[k] \in ToSet(accepted)
  BY <1>2 DEF ToSet
<1> QED
  BY <1>1, <1>2, <1>3 DEF DataInv, AcceptedInv

\* A message that was not accepted goes in.
LEMMA EnqueueStep ==
  ASSUME DataInv, IsRoom, NEW m \in Nat \ {NoMessage},
         m \notin Messages \/ answer[m] # "Success",
         Enqueue(m), UNCHANGED <<length, delivered, dropped, seen>>
  PROVE  /\ Order(items, accepted, delivered, dropped, seen)'
         /\ ToSet(accepted)' = ToSet(accepted) \cup {m}
         /\ Len(items)' <= length' /\ length' \in Lengths
<1>1. \A k \in 1 .. Len(accepted) : accepted[k] # m
  BY Accepted
<1>2. Order(Append(items, m), Append(accepted, m), delivered, dropped, seen)
  BY <1>1, OrderAdd DEF DataInv
<1>3. Order(items, accepted, delivered, dropped, seen)'
  BY <1>2 DEF Enqueue
<1>4. ToSet(accepted)' = ToSet(accepted) \cup {m}
  BY Accepted, ToSetAppend DEF Enqueue
<1>5. Len(items)' = Len(items) + 1 /\ Len(items) \in Nat
  <2>1. items \in Seq(Nat)
    BY Accepted
  <2> QED
    BY <2>1, AppendProperties DEF Enqueue
<1>6. length \in Nat /\ length \in Lengths
  BY SysQueueAssumption DEF DataInv
<1> QED
  BY <1>3, <1>4, <1>5, <1>6 DEF IsRoom

\* A message is received, whatever for.
LEMMA ReceiveStep ==
  ASSUME DataInv, NEW c \in Callers, NEW op \in {"pop", "peek", "discard"},
         Receive(c, op), UNCHANGED <<length, answer, accepted>>
  PROVE  DataInv'
<1>1. Order(items, accepted, delivered, dropped, seen) /\ items # <<>>
  BY DEF DataInv, Receive
<1>2. Order(items, accepted, delivered, dropped, seen)'
  <2>1. CASE op = "peek"
    <3>1. Order(items, accepted, delivered, dropped, [seen EXCEPT ![c] = Head(items)])
      BY <1>1, OrderPeek
    <3> QED
      BY <2>1, <3>1 DEF Receive
  <2>2. CASE op = "pop"
    <3>1. Order(Tail(items), accepted, Append(delivered, Head(items)), dropped,
                [seen EXCEPT ![c] = Head(items)])
      BY <1>1, OrderPop
    <3> QED
      BY <2>2, <3>1 DEF Receive
  <2>3. CASE op = "discard"
    <3>1. Order(Tail(items), accepted, delivered, dropped \cup {Head(items)}, seen)
      BY <1>1, OrderDiscard
    <3> QED
      BY <2>3, <3>1 DEF Receive
  <2> QED
    BY <2>1, <2>2, <2>3
<1>3. Len(items)' <= length' /\ length' \in Lengths
  <2>1. items \in Seq(Nat) /\ length \in Nat
    BY Accepted, SysQueueAssumption DEF DataInv
  <2>2. Len(items)' <= Len(items) /\ Len(items)' \in Nat /\ Len(items) \in Nat
    <3>1. Len(Tail(items)) = Len(items) - 1 /\ Tail(items) \in Seq(Nat)
      BY <1>1, <2>1, HeadTailProperties
    <3> QED
      BY <2>1, <3>1 DEF Receive
  <2> QED
    BY <2>1, <2>2 DEF DataInv
<1> QED
  BY <1>2, <1>3 DEF DataInv, AcceptedInv, Messages

-----------------------------------------------------------------------------
(* The steps.                                                              *)

LEMMA InitIInv == Init => IInv
<1> SUFFICES ASSUME Init
             PROVE  IInv
  OBVIOUS
<1>1. DataInv
  <2>1. Order(items, accepted, delivered, dropped, seen)
    BY OrderInit DEF Init
  <2>2. answer \in Seq(Codes) /\ Len(items) = 0 /\ Messages = {} /\ ToSet(accepted) = {}
    BY DEF Init, Messages, ToSet
  <2>3. length \in Nat /\ length \in Lengths
    BY SysQueueAssumption DEF Init
  <2> QED
    BY <2>1, <2>2, <2>3 DEF DataInv, AcceptedInv
<1>2. CallsInv /\ PendingInv
  BY DEF Init, CallsInv, PendingInv, Idle, Messages
<1>3. SemaphoreInv
  BY SysQueueAssumption DEF Init, SemaphoreInv, PermitsAccounted
<1> QED
  BY <1>1, <1>2, <1>3 DEF IInv

\* A task that is about to push has asked for it, and its message is pending.
LEMMA PendingPush ==
  ASSUME IInv, NEW t \in Tasks, call[t].op = "push"
  PROVE  /\ call[t].msg \in Messages /\ call[t].msg \in Nat \ {NoMessage}
         /\ answer[call[t].msg] = "pending"
<1>1. call[t].msg \in Messages
  BY DEF IInv, CallsInv
<1>2. Len(answer) \in Nat
  BY DEF IInv, DataInv
<1> QED
  BY <1>1, <1>2 DEF IInv, PendingInv, Messages, NoMessage

LEMMA DataStep == IInv /\ [Next]_vars => DataInv'
<1> SUFFICES ASSUME IInv, [Next]_vars
             PROVE  DataInv'
  OBVIOUS
<1> USE DEF IInv
<1>1. ASSUME NEW c \in Callers, NEW timeout \in Timeouts, Push(c, timeout)
      PROVE  DataInv'
  <2>1. CASE IsRoom /\ Enqueue(New) /\ Number(New, "Success")
    <3>1. /\ answer' \in Seq(Codes) /\ Messages' = Messages \cup {New}
          /\ New \in Nat \ {NoMessage} /\ New \notin Messages
          /\ answer'[New] = "Success" /\ \A m \in Messages : answer'[m] = answer[m]
      BY <2>1, NumberStep DEF DataInv, Codes
    <3>2. /\ Order(items, accepted, delivered, dropped, seen)'
          /\ ToSet(accepted)' = ToSet(accepted) \cup {New}
          /\ Len(items)' <= length' /\ length' \in Lengths
      BY <1>1, <2>1, <3>1, EnqueueStep DEF Push
    <3>3. AcceptedInv'
      BY <3>1, <3>2 DEF DataInv, AcceptedInv
    <3> QED
      BY <3>1, <3>2, <3>3 DEF DataInv
  <2>2. ASSUME NEW code \in {"Full", "pending"}, Number(New, code),
               UNCHANGED <<items, accepted>>
        PROVE  DataInv'
    <3>1. /\ answer' \in Seq(Codes) /\ Messages' = Messages \cup {New}
          /\ New \notin Messages
          /\ answer'[New] = code /\ \A m \in Messages : answer'[m] = answer[m]
      BY <2>2, NumberStep DEF DataInv, Codes
    <3>2. AcceptedInv'
      BY <2>2, <3>1 DEF DataInv, AcceptedInv
    <3> QED
      BY <1>1, <2>2, <3>1, <3>2 DEF DataInv, Push
  <2> QED
    BY <1>1, <2>1, <2>2 DEF Push
<1>2. ASSUME NEW t \in Tasks, PushGoesThrough(t)
      PROVE  DataInv'
  <2> DEFINE m == call[t].msg
  <2>1. m \in Messages /\ m \in Nat \ {NoMessage} /\ answer[m] = "pending"
    BY <1>2, PendingPush DEF PushGoesThrough
  <2>2. /\ answer' \in Seq(Codes) /\ Messages' = Messages
        /\ answer'[m] = "Success" /\ \A n \in Messages \ {m} : answer'[n] = answer[n]
    BY <1>2, <2>1, AnswerStep DEF PushGoesThrough, DataInv
  <2>3. /\ Order(items, accepted, delivered, dropped, seen)'
        /\ ToSet(accepted)' = ToSet(accepted) \cup {m}
        /\ Len(items)' <= length' /\ length' \in Lengths
    BY <1>2, <2>1, EnqueueStep DEF PushGoesThrough
  <2> HIDE DEF m
  <2>4. AcceptedInv'
    BY <2>1, <2>2, <2>3 DEF DataInv, AcceptedInv
  <2> QED
    BY <2>2, <2>3, <2>4 DEF DataInv
<1>3. ASSUME NEW t \in Tasks, PushTimesOut(t)
      PROVE  DataInv'
  <2> DEFINE m == call[t].msg
  <2>1. m \in Messages /\ answer[m] = "pending"
    BY <1>3, PendingPush DEF PushTimesOut
  <2>2. /\ answer' \in Seq(Codes) /\ Messages' = Messages
        /\ answer'[m] = "Full" /\ \A n \in Messages \ {m} : answer'[n] = answer[n]
    BY <1>3, <2>1, AnswerStep DEF PushTimesOut, DataInv
  <2>3. UNCHANGED <<length, items, accepted, delivered, dropped, seen>>
    BY <1>3 DEF PushTimesOut
  <2> HIDE DEF m
  <2>4. AcceptedInv'
    BY <2>1, <2>2, <2>3 DEF DataInv, AcceptedInv
  <2> QED
    BY <2>2, <2>3, <2>4 DEF DataInv
<1>4. ASSUME NEW c \in Callers, ForcePush(c)
      PROVE  DataInv'
  <2>1. /\ answer' \in Seq(Codes) /\ Messages' = Messages \cup {New}
        /\ New \in Nat \ {NoMessage} /\ New \notin Messages
        /\ answer'[New] = "Success" /\ \A m \in Messages : answer'[m] = answer[m]
    BY <1>4, NumberStep DEF ForcePush, DataInv, Codes
  <2>2. Order(<<>>, accepted, delivered, dropped \cup ToSet(items), seen)
    BY OrderClear DEF DataInv
  <2>3. \A k \in 1 .. Len(accepted) : accepted[k] # New
    BY <2>1, Accepted
  <2>4. Order(Append(<<>>, New), Append(accepted, New), delivered,
              dropped \cup ToSet(items), seen)
    BY <2>1, <2>2, <2>3, OrderAdd
  <2>5. Append(<<>>, New) = <<New>>
    BY <2>1
  <2>6. Order(items, accepted, delivered, dropped, seen)'
    BY <1>4, <2>4, <2>5 DEF ForcePush
  <2>7. ToSet(accepted)' = ToSet(accepted) \cup {New}
    <3>1. accepted \in Seq(Nat \ {NoMessage})
      BY Accepted
    <3>2. ToSet(Append(accepted, New)) = ToSet(accepted) \cup {New}
      BY <2>1, <3>1, ToSetAppend
    <3> QED
      BY <1>4, <3>2 DEF ForcePush
  <2>8. AcceptedInv'
    BY <2>1, <2>7 DEF DataInv, AcceptedInv
  <2>9. Len(items)' = 1 /\ length' = 1 /\ length' \in Lengths
    BY <1>4 DEF ForcePush, DataInv
  <2> QED
    BY <2>1, <2>6, <2>8, <2>9 DEF DataInv
<1>5. ASSUME NEW c \in Callers, NEW timeout \in Timeouts,
             NEW op \in {"pop", "discard", "peek"}, Get(c, op, timeout)
      PROVE  DataInv'
  <2>1. CASE Receive(c, op)
    BY <1>5, <2>1, ReceiveStep DEF Get
  <2>2. CASE ~Receive(c, op)
    BY <1>5, <2>2 DEF Get, DataInv, AcceptedInv, Messages
  <2> QED
    BY <2>1, <2>2
<1>6. ASSUME NEW t \in Tasks, GetGoesThrough(t)
      PROVE  DataInv'
  BY <1>6, ReceiveStep DEF GetGoesThrough, Callers
<1>7. ASSUME NEW c \in Callers, Clear(c)
      PROVE  DataInv'
  <2>1. Order(<<>>, accepted, delivered, dropped \cup ToSet(items), seen)
    BY OrderClear DEF DataInv
  <2>2. Order(items, accepted, delivered, dropped, seen)'
    BY <1>7, <2>1 DEF Clear
  <2>3. Len(items)' = 0 /\ length' \in Nat /\ length' \in Lengths
    BY <1>7, SysQueueAssumption DEF Clear, DataInv
  <2>4. answer' \in Seq(Codes) /\ AcceptedInv'
    BY <1>7 DEF Clear, DataInv, AcceptedInv, Messages
  <2> QED
    BY <2>2, <2>3, <2>4 DEF DataInv
<1>8. ASSUME UNCHANGED <<length, queueVars>>
      PROVE  DataInv'
  BY <1>8 DEF queueVars, DataInv, AcceptedInv, Messages
<1>9. \/ \E c \in Callers, timeout \in Timeouts : Acquire(c, timeout)
      \/ \E c \in Callers : Release(c)
      \/ \E t \in Tasks : AcquireGoesThrough(t) \/ TimesOut(t)
      \/ UNCHANGED vars
      => UNCHANGED <<length, queueVars>>
  BY DEF Acquire, Release, AcquireGoesThrough, TimesOut, vars
<1> QED
  BY <1>1, <1>2, <1>3, <1>4, <1>5, <1>6, <1>7, <1>8, <1>9 DEF Next

\* A push that waits has a new message, and no other task has it.
LEMMA BlocksInPush ==
  ASSUME IInv, NEW t \in Tasks, NEW timeout \in {"finite", "forever"},
         Number(New, "pending"),
         Block(t, [op |-> "push", msg |-> New, timeout |-> timeout]),
         call[t] = Idle
  PROVE  CallsInv' /\ PendingInv'
<1>1. /\ Messages' = Messages \cup {New}
      /\ New \in Nat \ {NoMessage} /\ New \notin Messages
      /\ answer'[New] = "pending" /\ \A m \in Messages : answer'[m] = answer[m]
  BY NumberStep DEF IInv, DataInv, Codes
<1> DEFINE waiting == [op |-> "push", msg |-> New, timeout |-> timeout]
<1>2. waiting.op = "push" /\ waiting.msg = New /\ waiting \in Waiting
  BY <1>1 DEF Waiting
<1>3. call' = [call EXCEPT ![t] = waiting]
  BY DEF Block
<1> HIDE DEF waiting
<1>4. call \in [Tasks -> {Idle} \cup Waiting]
  BY DEF IInv, CallsInv
<1>5. /\ call' \in [Tasks -> {Idle} \cup Waiting]
      /\ call'[t] = waiting /\ \A u \in Tasks \ {t} : call'[u] = call[u]
  BY <1>2, <1>3, <1>4
<1>6. Idle.op # "push"
  BY DEF Idle
<1>7. CallsInv'
  BY <1>1, <1>2, <1>5 DEF IInv, CallsInv
<1>8. PendingInv'
  BY <1>1, <1>2, <1>5, <1>6 DEF IInv, CallsInv, PendingInv
<1> QED
  BY <1>7, <1>8

\* A push that is answered at once leaves the ones that wait alone.
LEMMA AnswersAtOnce ==
  ASSUME IInv, NEW code \in {"Success", "Full"}, Number(New, code), UNCHANGED call
  PROVE  CallsInv' /\ PendingInv'
<1>1. /\ Messages' = Messages \cup {New} /\ New \notin Messages
      /\ answer'[New] = code /\ \A m \in Messages : answer'[m] = answer[m]
  BY NumberStep DEF IInv, DataInv, Codes
<1> QED
  BY <1>1 DEF IInv, CallsInv, PendingInv

\* A push that waited is answered.
LEMMA AnswersInTheEnd ==
  ASSUME IInv, NEW t \in Tasks, call[t].op = "push", NEW sent \in BOOLEAN,
         Answer(call[t].msg, sent), Finish(t)
  PROVE  CallsInv' /\ PendingInv'
<1> DEFINE m == call[t].msg
<1>1. m \in Messages
  BY PendingPush
<1>2. /\ Messages' = Messages /\ answer'[m] # "pending"
      /\ \A n \in Messages \ {m} : answer'[n] = answer[n]
  BY <1>1, AnswerStep DEF IInv, DataInv
<1>3. call \in [Tasks -> {Idle} \cup Waiting]
  BY DEF IInv, CallsInv
<1>4. /\ call' \in [Tasks -> {Idle} \cup Waiting]
      /\ call'[t] = Idle /\ \A u \in Tasks \ {t} : call'[u] = call[u]
  BY <1>3 DEF Finish
<1>5. Idle.op # "push"
  BY DEF Idle
<1>6. CallsInv'
  BY <1>2, <1>4, <1>5 DEF IInv, CallsInv
<1>7. PendingInv'
  <2> SUFFICES ASSUME NEW n \in Messages
               PROVE  answer'[n] = "pending" <=>
                        \E u \in Tasks : call'[u].op = "push" /\ call'[u].msg = n
    BY <1>2 DEF PendingInv
  <2>1. CASE n = m
    <3>1. \A u \in Tasks \ {t} : ~(call[u].op = "push" /\ call[u].msg = m)
      BY DEF IInv, CallsInv
    <3> QED
      BY <2>1, <3>1, <1>2, <1>4, <1>5
  <2>2. CASE n # m
    <3>1. answer[n] = "pending" <=>
            \E u \in Tasks : call[u].op = "push" /\ call[u].msg = n
      BY DEF IInv, PendingInv
    <3> QED
      BY <2>2, <3>1, <1>2, <1>4, <1>5
  <2> QED
    BY <2>1, <2>2
<1> QED
  BY <1>6, <1>7

\* A call other than a push begins or ends to wait.
LEMMA OtherCalls ==
  ASSUME IInv, NEW t \in Tasks, call[t].op # "push",
         NEW w \in {Idle} \cup Waiting, w.op # "push",
         call' = [call EXCEPT ![t] = w], UNCHANGED answer
  PROVE  CallsInv' /\ PendingInv'
<1>1. call \in [Tasks -> {Idle} \cup Waiting]
  BY DEF IInv, CallsInv
<1>2. /\ call' \in [Tasks -> {Idle} \cup Waiting] /\ Messages' = Messages
      /\ call'[t] = w /\ \A u \in Tasks \ {t} : call'[u] = call[u]
  BY <1>1 DEF Messages
<1>3. CallsInv'
  BY <1>2 DEF IInv, CallsInv
<1>4. PendingInv'
  BY <1>2 DEF IInv, PendingInv
<1> QED
  BY <1>3, <1>4

\* Whoever waits is a task.
LEMMA WhoWaits ==
  ASSUME NEW c \in Callers, NEW timeout \in Timeouts, timeout # "none",
         Ready(c), MayWait(c, timeout)
  PROVE  c \in Tasks /\ call[c] = Idle /\ timeout \in {"finite", "forever"}
BY DEF Callers, Timeouts, Ready, MayWait

LEMMA CallsStep == IInv /\ [Next]_vars => CallsInv' /\ PendingInv'
<1> SUFFICES ASSUME IInv, [Next]_vars
             PROVE  CallsInv' /\ PendingInv'
  OBVIOUS
<1>0. Idle.op = "idle"
  BY DEF Idle
<1>1. ASSUME NEW c \in Callers, NEW timeout \in Timeouts, Push(c, timeout)
      PROVE  CallsInv' /\ PendingInv'
  <2>1. CASE Number(New, "Success") /\ UNCHANGED call
    BY <2>1, AnswersAtOnce
  <2>2. CASE Number(New, "Full") /\ UNCHANGED call
    BY <2>2, AnswersAtOnce
  <2>3. CASE /\ timeout # "none" /\ Number(New, "pending")
             /\ Block(c, [op |-> "push", msg |-> New, timeout |-> timeout])
    BY <1>1, <2>3, WhoWaits, BlocksInPush DEF Push
  <2> QED
    BY <1>1, <2>1, <2>2, <2>3 DEF Push
<1>2. ASSUME NEW t \in Tasks, PushGoesThrough(t) \/ PushTimesOut(t)
      PROVE  CallsInv' /\ PendingInv'
  BY <1>2, AnswersInTheEnd DEF PushGoesThrough, PushTimesOut
<1>3. ASSUME NEW c \in Callers, ForcePush(c)
      PROVE  CallsInv' /\ PendingInv'
  BY <1>3, AnswersAtOnce DEF ForcePush
<1>4. ASSUME NEW c \in Callers, NEW timeout \in Timeouts,
             NEW op \in {"pop", "discard", "peek", "acquire"},
             Ready(c), MayWait(c, timeout), timeout # "none", op # "discard",
             Block(c, [op |-> op, timeout |-> timeout]), UNCHANGED answer
      PROVE  CallsInv' /\ PendingInv'
  <2> DEFINE w == [op |-> op, timeout |-> timeout]
  <2>1. c \in Tasks /\ call[c] = Idle /\ timeout \in {"finite", "forever"}
    BY <1>4, WhoWaits
  <2>2. w \in Waiting /\ w.op # "push"
    BY <1>4, <2>1 DEF Waiting
  <2>3. call' = [call EXCEPT ![c] = w]
    BY <1>4 DEF Block
  <2> HIDE DEF w
  <2> QED
    BY <1>0, <1>4, <2>1, <2>2, <2>3, OtherCalls
<1>5. ASSUME NEW t \in Tasks, call[t].op # "push", Finish(t), UNCHANGED answer
      PROVE  CallsInv' /\ PendingInv'
  BY <1>0, <1>5, OtherCalls DEF Finish
<1>6. ASSUME UNCHANGED <<call, answer>>
      PROVE  CallsInv' /\ PendingInv'
  BY <1>6 DEF IInv, CallsInv, PendingInv, Messages
<1>7. ASSUME NEW c \in Callers, NEW timeout \in Timeouts,
             NEW op \in {"pop", "discard", "peek"}, Get(c, op, timeout)
      PROVE  CallsInv' /\ PendingInv'
  BY <1>4, <1>6, <1>7 DEF Get
<1>8. ASSUME NEW c \in Callers, NEW timeout \in Timeouts, Acquire(c, timeout)
      PROVE  CallsInv' /\ PendingInv'
  BY <1>4, <1>6, <1>8 DEF Acquire, queueVars
<1>9. ASSUME NEW t \in Tasks, GetGoesThrough(t) \/ AcquireGoesThrough(t) \/ TimesOut(t)
      PROVE  CallsInv' /\ PendingInv'
  BY <1>5, <1>9 DEF GetGoesThrough, AcquireGoesThrough, TimesOut, queueVars
<1>10. ASSUME NEW c \in Callers, Clear(c) \/ Release(c)
       PROVE  CallsInv' /\ PendingInv'
  BY <1>6, <1>10 DEF Clear, Release, queueVars
<1>11. CASE UNCHANGED vars
  BY <1>6, <1>11 DEF vars, queueVars
<1> QED
  BY <1>1, <1>2, <1>3, <1>7, <1>8, <1>9, <1>10, <1>11 DEF Next

\* A permit is made by one release() and taken by one acquire().
LEMMA SemaphoreStep == IInv /\ [Next]_vars => SemaphoreInv'
<1> SUFFICES ASSUME SemaphoreInv, [Next]_vars
             PROVE  SemaphoreInv'
  BY DEF IInv
<1> USE SysQueueAssumption
<1>1. ASSUME NEW c \in Callers, Release(c)
      PROVE  SemaphoreInv'
  BY <1>1 DEF Release, SemaphoreInv, PermitsAccounted
<1>2. ASSUME TakePermit, acquired' = acquired + 1, UNCHANGED released
      PROVE  SemaphoreInv'
  BY <1>2 DEF TakePermit, SemaphoreInv, PermitsAccounted
<1>3. ASSUME UNCHANGED semaphoreVars
      PROVE  SemaphoreInv'
  BY <1>3 DEF semaphoreVars, SemaphoreInv, PermitsAccounted
<1>4. ASSUME NEW c \in Callers, NEW timeout \in Timeouts, Acquire(c, timeout)
      PROVE  SemaphoreInv'
  BY <1>2, <1>3, <1>4 DEF Acquire, semaphoreVars
<1>5. ASSUME NEW t \in Tasks, AcquireGoesThrough(t)
      PROVE  SemaphoreInv'
  BY <1>2, <1>5 DEF AcquireGoesThrough
<1>6. ASSUME NEW c \in Callers, NEW timeout \in Timeouts,
             NEW op \in {"pop", "discard", "peek"},
             Push(c, timeout) \/ Get(c, op, timeout) \/ ForcePush(c) \/ Clear(c)
      PROVE  UNCHANGED semaphoreVars
  BY <1>6 DEF Push, Get, ForcePush, Clear
<1>7. ASSUME NEW t \in Tasks,
             \/ PushGoesThrough(t) \/ PushTimesOut(t)
             \/ GetGoesThrough(t) \/ TimesOut(t)
      PROVE  UNCHANGED semaphoreVars
  BY <1>7 DEF PushGoesThrough, PushTimesOut, GetGoesThrough, TimesOut
<1>8. ASSUME NEW c \in Callers, ForcePush(c) \/ Clear(c)
      PROVE  UNCHANGED semaphoreVars
  BY <1>8 DEF ForcePush, Clear
<1>9. ASSUME NEW c \in Callers, NEW timeout \in Timeouts, Push(c, timeout)
      PROVE  UNCHANGED semaphoreVars
  BY <1>9 DEF Push
<1>10. UNCHANGED vars => UNCHANGED semaphoreVars
  BY DEF vars
<1> QED
  BY <1>1, <1>3, <1>4, <1>5, <1>6, <1>7, <1>8, <1>9, <1>10 DEF Next

LEMMA Invariance == Spec => []IInv
<1>1. IInv /\ [Next]_vars => IInv'
  BY DataStep, CallsStep, SemaphoreStep DEF IInv
<1> QED
  BY InitIInv, <1>1, PTL DEF Spec

-----------------------------------------------------------------------------
(* The theorems.                                                           *)

LEMMA SeqOfSubset ==
  ASSUME NEW S, NEW s \in Seq(Nat), \A i \in 1 .. Len(s) : s[i] \in S
  PROVE  s \in Seq(S)
<1>1. Range(s) = {s[i] : i \in 1 .. Len(s)} /\ s \in Seq(Range(s))
  BY RangeEquality, SeqOfRange
<1>2. Range(s) \subseteq S
  BY <1>1
<1>3. \A T, U : \A r \in Seq(T) : T \subseteq U => r \in Seq(U)
  BY SeqMonotonic
<1> QED
  BY <1>1, <1>2, <1>3

LEMMA TypesHold == IInv => TypeOK
<1> SUFFICES ASSUME IInv
             PROVE  TypeOK
  OBVIOUS
<1> USE DEF IInv
<1>1. Order(items, accepted, delivered, dropped, seen)
  BY DEF DataInv
<1>2. /\ Types(items, accepted, delivered, dropped, seen) /\ IsEnd(items, accepted)
      /\ Settled(items, accepted, delivered, dropped)
      /\ SeenSoFar(items, accepted, seen)
  BY <1>1 DEF Order
<1>3. /\ Gone(items, accepted) \in 0 .. Len(accepted)
      /\ Gone(items, accepted) + Len(items) = Len(accepted)
      /\ Len(items) \in Nat /\ Len(accepted) \in Nat
      /\ Shown(items, accepted) \in 0 .. Len(accepted)
  BY <1>2, Ranges
<1>4. \A k \in 1 .. Len(accepted) : accepted[k] \in Messages
  BY Accepted
<1>5. accepted \in Seq(Messages)
  <2>1. accepted \in Seq(Nat)
    BY <1>2, SeqMonotonic, Nat \ {NoMessage} \subseteq Nat DEF Types
  <2> QED
    BY <2>1, <1>4, SeqOfSubset
<1>6. items \in Seq(Messages)
  <2>1. ASSUME NEW i \in 1 .. Len(items)
        PROVE  items[i] \in Messages
    <3>1. Gone(items, accepted) + i \in 1 .. Len(accepted)
      BY <1>3
    <3>2. items[i] = accepted[Gone(items, accepted) + i]
      BY <1>2 DEF IsEnd
    <3> QED
      BY <3>1, <3>2, <1>4
  <2> QED
    BY <2>1, <1>2, SeqOfSubset DEF Types
<1>7. \A k \in 1 .. Gone(items, accepted) : k \in 1 .. Len(accepted)
  BY <1>3
<1>8. dropped \subseteq Messages
  BY <1>2, <1>4, <1>7 DEF Settled
<1>9. delivered \in Seq(Messages)
  <2>1. \A i \in 1 .. Len(delivered) : delivered[i] \in Messages
    BY <1>2, <1>4, <1>7 DEF Settled
  <2> QED
    BY <2>1, <1>2, SeqOfSubset DEF Types
<1>10. seen \in [Callers -> Messages \cup {NoMessage}]
  <2>1. \A k \in 1 .. Shown(items, accepted) : k \in 1 .. Len(accepted)
    BY <1>3
  <2>2. \A c \in Callers : seen[c] \in Messages \cup {NoMessage}
    BY <2>1, <1>2, <1>4 DEF SeenSoFar
  <2> QED
    BY <2>2, <1>2 DEF Types
<1> QED
  BY <1>5, <1>6, <1>8, <1>9, <1>10
  DEF DataInv, SemaphoreInv, PendingInv, TypeOK, Codes

\* The messages that left the queue for a caller, and those in it, are the
\* accepted ones less the dropped ones in the order they went in.
LEMMA OnceInOrder == IInv => ExactlyOnceInOrder
<1> SUFFICES ASSUME IInv
             PROVE  ExactlyOnceInOrder
  OBVIOUS
<1> DEFINE g == Gone(items, accepted)
           out == delivered \o items
<1>1. Order(items, accepted, delivered, dropped, seen) /\ AcceptedInv
  BY DEF IInv, DataInv
<1>2. /\ Types(items, accepted, delivered, dropped, seen) /\ IsEnd(items, accepted)
      /\ Settled(items, accepted, delivered, dropped) /\ InOrder(accepted, delivered)
      /\ IsInjective(accepted)
  BY <1>1 DEF Order
<1>3. /\ g \in 0 .. Len(accepted) /\ g + Len(items) = Len(accepted)
      /\ Len(items) \in Nat /\ Len(accepted) \in Nat /\ Len(delivered) \in Nat
      /\ DOMAIN accepted = 1 .. Len(accepted)
  BY <1>2, Ranges
<1>4. /\ out \in Seq(Nat) /\ DOMAIN out = 1 .. Len(delivered) + Len(items)
      /\ \A i \in 1 .. Len(delivered) + Len(items) :
           out[i] = IF i <= Len(delivered) THEN delivered[i] ELSE items[i - Len(delivered)]
  BY <1>2, ConcatProperties, LenProperties DEF Types
<1> HIDE DEF out, g
<1>5. \A k \in 1 .. Len(accepted) :
        accepted[k] # NoMessage /\ Place(accepted[k]) = k
  BY <1>2, PlaceIs DEF Types, Place
<1>6. \A i \in 1 .. Len(delivered) :
        i \in DOMAIN out /\ out[i] = delivered[i]
  BY <1>3, <1>4
<1>7. \A i \in 1 .. Len(items) :
        /\ Len(delivered) + i \in DOMAIN out
        /\ out[Len(delivered) + i] = accepted[g + i] /\ g + i \in 1 .. Len(accepted)
  <2> SUFFICES ASSUME NEW i \in 1 .. Len(items)
               PROVE  /\ Len(delivered) + i \in DOMAIN out
                      /\ out[Len(delivered) + i] = accepted[g + i]
                      /\ g + i \in 1 .. Len(accepted)
    OBVIOUS
  <2>1. items[i] = accepted[g + i]
    BY <1>2 DEF IsEnd, g
  <2>2. /\ Len(delivered) + i \in 1 .. Len(delivered) + Len(items)
        /\ ~(Len(delivered) + i <= Len(delivered))
        /\ (Len(delivered) + i) - Len(delivered) = i
        /\ g + i \in 1 .. Len(accepted)
    BY <1>3
  <2> QED
    BY <2>1, <2>2, <1>4
<1>8. \A x \in DOMAIN out :
        \/ x \in 1 .. Len(delivered)
        \/ \E i \in 1 .. Len(items) : x = Len(delivered) + i
  <2> SUFFICES ASSUME NEW x \in 1 .. Len(delivered) + Len(items), x \notin 1 .. Len(delivered)
               PROVE  \E i \in 1 .. Len(items) : x = Len(delivered) + i
    BY <1>4
  <2>1. x - Len(delivered) \in 1 .. Len(items) /\ x = Len(delivered) + (x - Len(delivered))
    BY <1>3
  <2> QED
    BY <2>1
\* Where each message of out stands, and which part of out it is from.
<1>9. \A i \in 1 .. Len(delivered) :
        \E k \in 1 .. g : /\ k \in 1 .. Len(accepted)
                          /\ delivered[i] = accepted[k] /\ accepted[k] \notin dropped
  <2>1. \A k \in 1 .. g : k \in 1 .. Len(accepted)
    BY <1>3
  <2> QED
    BY <2>1, <1>2 DEF Settled, g
<1>10. \A i \in 1 .. Len(items) : accepted[g + i] \notin dropped
  <2> SUFFICES ASSUME NEW i \in 1 .. Len(items)
               PROVE  accepted[g + i] \notin dropped
    OBVIOUS
  <2>1. g + i \in g + 1 .. Len(accepted)
    BY <1>3
  <2> QED
    BY <2>1, <1>1, NotGone DEF g
<1>11. ToSet(out) = ToSet(accepted) \ dropped
  <2>1. ASSUME NEW x \in DOMAIN out
        PROVE  out[x] \in ToSet(accepted) \ dropped
    <3>1. CASE x \in 1 .. Len(delivered)
      BY <3>1, <1>3, <1>6, <1>9 DEF ToSet
    <3>2. CASE \E i \in 1 .. Len(items) : x = Len(delivered) + i
      BY <3>2, <1>3, <1>7, <1>10 DEF ToSet
    <3> QED
      BY <3>1, <3>2, <1>8
  <2>2. ASSUME NEW k \in 1 .. Len(accepted), accepted[k] \notin dropped
        PROVE  \E x \in DOMAIN out : out[x] = accepted[k]
    <3>1. CASE k \in 1 .. g
      <4>1. PICK i \in 1 .. Len(delivered) : delivered[i] = accepted[k]
        BY <2>2, <3>1, <1>2 DEF Settled, g
      <4> QED
        BY <4>1, <1>6
    <3>2. CASE k \notin 1 .. g
      <4>1. k - g \in 1 .. Len(items) /\ g + (k - g) = k
        BY <3>2, <1>3
      <4> QED
        BY <4>1, <1>7
    <3> QED
      BY <3>1, <3>2
  <2>3. \A y \in ToSet(out) : \E x \in DOMAIN out : out[x] = y
    BY DEF ToSet
  <2>4. \A y \in ToSet(accepted) : \E k \in 1 .. Len(accepted) : accepted[k] = y
    BY <1>3 DEF ToSet
  <2>5. \A x \in DOMAIN out : out[x] \in ToSet(out)
    BY DEF ToSet
  <2> QED
    BY <2>1, <2>2, <2>3, <2>4, <2>5
<1>12. ASSUME NEW x \in DOMAIN out, NEW y \in DOMAIN out, x < y
       PROVE  Place(out[x]) < Place(out[y])
  <2>1. CASE x \in 1 .. Len(delivered) /\ y \in 1 .. Len(delivered)
    <3>1. PICK k \in 1 .. g : k \in 1 .. Len(accepted) /\ delivered[x] = accepted[k]
      BY <2>1, <1>9
    <3>2. PICK l \in 1 .. g : l \in 1 .. Len(accepted) /\ delivered[y] = accepted[l]
      BY <2>1, <1>9
    <3>3. k < l
      BY <1>12, <2>1, <3>1, <3>2, <1>2 DEF InOrder
    <3> QED
      BY <2>1, <3>1, <3>2, <3>3, <1>5, <1>6
  <2>2. ASSUME x \in 1 .. Len(delivered),
               NEW j \in 1 .. Len(items), y = Len(delivered) + j
        PROVE  Place(out[x]) < Place(out[y])
    <3>1. PICK k \in 1 .. g : k \in 1 .. Len(accepted) /\ delivered[x] = accepted[k]
      BY <2>2, <1>9
    <3>2. Place(out[x]) = k
      BY <2>2, <3>1, <1>5, <1>6
    <3>3. Place(out[y]) = g + j
      BY <2>2, <1>5, <1>7
    <3> QED
      BY <3>1, <3>2, <3>3, <1>3
  <2>3. ASSUME NEW i \in 1 .. Len(items), x = Len(delivered) + i,
               NEW j \in 1 .. Len(items), y = Len(delivered) + j
        PROVE  Place(out[x]) < Place(out[y])
    <3>1. Place(out[x]) = g + i /\ Place(out[y]) = g + j
      BY <2>3, <1>5, <1>7
    <3> QED
      BY <1>12, <2>3, <3>1, <1>3
  <2>4. ~(y \in 1 .. Len(delivered) /\ \E i \in 1 .. Len(items) : x = Len(delivered) + i)
    BY <1>12, <1>3
  <2> QED
    BY <2>1, <2>2, <2>3, <2>4, <1>8
<1> QED
  BY <1>1, <1>2, <1>11, <1>12 DEF ExactlyOnceInOrder, AcceptedInv, out

\* What a caller is shown is the first message in the queue, and what has
\* been accepted keeps its place.
LEMMA SeenStep ==
  ASSUME IInv, [Next]_vars
  PROVE  /\ \/ UNCHANGED accepted
            \/ \E m \in Nat \ {NoMessage} : accepted' = Append(accepted, m)
         /\ \A c \in Callers :
              \/ seen'[c] = seen[c]
              \/ items # <<>> /\ seen'[c] = Head(items) /\ UNCHANGED accepted
<1>1. Len(answer) \in Nat /\ seen \in [Callers -> Nat]
  BY DEF IInv, DataInv, Order, Types
<1>2. New \in Nat \ {NoMessage}
  BY <1>1 DEF New, NoMessage
<1> DEFINE P == /\ \/ UNCHANGED accepted
                   \/ \E m \in Nat \ {NoMessage} : accepted' = Append(accepted, m)
                /\ UNCHANGED seen
           Q == /\ UNCHANGED accepted
                /\ \A c \in Callers :
                     seen'[c] = seen[c] \/ (items # <<>> /\ seen'[c] = Head(items))
<1>3. ASSUME NEW c \in Callers, NEW op \in {"pop", "discard", "peek"},
             Receive(c, op), UNCHANGED accepted
      PROVE  Q
  <2>1. items # <<>> /\ (seen' = seen \/ seen' = [seen EXCEPT ![c] = Head(items)])
    BY <1>3 DEF Receive
  <2> QED
    BY <2>1, <1>1, <1>3
<1>4. ASSUME NEW c \in Callers, NEW timeout \in Timeouts, Push(c, timeout)
      PROVE  P
  BY <1>2, <1>4 DEF Push, Enqueue
<1>5. ASSUME NEW c \in Callers, ForcePush(c)
      PROVE  P
  BY <1>2, <1>5 DEF ForcePush
<1>6. ASSUME NEW t \in Tasks, PushGoesThrough(t)
      PROVE  P
  BY <1>6, PendingPush DEF PushGoesThrough, Enqueue
<1>7. ASSUME NEW c \in Callers, NEW timeout \in Timeouts,
             NEW op \in {"pop", "discard", "peek"}, Get(c, op, timeout)
      PROVE  Q
  <2>1. UNCHANGED accepted /\ (Receive(c, op) \/ UNCHANGED seen)
    BY <1>7 DEF Get
  <2>2. CASE UNCHANGED seen
    BY <2>1, <2>2
  <2> QED
    BY <2>1, <2>2, <1>3
<1>8. ASSUME NEW t \in Tasks, GetGoesThrough(t)
      PROVE  Q
  BY <1>3, <1>8 DEF GetGoesThrough, Callers
<1>9. UNCHANGED <<accepted, seen>> => P
  OBVIOUS
<1>10. \/ \E c \in Callers, timeout \in Timeouts : Acquire(c, timeout)
       \/ \E c \in Callers : Release(c) \/ Clear(c)
       \/ \E t \in Tasks : PushTimesOut(t) \/ AcquireGoesThrough(t) \/ TimesOut(t)
       \/ UNCHANGED vars
       => UNCHANGED <<accepted, seen>>
  BY DEF Acquire, Release, Clear, PushTimesOut, AcquireGoesThrough, TimesOut, vars, queueVars
<1> HIDE DEF P, Q
<1>11. P \/ Q
  BY <1>4, <1>5, <1>6, <1>7, <1>8, <1>9, <1>10 DEF Next
<1> QED
  BY <1>11 DEF P, Q

LEMMA SeenForward ==
  ASSUME IInv, [Next]_vars, IInv', NEW c \in Callers
  PROVE  Place(seen[c]) <= Place(seen[c])'
<1> DEFINE g == Gone(items, accepted)
<1>1. /\ Types(items, accepted, delivered, dropped, seen) /\ IsEnd(items, accepted)
      /\ SeenSoFar(items, accepted, seen) /\ IsInjective(accepted)
  BY DEF IInv, DataInv, Order
<1>2. accepted' \in Seq(Nat \ {NoMessage}) /\ IsInjective(accepted')
  BY DEF IInv, DataInv, Order, Types
<1>3. accepted \in Seq(Nat \ {NoMessage})
  BY <1>1 DEF Types
<1>4. \A k \in 1 .. Len(accepted) :
        /\ k \in Nat /\ accepted[k] # NoMessage
        /\ k \in 1 .. Len(accepted') /\ accepted'[k] = accepted[k]
  <2>1. Len(accepted) \in Nat /\ \A k \in 1 .. Len(accepted) : accepted[k] # NoMessage
    BY <1>3
  <2>2. CASE UNCHANGED accepted
    BY <2>1, <2>2
  <2>3. ASSUME NEW m \in Nat \ {NoMessage}, accepted' = Append(accepted, m)
        PROVE  \A k \in 1 .. Len(accepted) :
                 k \in 1 .. Len(accepted') /\ accepted'[k] = accepted[k]
    BY <2>1, <2>3, <1>3, AppendProperties
  <2> QED
    BY <2>1, <2>2, <2>3, SeenStep
<1>5. \A k \in 1 .. Len(accepted) : Place(accepted[k]) = k /\ Place(accepted[k])' = k
  <2> SUFFICES ASSUME NEW k \in 1 .. Len(accepted)
               PROVE  Place(accepted[k]) = k /\ Place(accepted[k])' = k
    OBVIOUS
  <2>1. (CHOOSE i \in DOMAIN accepted : accepted[i] = accepted[k]) = k
    BY <1>1, <1>3, PlaceIs
  <2>2. (CHOOSE i \in DOMAIN accepted' : accepted'[i] = accepted'[k]) = k
    BY <1>2, <1>4, PlaceIs
  <2>3. accepted[k] # NoMessage /\ accepted'[k] # NoMessage
    BY <1>4
  <2> QED
    BY <2>1, <2>2, <2>3 DEF Place
<1>6. seen[c] = NoMessage \/ \E k \in 1 .. Shown(items, accepted) : accepted[k] = seen[c]
  BY <1>1 DEF SeenSoFar
<1>7. Shown(items, accepted) \in 0 .. Len(accepted) /\ Len(accepted) \in Nat
  BY <1>1, Ranges
<1>8. CASE seen'[c] = seen[c]
  <2>1. CASE seen[c] = NoMessage
    BY <1>8, <2>1 DEF Place
  <2>2. ASSUME NEW k \in 1 .. Shown(items, accepted), accepted[k] = seen[c]
        PROVE  Place(seen[c]) <= Place(seen[c])'
    <3>1. k \in 1 .. Len(accepted)
      BY <1>7
    <3>2. accepted'[k] = seen'[c]
      BY <1>4, <1>8, <2>2, <3>1
    <3>3. Place(seen[c]) = k /\ Place(seen[c])' = k
      BY <2>2, <3>1, <3>2, <1>5 DEF Place
    <3> QED
      BY <3>3, <3>1
  <2> QED
    BY <2>1, <2>2, <1>6
<1>9. CASE items # <<>> /\ seen'[c] = Head(items) /\ UNCHANGED accepted
  <2>1. /\ g \in Nat /\ g + 1 \in 1 .. Len(accepted) /\ Head(items) = accepted[g + 1]
        /\ Shown(items, accepted) = g + 1
    BY <1>1, <1>9, FirstItem
  <2> HIDE DEF g
  <2>2. Place(seen[c])' = g + 1
    <3>1. seen'[c] = accepted'[g + 1]
      BY <1>9, <2>1
    <3> QED
      BY <3>1, <2>1, <1>5 DEF Place
  <2>3. CASE seen[c] = NoMessage
    BY <2>1, <2>2, <2>3 DEF Place
  <2>4. ASSUME NEW k \in 1 .. Shown(items, accepted), accepted[k] = seen[c]
        PROVE  Place(seen[c]) <= Place(seen[c])'
    <3>1. k \in 1 .. Len(accepted) /\ k <= g + 1
      BY <1>7, <2>1
    <3>2. Place(seen[c]) = k
      BY <2>4, <3>1, <1>5
    <3> QED
      BY <2>2, <3>1, <3>2
  <2> QED
    BY <2>3, <2>4, <1>6
<1> QED
  BY <1>8, <1>9, SeenStep

\* The members of the queue and of the semaphore stay in their ranges, and
\* the pushes that are pending are those that wait.
THEOREM TypeCorrect == Spec => []TypeOK
BY Invariance, TypesHold, PTL

\* Whatever tasks and interrupt do at once, what a push is answered is what
\* becomes of its message, and messages come out once and in order.
THEOREM DeliveryIsExact == Spec => []ExactlyOnceInOrder
BY Invariance, OnceInOrder, PTL

\* No permit is acquired twice, and none is lost below the largest count.
THEOREM PermitsAreAccounted == Spec => []PermitsAccounted
<1>1. IInv => PermitsAccounted
  BY DEF IInv, SemaphoreInv
<1> QED
  BY Invariance, <1>1, PTL

\* No reader of a queue or message slot is shown an older message than before.
THEOREM ReadersGoForward == Spec => NeverGoesBack
<1>1. IInv /\ IInv' /\ [Next]_vars =>
        [\A c \in Callers : Place(seen[c]) <= Place(seen[c])']_vars
  BY SeenForward
<1> QED
  BY Invariance, <1>1, PTL DEF Spec, NeverGoesBack

=============================================================================
