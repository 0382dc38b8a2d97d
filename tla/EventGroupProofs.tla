-------------------------- MODULE EventGroupProofs --------------------------
(***************************************************************************)
(* For any number of tasks and flags, any length of the timer's command    *)
(* queue: no task is told of an event more often than it happened, and     *)
(* what waitBits() and sync() read from the bits the kernel returns is     *)
(* what the kernel did.                                                    *)
(***************************************************************************)
EXTENDS EventGroup, FiniteSetTheorems, TLAPS

CallOK(c) ==
  \/ c = Idle
  \/ c \in [stage : {"blocked"}, wait : Waits] /\ c.wait.timeout # "none"
  \/ c \in [stage : {"returned"}, wait : Waits, ret : SUBSET AllBits, cleared : BOOLEAN]

\* A task that waits has something to wait for.
Unsatisfied(c, b) == c.stage = "blocked" => ~Satisfied(c.wait, b)

Truthful(c) ==
  c.stage = "returned" /\ c.wait.clear => (Succeeds(c.wait, c.ret) <=> c.cleared)

\* What a call that returns is about to tell its task of bit b.
Owed(c, b) ==
  IF /\ c.stage = "returned" /\ c.wait.clear
     /\ Succeeds(c.wait, c.ret) /\ b \in Told(c.wait, c.ret)
  THEN 1
  ELSE 0

IsIn(b, S) == IF b \in S THEN 1 ELSE 0

\* The commands of the timer task that will set bit b.
SetsOf(p, b) == {i \in 1 .. Len(p) : p[i].op = "set" /\ b \in p[i].mask}

\* What has been, is about to be and can still be told of a bit is covered by
\* the times it was raised.
Covered(n, c, b, bs, p, r) ==
  n + Owed(c, b) + IsIn(b, bs) + Cardinality(SetsOf(p, b)) <= r

TaskInv(c, n, bs, p, r) ==
  /\ CallOK(c) /\ Unsatisfied(c, bs) /\ Truthful(c)
  /\ \A b \in AllBits : Covered(n[b], c, b, bs, p, r[b])

Types ==
  /\ bits \subseteq AllBits
  /\ pending \in Seq(Commands) /\ Len(pending) <= TimerQueue
  /\ call = [t \in Tasks |-> call[t]]
  /\ raised \in [AllBits -> Nat]
  /\ told \in [Tasks -> [AllBits -> Nat]]
  /\ timedOut \in BOOLEAN

IInv ==
  /\ Types
  /\ \A t \in Tasks : TaskInv(call[t], told[t], bits, pending, raised)

-----------------------------------------------------------------------------
(* The timer task's commands.                                              *)

LEMMA SetsFinite ==
  ASSUME NEW p \in Seq(Commands), NEW b
  PROVE  IsFiniteSet(SetsOf(p, b)) /\ Cardinality(SetsOf(p, b)) \in Nat
<1>1. IsFiniteSet(1 .. Len(p))
  BY FS_Interval
<1>2. SetsOf(p, b) \in SUBSET (1 .. Len(p))
  BY DEF SetsOf
<1>3. IsFiniteSet(SetsOf(p, b))
  BY <1>1, <1>2, FS_Subset
<1> QED
  BY <1>3, FS_CardinalityType

LEMMA SetsAppend ==
  ASSUME NEW p \in Seq(Commands), NEW c \in Commands, NEW b
  PROVE  Cardinality(SetsOf(Append(p, c), b)) =
           Cardinality(SetsOf(p, b)) + IF c.op = "set" /\ b \in c.mask THEN 1 ELSE 0
<1> DEFINE q == Append(p, c)
<1>1. /\ Len(p) \in Nat /\ Len(q) = Len(p) + 1
      /\ \A i \in 1 .. Len(p) : q[i] = p[i]
      /\ q[Len(p) + 1] = c
  OBVIOUS
<1>2. IsFiniteSet(SetsOf(p, b)) /\ Cardinality(SetsOf(p, b)) \in Nat
  BY SetsFinite
<1> HIDE DEF q
<1>3. CASE c.op = "set" /\ b \in c.mask
  <2>1. SetsOf(q, b) = SetsOf(p, b) \cup {Len(p) + 1}
    BY <1>1, <1>3 DEF SetsOf
  <2>2. Len(p) + 1 \notin SetsOf(p, b)
    BY <1>1 DEF SetsOf
  <2> QED
    BY <1>2, <1>3, <2>1, <2>2, FS_AddElement DEF q
<1>4. CASE ~(c.op = "set" /\ b \in c.mask)
  <2>1. SetsOf(q, b) = SetsOf(p, b)
    BY <1>1, <1>4 DEF SetsOf
  <2> QED
    BY <1>2, <1>4, <2>1 DEF q
<1> QED
  BY <1>3, <1>4

LEMMA SetsTail ==
  ASSUME NEW p \in Seq(Commands), p # <<>>, NEW b
  PROVE  Cardinality(SetsOf(Tail(p), b))
           + (IF Head(p).op = "set" /\ b \in Head(p).mask THEN 1 ELSE 0)
           <= Cardinality(SetsOf(p, b))
<1> DEFINE q == Tail(p)
           S == SetsOf(p, b) \ {1}
           f == [i \in SetsOf(q, b) |-> i + 1]
<1>1. /\ Len(p) \in Nat \ {0} /\ Len(q) = Len(p) - 1 /\ Head(p) = p[1]
      /\ \A i \in 1 .. Len(q) : q[i] = p[i + 1]
      /\ q \in Seq(Commands)
  OBVIOUS
<1>2. IsFiniteSet(SetsOf(p, b)) /\ Cardinality(SetsOf(p, b)) \in Nat
  BY SetsFinite
<1>3. IsFiniteSet(S) /\ Cardinality(S) =
        Cardinality(SetsOf(p, b)) - IF 1 \in SetsOf(p, b) THEN 1 ELSE 0
  BY <1>2, FS_RemoveElement
<1>4. 1 \in SetsOf(p, b) <=> Head(p).op = "set" /\ b \in Head(p).mask
  BY <1>1 DEF SetsOf
<1> HIDE DEF q
<1>5. ASSUME NEW i \in SetsOf(q, b)
      PROVE  i \in Int /\ i + 1 \in S
  BY <1>1 DEF SetsOf
<1>6. f \in Injection(SetsOf(q, b), S)
  BY <1>5 DEF Injection, IsInjective
<1>7. Cardinality(SetsOf(q, b)) <= Cardinality(S)
  BY <1>3, <1>6, FS_Injection
<1>8. Cardinality(SetsOf(q, b)) \in Nat
  BY <1>1, SetsFinite
<1> HIDE DEF S
<1> QED
  BY <1>2, <1>3, <1>4, <1>7, <1>8 DEF q

-----------------------------------------------------------------------------
(* What a wait asks for and is answered.                                   *)

\* The kernel and the code judge the same bits alike.
LEMMA Alike ==
  ASSUME NEW w \in Waits, NEW S \in SUBSET AllBits
  PROVE  Satisfied(w, S) <=> Succeeds(w, S)
BY DEF Satisfied, Succeeds, Waits

LEMMA FewerBits ==
  ASSUME NEW w \in Waits, NEW S, NEW T \in SUBSET S, Satisfied(w, T)
  PROVE  Satisfied(w, S)
BY DEF Satisfied, Waits

LEMMA ToldOfMask ==
  ASSUME NEW w \in Waits, NEW S, Satisfied(w, S)
  PROVE  Told(w, S) \subseteq S /\ Told(w, S) \subseteq w.mask
BY DEF Satisfied, Told, Waits

LEMMA OwedTypes == \A c, b : Owed(c, b) \in {0, 1}
BY DEF Owed

LEMMA IdleTask ==
  /\ CallOK(Idle) /\ Truthful(Idle) /\ \A S : Unsatisfied(Idle, S)
  /\ \A b : Owed(Idle, b) = 0
BY DEF CallOK, Idle, Truthful, Unsatisfied, Owed

LEMMA Answered ==
  ASSUME NEW w \in Waits, NEW S \in SUBSET AllBits, NEW cleared \in BOOLEAN,
         w.clear => (Satisfied(w, S) <=> cleared)
  PROVE  LET c == Returned(w, S, cleared)
         IN  /\ CallOK(c) /\ Truthful(c) /\ \A T : Unsatisfied(c, T)
             /\ \A b : Owed(c, b) = 
                  IF w.clear /\ Satisfied(w, S) /\ b \in Told(w, S) THEN 1 ELSE 0
<1> DEFINE c == Returned(w, S, cleared)
<1>1. /\ c \in [stage : {"returned"}, wait : Waits, ret : SUBSET AllBits, cleared : BOOLEAN]
      /\ c.stage = "returned" /\ c.ret = S /\ c.cleared = cleared
      /\ c.wait.clear = w.clear /\ c.wait.mask = w.mask /\ c.wait.all = w.all
  BY DEF Returned, Waits, Timeouts
<1> HIDE DEF c
<1>2. Succeeds(c.wait, c.ret) <=> Satisfied(w, S)
  <2>1. Succeeds(c.wait, c.ret) <=> Succeeds(w, S)
    BY <1>1 DEF Succeeds
  <2> QED
    BY <2>1, Alike
<1>3. Told(c.wait, c.ret) = Told(w, S)
  BY <1>1 DEF Told
<1>4. CallOK(c)
  BY <1>1 DEF CallOK
<1>5. Truthful(c)
  BY <1>1, <1>2 DEF Truthful
<1>6. \A T : Unsatisfied(c, T)
  BY <1>1 DEF Unsatisfied
<1>7. \A b : Owed(c, b) = 
        IF w.clear /\ Satisfied(w, S) /\ b \in Told(w, S) THEN 1 ELSE 0
  BY <1>1, <1>2, <1>3 DEF Owed
<1> QED
  BY <1>4, <1>5, <1>6, <1>7 DEF c

LEMMA Asked ==
  ASSUME NEW w \in Waits, NEW S \in SUBSET AllBits, ~Satisfied(w, S)
  PROVE  LET c == Wait(w, S)
         IN  /\ CallOK(c) /\ Truthful(c) /\ Unsatisfied(c, S)
             /\ \A b : Owed(c, b) = 0
<1>1. CASE w.timeout = "none"
  BY <1>1, Answered DEF Wait
<1>2. CASE w.timeout # "none"
  BY <1>2 DEF Wait, Blocked, CallOK, Truthful, Unsatisfied, Owed
<1> QED
  BY <1>1, <1>2

-----------------------------------------------------------------------------
(* Raising bits.                                                           *)

LEMMA InTypes == \A b, S : IsIn(b, S) \in {0, 1}
BY DEF IsIn

\* What a released task is to be told leaves the group with it.
LEMMA WokenStep ==
  ASSUME \A t \in Tasks : CallOK(call[t]) /\ Truthful(call[t]),
         NEW seen \in SUBSET AllBits, NEW t \in Tasks
  PROVE  LET c == Woken(seen)[t]
             left == seen \ ClearedBy(seen)
         IN  /\ CallOK(c) /\ Truthful(c) /\ Unsatisfied(c, left)
             /\ \A b : Owed(c, b) + IsIn(b, left) <= Owed(call[t], b) + IsIn(b, seen)
<1> DEFINE c == Woken(seen)[t]
           left == seen \ ClearedBy(seen)
           w == call[t].wait
<1>1. left \subseteq seen
  OBVIOUS
<1>2. \A b : IsIn(b, left) <= IsIn(b, seen)
  BY <1>1 DEF IsIn
<1>3. CASE t \in ReleasedBy(seen)
  <2>1. c = Returned(w, seen, w.clear)
    BY <1>3 DEF Woken
  <2>2. call[t].stage = "blocked" /\ Satisfied(w, seen)
    BY <1>3 DEF ReleasedBy
  <2>3. w \in Waits /\ w.clear \in BOOLEAN
    BY <2>2 DEF CallOK, Waits, Idle
  <2>4. \A b : Owed(call[t], b) = 0
    BY <2>2 DEF Owed
  <2>5. w.clear => w.mask \subseteq ClearedBy(seen)
    BY <1>3 DEF ClearedBy
  <2>6. Told(w, seen) \subseteq w.mask
    BY <2>2, <2>3, ToldOfMask
  <2>7. Told(w, seen) \subseteq seen
    BY <2>2, <2>3, ToldOfMask
  <2> HIDE DEF w, c
  <2>8. /\ CallOK(c) /\ Truthful(c) /\ Unsatisfied(c, left)
        /\ \A b : Owed(c, b) = 
             IF w.clear /\ Satisfied(w, seen) /\ b \in Told(w, seen) THEN 1 ELSE 0
    BY <2>1, <2>2, <2>3, Answered
  <2>9. ASSUME NEW b
        PROVE  Owed(c, b) + IsIn(b, left) <= Owed(call[t], b) + IsIn(b, seen)
    <3>1. CASE w.clear /\ b \in Told(w, seen)
      <4>1. b \in seen /\ b \notin left
        BY <3>1, <2>5, <2>6, <2>7
      <4> HIDE DEF left
      <4>2. IsIn(b, seen) = 1 /\ IsIn(b, left) = 0
        BY <4>1 DEF IsIn
      <4> QED
        BY <4>2, <2>4, <2>8
    <3>2. CASE ~(w.clear /\ b \in Told(w, seen))
      <4>1. Owed(c, b) = 0
        BY <3>2, <2>8
      <4> HIDE DEF left
      <4> QED
        BY <4>1, <2>4, <1>2, InTypes
    <3> QED
      BY <3>1, <3>2
  <2> QED
    BY <2>8, <2>9 DEF c
<1>4. CASE t \notin ReleasedBy(seen)
  <2>1. c = call[t]
    BY <1>4 DEF Woken
  <2>2. Unsatisfied(c, left)
    <3>1. ASSUME c.stage = "blocked"
          PROVE  ~Satisfied(c.wait, left)
      <4>1. ~Satisfied(c.wait, seen)
        BY <1>4, <2>1, <3>1 DEF ReleasedBy
      <4>2. c.wait \in Waits
        BY <2>1, <3>1 DEF CallOK, Idle
      <4> QED
        BY <4>1, <4>2, <1>1, FewerBits
    <3> QED
      BY <3>1 DEF Unsatisfied
  <2> HIDE DEF c, left
  <2>3. \A b : Owed(c, b) + IsIn(b, left) <= Owed(call[t], b) + IsIn(b, seen)
    BY <2>1, <1>2, OwedTypes, InTypes
  <2> QED
    BY <2>1, <2>2, <2>3 DEF c, left
<1> QED
  BY <1>3, <1>4

-----------------------------------------------------------------------------
(* The steps.                                                              *)

LEMMA Sums ==
  ASSUME NEW n \in Nat, NEW old \in Nat, NEW new \in Nat, NEW k \in Nat, NEW k2 \in Nat,
         NEW m \in Nat, NEW r \in Nat, NEW r2 \in Nat,
         new <= old + m, m + k2 + r <= k + r2
  PROVE  n + new + k2 + r <= n + old + k + r2
OBVIOUS

\* A step keeps a task's part of the invariant when the balance of every bit
\* does not fall.
LEMMA Balance ==
  ASSUME NEW c, NEW n \in [AllBits -> Nat], NEW bs, NEW p \in Seq(Commands),
         NEW r \in [AllBits -> Nat], TaskInv(c, n, bs, p, r),
         NEW c2, NEW n2 \in [AllBits -> Nat], NEW bs2, NEW p2 \in Seq(Commands),
         NEW r2 \in [AllBits -> Nat],
         CallOK(c2), Truthful(c2), Unsatisfied(c2, bs2),
         \A b \in AllBits :
           n2[b] + Owed(c2, b) + IsIn(b, bs2) + Cardinality(SetsOf(p2, b)) + r[b]
             <= n[b] + Owed(c, b) + IsIn(b, bs) + Cardinality(SetsOf(p, b)) + r2[b]
  PROVE  TaskInv(c2, n2, bs2, p2, r2)
<1>1. ASSUME NEW b \in AllBits
      PROVE  Covered(n2[b], c2, b, bs2, p2, r2[b])
  <2>1. Covered(n[b], c, b, bs, p, r[b])
    BY DEF TaskInv
  <2>2. /\ Owed(c, b) \in Nat /\ Owed(c2, b) \in Nat
        /\ IsIn(b, bs) \in Nat /\ IsIn(b, bs2) \in Nat
    BY DEF Owed, IsIn
  <2>3. Cardinality(SetsOf(p, b)) \in Nat /\ Cardinality(SetsOf(p2, b)) \in Nat
    BY SetsFinite
  <2>4. n[b] \in Nat /\ n2[b] \in Nat /\ r[b] \in Nat /\ r2[b] \in Nat
    OBVIOUS
  <2>5. n2[b] + Owed(c2, b) + IsIn(b, bs2) + Cardinality(SetsOf(p2, b)) + r[b]
          <= n[b] + Owed(c, b) + IsIn(b, bs) + Cardinality(SetsOf(p, b)) + r2[b]
    OBVIOUS
  <2> QED
    BY ONLY <2>1, <2>2, <2>3, <2>4, <2>5 DEF Covered
<1> QED
  BY <1>1 DEF TaskInv

\* Taking bits away changes nothing else.
LEMMA Shrink ==
  ASSUME NEW c, NEW n \in [AllBits -> Nat], NEW bs, NEW p \in Seq(Commands),
         NEW r \in [AllBits -> Nat], TaskInv(c, n, bs, p, r), NEW bs2 \in SUBSET bs
  PROVE  TaskInv(c, n, bs2, p, r)
<1>1. CallOK(c) /\ Truthful(c) /\ Unsatisfied(c, bs)
  BY DEF TaskInv
<1>2. Unsatisfied(c, bs2)
  <2>1. c.stage = "blocked" => c.wait \in Waits
    BY <1>1 DEF CallOK, Idle
  <2> QED
    BY <1>1, <2>1, FewerBits DEF Unsatisfied
<1>3. ASSUME NEW b \in AllBits
      PROVE  n[b] + Owed(c, b) + IsIn(b, bs2) + Cardinality(SetsOf(p, b)) + r[b]
               <= n[b] + Owed(c, b) + IsIn(b, bs) + Cardinality(SetsOf(p, b)) + r[b]
  <2>1. IsIn(b, bs2) <= IsIn(b, bs)
    BY DEF IsIn
  <2>2. Owed(c, b) \in Nat /\ IsIn(b, bs) \in Nat /\ IsIn(b, bs2) \in Nat
    BY DEF Owed, IsIn
  <2>3. Cardinality(SetsOf(p, b)) \in Nat
    BY SetsFinite
  <2> QED
    BY <2>1, <2>2, <2>3
<1> QED
  BY <1>1, <1>2, <1>3, Balance

LEMMA InitInv == Init => IInv
<1> SUFFICES ASSUME Init
             PROVE  IInv
  OBVIOUS
<1>1. Types
  <2>1. bits \subseteq AllBits /\ call = [t \in Tasks |-> call[t]] /\ timedOut \in BOOLEAN
    BY DEF Init
  <2>2. pending \in Seq(Commands) /\ Len(pending) <= TimerQueue
    BY EventGroupAssumption DEF Init
  <2>3. raised \in [AllBits -> Nat]
    BY DEF Init
  <2>4. told \in [Tasks -> [AllBits -> Nat]]
    BY DEF Init
  <2> QED
    BY <2>1, <2>2, <2>3, <2>4 DEF Types
<1>2. ASSUME NEW t \in Tasks
      PROVE  TaskInv(call[t], told[t], bits, pending, raised)
  <2>1. call[t] = Idle
    BY DEF Init
  <2>2. ASSUME NEW b \in AllBits
        PROVE  Covered(told[t][b], call[t], b, bits, pending, raised[b])
    <3>1. SetsOf(pending, b) = {}
      BY DEF Init, SetsOf
    <3>2. Cardinality(SetsOf(pending, b)) = 0
      BY <3>1, FS_EmptySet
    <3>3. Owed(call[t], b) = 0
      BY <2>1, IdleTask
    <3> QED
      BY <3>2, <3>3 DEF Init, Covered, IsIn
  <2> QED
    BY <2>1, <2>2, IdleTask DEF TaskInv
<1> QED
  BY <1>1, <1>2 DEF IInv

LEMMA Sane ==
  ASSUME IInv
  PROVE  /\ bits \in SUBSET AllBits /\ pending \in Seq(Commands)
         /\ raised \in [AllBits -> Nat]
         /\ \A t \in Tasks : told[t] \in [AllBits -> Nat]
         /\ \A t \in Tasks : /\ CallOK(call[t]) /\ Truthful(call[t])
                             /\ Unsatisfied(call[t], bits)
BY DEF IInv, Types, TaskInv

\* Raising bits that are counted, or whose command leaves the timer's queue.
LEMMA RaiseStep ==
  ASSUME IInv, NEW mask \in SUBSET AllBits,
         NEW p2 \in Seq(Commands), NEW r2 \in [AllBits -> Nat],
         \A b \in AllBits :
           (IF b \in mask THEN 1 ELSE 0) + Cardinality(SetsOf(p2, b)) + raised[b]
             <= Cardinality(SetsOf(pending, b)) + r2[b],
         NEW t \in Tasks
  PROVE  LET seen == bits \cup mask
         IN  TaskInv(Woken(seen)[t], told[t], seen \ ClearedBy(seen), p2, r2)
<1> DEFINE seen == bits \cup mask
           c == Woken(seen)[t]
           left == seen \ ClearedBy(seen)
<1>1. seen \in SUBSET AllBits
  BY Sane
<1>2. /\ CallOK(c) /\ Truthful(c) /\ Unsatisfied(c, left)
      /\ \A b : Owed(c, b) + IsIn(b, left) <= Owed(call[t], b) + IsIn(b, seen)
  BY <1>1, Sane, WokenStep
<1>3. \A b : IsIn(b, seen) <= IsIn(b, bits) + IF b \in mask THEN 1 ELSE 0
  BY DEF IsIn
<1>4. TaskInv(call[t], told[t], bits, pending, raised)
  BY DEF IInv
<1> HIDE DEF seen, c, left
<1>5. ASSUME NEW b \in AllBits
      PROVE  told[t][b] + Owed(c, b) + IsIn(b, left) + Cardinality(SetsOf(p2, b)) + raised[b]
               <= told[t][b] + Owed(call[t], b) + IsIn(b, bits)
                    + Cardinality(SetsOf(pending, b)) + r2[b]
  <2> DEFINE m == IF b \in mask THEN 1 ELSE 0
  <2>1. Owed(c, b) + IsIn(b, left) <= Owed(call[t], b) + IsIn(b, seen)
    BY <1>2
  <2>2. IsIn(b, seen) <= IsIn(b, bits) + m
    BY <1>3
  <2>3. m + Cardinality(SetsOf(p2, b)) + raised[b]
          <= Cardinality(SetsOf(pending, b)) + r2[b]
    OBVIOUS
  <2>4. /\ Owed(c, b) \in Nat /\ Owed(call[t], b) \in Nat
        /\ IsIn(b, bits) \in Nat /\ IsIn(b, seen) \in Nat /\ IsIn(b, left) \in Nat
    BY DEF Owed, IsIn
  <2>5. Cardinality(SetsOf(p2, b)) \in Nat /\ Cardinality(SetsOf(pending, b)) \in Nat
    BY Sane, SetsFinite
  <2>6. told[t][b] \in Nat /\ raised[b] \in Nat /\ r2[b] \in Nat
    BY Sane
  <2>7. m \in Nat
    OBVIOUS
  <2> HIDE DEF m
  <2>8. Owed(c, b) + IsIn(b, left) <= Owed(call[t], b) + IsIn(b, bits) + m
    BY ONLY <2>1, <2>2, <2>4, <2>7
  <2> DEFINE old == Owed(call[t], b) + IsIn(b, bits)
             new == Owed(c, b) + IsIn(b, left)
             k == Cardinality(SetsOf(pending, b))
             k2 == Cardinality(SetsOf(p2, b))
  <2>9. old \in Nat /\ new \in Nat /\ k \in Nat /\ k2 \in Nat /\ new <= old + m
    BY ONLY <2>4, <2>5, <2>7, <2>8
  <2>10. m + k2 + raised[b] <= k + r2[b]
    BY <2>3
  <2> HIDE DEF old, new, k, k2
  <2>11. told[t][b] + new + k2 + raised[b] <= told[t][b] + old + k + r2[b]
    BY ONLY <2>6, <2>7, <2>9, <2>10, Sums
  <2> QED
    BY ONLY <2>4, <2>5, <2>6, <2>11 DEF old, new, k, k2
<1>6. TaskInv(c, told[t], left, p2, r2)
  BY <1>2, <1>4, <1>5, Sane, Balance
<1> QED
  BY <1>6 DEF seen, c, left

\* Taking bits away releases nobody and takes what is still to be told.
LEMMA ClearStep ==
  ASSUME IInv, NEW bs \in SUBSET bits, NEW p2 \in Seq(Commands),
         \A b \in AllBits : Cardinality(SetsOf(p2, b)) <= Cardinality(SetsOf(pending, b)),
         NEW t \in Tasks
  PROVE  TaskInv(call[t], told[t], bs, p2, raised)
<1>1. TaskInv(call[t], told[t], bits, pending, raised)
  BY DEF IInv
<1>2. CallOK(call[t]) /\ Truthful(call[t]) /\ Unsatisfied(call[t], bits)
  BY Sane
<1>3. Unsatisfied(call[t], bs)
  <2>1. call[t].stage = "blocked" => call[t].wait \in Waits
    BY <1>2 DEF CallOK, Idle
  <2> QED
    BY <1>2, <2>1, FewerBits DEF Unsatisfied
<1>4. ASSUME NEW b \in AllBits
      PROVE  told[t][b] + Owed(call[t], b) + IsIn(b, bs) + Cardinality(SetsOf(p2, b)) + raised[b]
               <= told[t][b] + Owed(call[t], b) + IsIn(b, bits)
                    + Cardinality(SetsOf(pending, b)) + raised[b]
  <2>1. IsIn(b, bs) <= IsIn(b, bits)
    BY DEF IsIn
  <2>2. Owed(call[t], b) \in Nat /\ IsIn(b, bits) \in Nat /\ IsIn(b, bs) \in Nat
    BY DEF Owed, IsIn
  <2>3. Cardinality(SetsOf(p2, b)) \in Nat /\ Cardinality(SetsOf(pending, b)) \in Nat
    BY Sane, SetsFinite
  <2>4. told[t][b] \in Nat /\ raised[b] \in Nat
    BY Sane
  <2>5. Cardinality(SetsOf(p2, b)) <= Cardinality(SetsOf(pending, b))
    OBVIOUS
  <2> QED
    BY ONLY <2>1, <2>2, <2>3, <2>4, <2>5
<1> QED
  BY <1>1, <1>2, <1>3, <1>4, Sane, Balance

\* The same when only the call of one task changes.
LEMMA OneCallStep ==
  ASSUME IInv, NEW t \in Tasks, NEW c, NEW n \in [AllBits -> Nat], NEW bs \in SUBSET bits,
         CallOK(c), Truthful(c), Unsatisfied(c, bs),
         \A b \in AllBits :
           n[b] + Owed(c, b) + IsIn(b, bs)
             <= told[t][b] + Owed(call[t], b) + IsIn(b, bits)
  PROVE  TaskInv(c, n, bs, pending, raised)
<1>1. TaskInv(call[t], told[t], bits, pending, raised)
  BY DEF IInv
<1>2. ASSUME NEW b \in AllBits
      PROVE  n[b] + Owed(c, b) + IsIn(b, bs) + Cardinality(SetsOf(pending, b)) + raised[b]
               <= told[t][b] + Owed(call[t], b) + IsIn(b, bits)
                    + Cardinality(SetsOf(pending, b)) + raised[b]
  <2>1. n[b] + Owed(c, b) + IsIn(b, bs) <= told[t][b] + Owed(call[t], b) + IsIn(b, bits)
    OBVIOUS
  <2>2. /\ Owed(call[t], b) \in Nat /\ Owed(c, b) \in Nat
        /\ IsIn(b, bits) \in Nat /\ IsIn(b, bs) \in Nat
    BY DEF Owed, IsIn
  <2>3. Cardinality(SetsOf(pending, b)) \in Nat
    BY Sane, SetsFinite
  <2>4. told[t][b] \in Nat /\ raised[b] \in Nat /\ n[b] \in Nat
    BY Sane
  <2> QED
    BY ONLY <2>1, <2>2, <2>3, <2>4
<1> QED
  BY <1>1, <1>2, Sane, Balance

-----------------------------------------------------------------------------
LEMMA WaitBitsStep ==
  ASSUME IInv, NEW t \in Tasks, NEW w \in Waits, WaitBits(t, w)
  PROVE  IInv'
<1>1. /\ bits \in SUBSET AllBits
      /\ Types
      /\ \A u \in Tasks : TaskInv(call[u], told[u], bits, pending, raised)
      /\ told[t] \in [AllBits -> Nat]
  BY Sane DEF IInv
<1>2. UNCHANGED <<pending, raised, told, timedOut>> /\ call[t] = Idle
  BY DEF WaitBits
<1>3. \A b : Owed(call[t], b) = 0
  BY <1>2, IdleTask
<1>4. ASSUME NEW c, call' = [call EXCEPT ![t] = c], bits' \in SUBSET bits,
             CallOK(c), Truthful(c), Unsatisfied(c, bits'),
             \A b \in AllBits : Owed(c, b) + IsIn(b, bits') <= IsIn(b, bits)
      PROVE  IInv'
  <2>1. Types'
    BY <1>1, <1>2, <1>4 DEF Types
  <2>2. ASSUME NEW u \in Tasks
        PROVE  TaskInv(call[u], told[u], bits, pending, raised)'
    <3>1. CASE u = t
      <4>1. call'[u] = c
        BY <1>1, <1>4, <3>1 DEF Types
      <4>2. \A b \in AllBits : told[t][b] + Owed(c, b) + IsIn(b, bits')
                                 <= told[t][b] + Owed(call[t], b) + IsIn(b, bits)
        BY <1>1, <1>3, <1>4 DEF Owed, IsIn
      <4>3. TaskInv(c, told[t], bits', pending, raised)
        BY <1>1, <1>4, <4>2, OneCallStep
      <4> QED
        BY <4>1, <4>3, <1>2, <3>1
    <3>2. CASE u # t
      <4>1. call'[u] = call[u]
        BY <1>1, <1>4, <3>2 DEF Types
      <4>2. \A b \in AllBits : Cardinality(SetsOf(pending, b)) <= Cardinality(SetsOf(pending, b))
        BY Sane, SetsFinite
      <4>3. TaskInv(call[u], told[u], bits', pending, raised)
        BY <1>1, <1>4, <4>2, Sane, ClearStep
      <4> QED
        BY <4>1, <4>3, <1>2
    <3> QED
      BY <3>1, <3>2
  <2> QED
    BY <2>1, <2>2 DEF IInv
<1>5. CASE Satisfied(w, bits)
  <2> DEFINE c == Returned(w, bits, w.clear)
  <2>1. /\ call' = [call EXCEPT ![t] = c]
        /\ bits' = IF w.clear THEN bits \ w.mask ELSE bits
    BY <1>5 DEF WaitBits
  <2>2. /\ CallOK(c) /\ Truthful(c) /\ Unsatisfied(c, bits')
        /\ \A b : Owed(c, b) = IF w.clear /\ b \in Told(w, bits) THEN 1 ELSE 0
    BY <1>1, <1>5, Answered DEF Waits
  <2>3. Told(w, bits) \subseteq bits /\ Told(w, bits) \subseteq w.mask
    BY <1>5, ToldOfMask
  <2> HIDE DEF c
  <2>4. \A b \in AllBits : Owed(c, b) + IsIn(b, bits') <= IsIn(b, bits)
    BY <2>1, <2>2, <2>3 DEF IsIn
  <2> QED
    BY <1>4, <2>1, <2>2, <2>4
<1>6. CASE ~Satisfied(w, bits)
  <2>1. call' = [call EXCEPT ![t] = Wait(w, bits)] /\ bits' = bits
    BY <1>6 DEF WaitBits
  <2>2. /\ CallOK(Wait(w, bits)) /\ Truthful(Wait(w, bits)) /\ Unsatisfied(Wait(w, bits), bits)
        /\ \A b : Owed(Wait(w, bits), b) = 0
    BY <1>1, <1>6, Asked
  <2>3. \A b \in AllBits : Owed(Wait(w, bits), b) + IsIn(b, bits') <= IsIn(b, bits)
    BY <2>1, <2>2 DEF IsIn
  <2> QED
    BY <1>4, <2>1, <2>2, <2>3
<1> QED
  BY <1>5, <1>6

LEMMA CountStep ==
  ASSUME IInv, NEW mask \in SUBSET AllBits, Count(mask)
  PROVE  /\ raised' \in [AllBits -> Nat]
         /\ \A b \in AllBits : raised'[b] = raised[b] + IF b \in mask THEN 1 ELSE 0
<1>1. raised \in [AllBits -> Nat]
  BY Sane
<1> QED
  BY <1>1 DEF Count

LEMMA MeetingWaits ==
  ASSUME NEW t \in Tasks, NEW timeout \in Timeouts
  PROVE  Meeting(timeout) \in Waits
BY DEF Meeting, Waits, AllBits

LEMMA SyncStep ==
  ASSUME IInv, NEW t \in Tasks, NEW timeout \in Timeouts, Sync(t, timeout)
  PROVE  IInv'
<1> DEFINE w == Meeting(timeout)
           seen == bits \cup {t}
           left == seen \ ClearedBy(seen)
<1>1. /\ bits \in SUBSET AllBits /\ {t} \in SUBSET AllBits /\ seen \in SUBSET AllBits
      /\ left \subseteq seen
  BY Sane DEF AllBits
<1>2. w \in Waits /\ w.clear = TRUE /\ w.all = TRUE /\ w.mask = Tasks
  BY MeetingWaits DEF Meeting
<1>3. UNCHANGED <<pending, told, timedOut>> /\ Count({t}) /\ call[t] = Idle
  BY DEF Sync
<1>4. /\ raised' \in [AllBits -> Nat]
      /\ \A b \in AllBits : raised'[b] = raised[b] + IF b \in {t} THEN 1 ELSE 0
  BY <1>1, <1>3, CountStep
<1>5. \A u \in Tasks : TaskInv(Woken(seen)[u], told[u], left, pending, raised')
  <2>1. \A b \in AllBits : (IF b \in {t} THEN 1 ELSE 0) + Cardinality(SetsOf(pending, b)) + raised[b]
                             <= Cardinality(SetsOf(pending, b)) + raised'[b]
    BY <1>4, Sane, SetsFinite
  <2> QED
    BY <1>1, <1>4, <2>1, Sane, RaiseStep
<1>6. Woken(seen) = [u \in Tasks |-> Woken(seen)[u]]
  BY DEF Woken

<1> HIDE DEF w, seen, left
<1>7. ASSUME NEW c, call' = [Woken(seen) EXCEPT ![t] = c], bits' \in SUBSET left,
             CallOK(c), Truthful(c), Unsatisfied(c, bits'),
             \A b \in AllBits : Owed(c, b) + IsIn(b, bits') <= IsIn(b, seen)
      PROVE  IInv'
  <2>1. Types'
    <3>1. call' = [u \in Tasks |-> call'[u]]
      BY <1>6, <1>7
    <3>2. bits' \in SUBSET AllBits
      BY <1>1, <1>7
    <3> QED
      BY <1>3, <1>4, <3>1, <3>2 DEF Types, IInv
  <2>2. ASSUME NEW u \in Tasks
        PROVE  TaskInv(call[u], told[u], bits, pending, raised)'
    <3>1. CASE u = t
      <4>1. call'[u] = c
        BY <1>6, <1>7, <3>1
      <4>2. TaskInv(call[t], told[t], bits, pending, raised)
        BY DEF IInv
      <4>3. \A b : Owed(call[t], b) = 0
        BY <1>3, IdleTask
      <4>4. ASSUME NEW b \in AllBits
            PROVE  told[t][b] + Owed(c, b) + IsIn(b, bits') + Cardinality(SetsOf(pending, b)) + raised[b]
                     <= told[t][b] + Owed(call[t], b) + IsIn(b, bits)
                          + Cardinality(SetsOf(pending, b)) + raised'[b]
        <5>1. Owed(c, b) + IsIn(b, bits') <= IsIn(b, seen)
          BY <1>7
        <5>2. IsIn(b, seen) + raised[b] <= IsIn(b, bits) + raised'[b]
          <6>1. raised[b] \in Nat
            BY Sane
          <6> QED
            BY <6>1, <1>4 DEF IsIn, seen
        <5>3. /\ Owed(c, b) \in Nat /\ Owed(call[t], b) = 0
              /\ IsIn(b, bits) \in Nat /\ IsIn(b, bits') \in Nat /\ IsIn(b, seen) \in Nat
          BY <4>3 DEF Owed, IsIn
        <5>4. Cardinality(SetsOf(pending, b)) \in Nat
          BY Sane, SetsFinite
        <5>5. told[t][b] \in Nat /\ raised[b] \in Nat /\ raised'[b] \in Nat
          BY Sane, <1>4
        <5> QED
          BY ONLY <5>1, <5>2, <5>3, <5>4, <5>5
      <4>5. TaskInv(c, told[t], bits', pending, raised')
        BY <1>4, <1>7, <4>2, <4>4, Sane, Balance
      <4> QED
        BY <4>1, <4>5, <1>3, <3>1
    <3>2. CASE u # t
      <4>1. call'[u] = Woken(seen)[u]
        BY <1>6, <1>7, <3>2
      <4>2. TaskInv(Woken(seen)[u], told[u], left, pending, raised')
        BY <1>5
      <4>3. TaskInv(Woken(seen)[u], told[u], bits', pending, raised')
        BY <1>4, <1>7, <4>2, Sane, Shrink
      <4> QED
        BY <4>1, <4>3, <1>3
    <3> QED
      BY <3>1, <3>2
  <2> QED
    BY <2>1, <2>2 DEF IInv
<1>8. CASE Tasks \subseteq seen
  <2> DEFINE c == Returned(w, seen, TRUE)
  <2>1. bits' = left \ Tasks /\ call' = [Woken(seen) EXCEPT ![t] = c]
    BY <1>2, <1>8 DEF Sync, seen, left, w
  <2>2. Satisfied(w, seen)
    BY <1>2, <1>8 DEF Satisfied
  <2>3. /\ CallOK(c) /\ Truthful(c) /\ Unsatisfied(c, bits')
        /\ \A b : Owed(c, b) = IF b \in Told(w, seen) THEN 1 ELSE 0
    BY <1>1, <1>2, <2>2, Answered
  <2>4. Told(w, seen) = Tasks
    BY <1>2 DEF Told
  <2> HIDE DEF c
  <2>5. \A b \in AllBits : Owed(c, b) + IsIn(b, bits') <= IsIn(b, seen)
    BY <1>1, <1>8, <2>1, <2>3, <2>4 DEF IsIn
  <2> QED
    BY <1>7, <2>1, <2>3, <2>5
<1>9. CASE ~(Tasks \subseteq seen)
  <2>1. bits' = left /\ call' = [Woken(seen) EXCEPT ![t] = Wait(w, left)]
    BY <1>2, <1>9 DEF Sync, seen, left, w
  <2>2. ~Satisfied(w, left) /\ left \in SUBSET AllBits
    BY <1>1, <1>2, <1>9 DEF Satisfied
  <2>3. /\ CallOK(Wait(w, left)) /\ Truthful(Wait(w, left)) /\ Unsatisfied(Wait(w, left), left)
        /\ \A b : Owed(Wait(w, left), b) = 0
    BY <1>2, <2>2, Asked
  <2>4. \A b \in AllBits : Owed(Wait(w, left), b) + IsIn(b, bits') <= IsIn(b, seen)
    BY <1>1, <2>1, <2>3 DEF IsIn
  <2> QED
    BY <1>7, <2>1, <2>3, <2>4
<1> QED
  BY <1>8, <1>9

LEMMA SetBitsStep ==
  ASSUME IInv, NEW mask \in Masks, SetBits(mask)
  PROVE  IInv'
<1> DEFINE seen == bits \cup mask
<1>1. mask \in SUBSET AllBits /\ bits \in SUBSET AllBits /\ Types
  BY Sane DEF Masks, AllBits, IInv
<1>2. /\ bits' = seen \ ClearedBy(seen) /\ call' = Woken(seen)
      /\ UNCHANGED <<pending, told, timedOut>> /\ Count(mask)
  BY DEF SetBits, Raise
<1>3. /\ raised' \in [AllBits -> Nat]
      /\ \A b \in AllBits : raised'[b] = raised[b] + IF b \in mask THEN 1 ELSE 0
  BY <1>1, <1>2, CountStep
<1>4. Types'
  <2>1. call' = [u \in Tasks |-> call'[u]]
    BY <1>2 DEF Woken
  <2> QED
    BY <1>1, <1>2, <1>3, <2>1 DEF Types
<1>5. \A b \in AllBits : (IF b \in mask THEN 1 ELSE 0) + Cardinality(SetsOf(pending, b)) + raised[b]
                           <= Cardinality(SetsOf(pending, b)) + raised'[b]
  BY <1>3, Sane, SetsFinite
<1>6. ASSUME NEW t \in Tasks
      PROVE  TaskInv(call[t], told[t], bits, pending, raised)'
  BY <1>1, <1>2, <1>3, <1>5, Sane, RaiseStep
<1> QED
  BY <1>4, <1>6 DEF IInv

LEMMA ClearBitsStep ==
  ASSUME IInv, NEW mask \in Masks, ClearBits(mask)
  PROVE  IInv'
<1>1. bits' \in SUBSET bits /\ UNCHANGED <<pending, call, raised, told, timedOut>>
  BY DEF ClearBits
<1>2. Types'
  BY <1>1 DEF IInv, Types
<1>3. ASSUME NEW t \in Tasks
      PROVE  TaskInv(call[t], told[t], bits, pending, raised)'
  <2>1. TaskInv(call[t], told[t], bits, pending, raised)
    BY DEF IInv
  <2>2. TaskInv(call[t], told[t], bits', pending, raised)
    BY <1>1, <2>1, Sane, Shrink
  <2> QED
    BY <1>1, <2>2
<1> QED
  BY <1>2, <1>3 DEF IInv

\* A command that is queued is one the bits it sets are counted for.
LEMMA QueueStep ==
  ASSUME IInv, NEW command \in Commands, Len(pending) < TimerQueue,
         pending' = Append(pending, command),
         raised' \in [AllBits -> Nat],
         \A b \in AllBits :
           raised[b] + (IF command.op = "set" /\ b \in command.mask THEN 1 ELSE 0) <= raised'[b],
         UNCHANGED <<bits, call, told, timedOut>>
  PROVE  IInv'
<1>1. Len(pending') <= TimerQueue /\ pending' \in Seq(Commands)
  BY EventGroupAssumption, Sane
<1>2. Types'
  BY <1>1 DEF IInv, Types
<1>3. ASSUME NEW t \in Tasks
      PROVE  TaskInv(call[t], told[t], bits, pending, raised)'
  <2>1. TaskInv(call[t], told[t], bits, pending, raised)
    BY DEF IInv
  <2>2. ASSUME NEW b \in AllBits
        PROVE  told[t][b] + Owed(call[t], b) + IsIn(b, bits) + Cardinality(SetsOf(pending', b)) + raised[b]
                 <= told[t][b] + Owed(call[t], b) + IsIn(b, bits)
                      + Cardinality(SetsOf(pending, b)) + raised'[b]
    <3> DEFINE m == IF command.op = "set" /\ b \in command.mask THEN 1 ELSE 0
    <3>1. Cardinality(SetsOf(pending', b)) = Cardinality(SetsOf(pending, b)) + m
      BY Sane, SetsAppend
    <3>2. raised[b] + m <= raised'[b]
      OBVIOUS
    <3>3. m \in Nat /\ Owed(call[t], b) \in Nat /\ IsIn(b, bits) \in Nat
      BY DEF Owed, IsIn
    <3>4. Cardinality(SetsOf(pending, b)) \in Nat
      BY Sane, SetsFinite
    <3>5. told[t][b] \in Nat /\ raised[b] \in Nat /\ raised'[b] \in Nat
      BY Sane
    <3> HIDE DEF m
    <3> QED
      BY ONLY <3>1, <3>2, <3>3, <3>4, <3>5
  <2>3. TaskInv(call[t], told[t], bits, pending', raised')
    BY <1>1, <2>1, <2>2, Sane, Balance
  <2> QED
    BY <2>3
<1> QED
  BY <1>2, <1>3 DEF IInv

LEMMA SetBitsFromIsrStep ==
  ASSUME IInv, NEW mask \in Masks, SetBitsFromIsr(mask)
  PROVE  IInv'
<1> DEFINE command == [op |-> "set", mask |-> mask]
<1>1. mask \in SUBSET AllBits
  BY DEF Masks, AllBits
<1>2. UNCHANGED <<bits, call, told, timedOut>>
  BY DEF SetBitsFromIsr
<1>3. CASE Len(pending) < TimerQueue
  <2>1. pending' = Append(pending, command) /\ Count(mask)
    BY <1>3 DEF SetBitsFromIsr
  <2>2. command \in Commands /\ command.op = "set" /\ command.mask = mask
    BY DEF Commands
  <2> HIDE DEF command
  <2>3. /\ raised' \in [AllBits -> Nat]
        /\ \A b \in AllBits : raised'[b] = raised[b] + IF b \in mask THEN 1 ELSE 0
    BY <1>1, <2>1, CountStep
  <2>4. \A b \in AllBits :
          raised[b] + (IF command.op = "set" /\ b \in command.mask THEN 1 ELSE 0) <= raised'[b]
    BY <2>2, <2>3, Sane
  <2> QED
    BY <1>2, <1>3, <2>1, <2>2, <2>3, <2>4, QueueStep
<1>4. CASE ~(Len(pending) < TimerQueue)
  BY <1>2, <1>4 DEF SetBitsFromIsr, IInv, Types
<1> QED
  BY <1>3, <1>4

LEMMA ClearBitsFromIsrStep ==
  ASSUME IInv, NEW mask \in Masks, ClearBitsFromIsr(mask)
  PROVE  IInv'
<1> DEFINE command == [op |-> "clear", mask |-> mask]
<1>1. UNCHANGED <<bits, call, raised, told, timedOut>>
  BY DEF ClearBitsFromIsr
<1>2. CASE Len(pending) < TimerQueue
  <2>1. pending' = Append(pending, command)
    BY <1>2 DEF ClearBitsFromIsr
  <2>2. command \in Commands /\ command.op # "set"
    BY DEF Commands
  <2> HIDE DEF command
  <2>3. \A b \in AllBits :
          raised[b] + (IF command.op = "set" /\ b \in command.mask THEN 1 ELSE 0) <= raised'[b]
    BY <1>1, <2>2, Sane
  <2> QED
    BY <1>1, <1>2, <2>1, <2>2, <2>3, Sane, QueueStep
<1>3. CASE ~(Len(pending) < TimerQueue)
  BY <1>1, <1>3 DEF ClearBitsFromIsr, IInv, Types
<1> QED
  BY <1>2, <1>3

LEMMA RunTimerCommandStep ==
  ASSUME IInv, RunTimerCommand
  PROVE  IInv'
<1> DEFINE command == Head(pending)
           seen == bits \cup command.mask
<1>1. /\ pending # <<>> /\ pending' = Tail(pending)
      /\ UNCHANGED <<raised, told, timedOut>>
  BY DEF RunTimerCommand
<1>2. command \in Commands /\ command.mask \in SUBSET AllBits
  <2>1. command \in Commands
    BY <1>1, Sane
  <2> QED
    BY <2>1 DEF Commands, Masks, AllBits
<1>3. pending' \in Seq(Commands) /\ Len(pending') <= TimerQueue
  <2>1. Len(pending) <= TimerQueue /\ TimerQueue \in Nat
    BY EventGroupAssumption DEF IInv, Types
  <2> QED
    BY <1>1, <2>1, Sane
<1>4. \A b \in AllBits :
        /\ Cardinality(SetsOf(pending', b))
             + (IF command.op = "set" /\ b \in command.mask THEN 1 ELSE 0)
             <= Cardinality(SetsOf(pending, b))
        /\ Cardinality(SetsOf(pending', b)) \in Nat /\ Cardinality(SetsOf(pending, b)) \in Nat
  BY <1>1, <1>3, Sane, SetsTail, SetsFinite
<1>5. CASE command.op = "set"
  <2>1. bits' = seen \ ClearedBy(seen) /\ call' = Woken(seen)
    BY <1>5 DEF RunTimerCommand, Raise
  <2> HIDE DEF command
  <2>2. Types'
    <3>1. call' = [u \in Tasks |-> call'[u]]
      BY <2>1 DEF Woken
    <3>2. bits' \subseteq AllBits
      BY <1>2, <2>1, Sane
    <3> QED
      BY <1>1, <1>3, <3>1, <3>2 DEF IInv, Types
  <2>3. \A b \in AllBits :
          (IF b \in command.mask THEN 1 ELSE 0) + Cardinality(SetsOf(pending', b)) + raised[b]
             <= Cardinality(SetsOf(pending, b)) + raised[b]
    BY <1>4, <1>5, Sane
  <2>4. ASSUME NEW t \in Tasks
        PROVE  TaskInv(call[t], told[t], bits, pending, raised)'
    BY <1>1, <1>2, <1>3, <2>1, <2>3, Sane, RaiseStep
  <2> QED
    BY <2>2, <2>4 DEF IInv
<1>6. CASE command.op # "set"
  <2>1. bits' \in SUBSET bits /\ UNCHANGED call
    BY <1>6 DEF RunTimerCommand
  <2>2. Types'
    BY <1>1, <1>3, <2>1 DEF IInv, Types
  <2>3. \A b \in AllBits : Cardinality(SetsOf(pending', b)) <= Cardinality(SetsOf(pending, b))
    BY <1>4, <1>6
  <2>4. ASSUME NEW t \in Tasks
        PROVE  TaskInv(call[t], told[t], bits, pending, raised)'
    BY <1>1, <1>3, <2>1, <2>3, ClearStep
  <2> QED
    BY <2>2, <2>4 DEF IInv
<1> QED
  BY <1>5, <1>6

\* A step of one task that leaves the bits alone.
LEMMA TaskStep ==
  ASSUME IInv, NEW t \in Tasks, NEW c, NEW n \in [AllBits -> Nat],
         call' = [call EXCEPT ![t] = c], told' = [told EXCEPT ![t] = n],
         timedOut' \in BOOLEAN, UNCHANGED <<bits, pending, raised>>,
         CallOK(c), Truthful(c), Unsatisfied(c, bits),
         \A b \in AllBits : n[b] + Owed(c, b) <= told[t][b] + Owed(call[t], b)
  PROVE  IInv'
<1>1. Types /\ bits \in SUBSET bits /\ told[t] \in [AllBits -> Nat]
  BY DEF IInv, Types
<1>2. Types'
  BY <1>1 DEF Types
<1>3. ASSUME NEW u \in Tasks
      PROVE  TaskInv(call[u], told[u], bits, pending, raised)'
  <2>1. CASE u = t
    <3>1. call'[u] = c /\ told'[u] = n
      BY <1>1, <2>1 DEF Types
    <3>2. \A b \in AllBits : n[b] + Owed(c, b) + IsIn(b, bits)
                               <= told[t][b] + Owed(call[t], b) + IsIn(b, bits)
      BY <1>1 DEF Owed, IsIn
    <3>3. TaskInv(c, n, bits, pending, raised)
      BY <1>1, <3>2, OneCallStep
    <3> QED
      BY <3>1, <3>3
  <2>2. CASE u # t
    <3>1. call'[u] = call[u] /\ told'[u] = told[u]
      BY <1>1, <2>2 DEF Types
    <3> QED
      BY <3>1 DEF IInv
  <2> QED
    BY <2>1, <2>2
<1> QED
  BY <1>2, <1>3 DEF IInv

LEMMA TimeOutStep ==
  ASSUME IInv, NEW t \in Tasks, TimeOut(t)
  PROVE  IInv'
<1> DEFINE w == call[t].wait
           c == Returned(w, bits, FALSE)
<1>1. /\ call[t].stage = "blocked" /\ call' = [call EXCEPT ![t] = c]
      /\ UNCHANGED <<bits, pending, raised, told, timedOut>>
  BY DEF TimeOut, IInv, Types
<1>2. w \in Waits /\ ~Satisfied(w, bits)
  BY <1>1, Sane DEF CallOK, Idle, Unsatisfied
<1> HIDE DEF w
<1>3. /\ CallOK(c) /\ Truthful(c) /\ Unsatisfied(c, bits)
      /\ \A b : Owed(c, b) = 0
  BY <1>2, Sane, Answered
<1>4. told' = [told EXCEPT ![t] = told[t]] /\ timedOut' \in BOOLEAN
  BY <1>1 DEF IInv, Types
<1> HIDE DEF c
<1>5. \A b \in AllBits : told[t][b] + Owed(c, b) <= told[t][b] + Owed(call[t], b)
  BY <1>3, Sane DEF Owed
<1> QED
  BY <1>1, <1>3, <1>4, <1>5, Sane, TaskStep

LEMMA ReturnStep ==
  ASSUME IInv, NEW t \in Tasks, Return(t)
  PROVE  IInv'
<1> DEFINE w == call[t].wait
           ret == call[t].ret
           more(b) == IF b \in Told(w, ret) THEN 1 ELSE 0
           n == IF Succeeds(w, ret) /\ w.clear
                THEN [b \in AllBits |-> told[t][b] + more(b)]
                ELSE told[t]
<1>1. /\ call[t].stage = "returned" /\ call' = [call EXCEPT ![t] = Idle]
      /\ UNCHANGED <<bits, pending, raised>>
  BY DEF Return
<1>2. told \in [Tasks -> [AllBits -> Nat]] /\ timedOut \in BOOLEAN
  BY DEF IInv, Types
<1>3. told' = [told EXCEPT ![t] = n]
  <2>1. CASE Succeeds(w, ret) /\ w.clear
    BY <1>2, <2>1 DEF Return
  <2>2. CASE ~(Succeeds(w, ret) /\ w.clear)
    BY <1>2, <2>2 DEF Return
  <2> QED
    BY <2>1, <2>2
<1>4. timedOut' \in BOOLEAN
  BY <1>2 DEF Return
<1>5. n \in [AllBits -> Nat]
  BY <1>2
<1>6. \A b \in AllBits : n[b] + Owed(Idle, b) <= told[t][b] + Owed(call[t], b)
  BY <1>1, <1>2, IdleTask DEF Owed
<1> HIDE DEF n
<1> QED
  BY <1>1, <1>3, <1>4, <1>5, <1>6, IdleTask, TaskStep

-----------------------------------------------------------------------------
LEMMA NextInv == IInv /\ [Next]_vars => IInv'
<1> SUFFICES ASSUME IInv, [Next]_vars
             PROVE  IInv'
  OBVIOUS
<1>1. ASSUME NEW t \in Tasks, NEW w \in FlagWaits, WaitBits(t, w)
      PROVE  IInv'
  BY <1>1, WaitBitsStep DEF FlagWaits
<1>2. ASSUME NEW t \in Tasks, NEW timeout \in Timeouts, Sync(t, timeout)
      PROVE  IInv'
  BY <1>2, SyncStep
<1>3. ASSUME NEW t \in Tasks, TimeOut(t)
      PROVE  IInv'
  BY <1>3, TimeOutStep
<1>4. ASSUME NEW t \in Tasks, Return(t)
      PROVE  IInv'
  BY <1>4, ReturnStep
<1>5. ASSUME NEW mask \in Masks, SetBits(mask)
      PROVE  IInv'
  BY <1>5, SetBitsStep
<1>6. ASSUME NEW mask \in Masks, ClearBits(mask)
      PROVE  IInv'
  BY <1>6, ClearBitsStep
<1>7. ASSUME NEW mask \in Masks, SetBitsFromIsr(mask)
      PROVE  IInv'
  BY <1>7, SetBitsFromIsrStep
<1>8. ASSUME NEW mask \in Masks, ClearBitsFromIsr(mask)
      PROVE  IInv'
  BY <1>8, ClearBitsFromIsrStep
<1>9. CASE RunTimerCommand
  BY <1>9, RunTimerCommandStep
<1>10. CASE UNCHANGED vars
  BY <1>10 DEF vars, IInv, Types
<1> QED
  BY <1>1, <1>2, <1>3, <1>4, <1>5, <1>6, <1>7, <1>8, <1>9, <1>10 DEF Next, Calls

LEMMA Invariance == Spec => []IInv
BY InitInv, NextInv, PTL DEF Spec

\* The calls of all tasks, the bits and the timer's queue keep their types;
\* the queue never outgrows its length.
THEOREM TypeCorrect == Spec => []TypeOK
<1>1. IInv => TypeOK
  BY DEF IInv, Types, TaskInv, CallOK, TypeOK
<1> QED
  BY Invariance, <1>1, PTL

\* No task passes the meeting more often than another comes to it, and no
\* flag is consumed twice by one task or before it was set.
THEOREM ToldOnlyWhatHappened == Spec => []NothingFromNowhere
<1>1. IInv => NothingFromNowhere
  <2> SUFFICES ASSUME IInv, NEW t \in Tasks, NEW b \in AllBits
               PROVE  told[t][b] <= raised[b]
    BY DEF NothingFromNowhere
  <2>1. Covered(told[t][b], call[t], b, bits, pending, raised[b])
    BY DEF IInv, TaskInv
  <2>2. Owed(call[t], b) \in Nat /\ IsIn(b, bits) \in Nat
    BY DEF Owed, IsIn
  <2>3. Cardinality(SetsOf(pending, b)) \in Nat /\ told[t][b] \in Nat /\ raised[b] \in Nat
    BY Sane, SetsFinite
  <2> QED
    BY ONLY <2>1, <2>2, <2>3 DEF Covered
<1> QED
  BY Invariance, <1>1, PTL

\* What waitBits() and sync() read from the returned bits is what the kernel
\* did with them, though it may have happened long before the call returns.
THEOREM AnswersAreTrue == Spec => []AnswerMatchesKernel
<1>1. IInv => AnswerMatchesKernel
  BY DEF IInv, TaskInv, Truthful, AnswerMatchesKernel
<1> QED
  BY Invariance, <1>1, PTL

=============================================================================
