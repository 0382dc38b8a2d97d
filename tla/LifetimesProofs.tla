--------------------------- MODULE LifetimesProofs ---------------------------
(***************************************************************************)
(* For any number of users, objects, addresses and blocks of memory: every *)
(* living kernel object has one holder, no tuple of arguments is freed by  *)
(* the wrong owner, and a handle reaches a task that is gone only after an *)
(* exit() on a Thread object that did not hold the handle of its task.     *)
(***************************************************************************)
EXTENDS Lifetimes, FiniteSetTheorems, SequenceTheorems, TLAPS

\* Where handles hd and users us have i.
Hold(hd, i) == {h \in Users \X Vars : hd[h[1]][h[2]] = i}

Holding(c, i) == c.at \in {"made", "destroying", "deleting"} /\ c.id = i

BusySet(us, i) == {u \in Users : Holding(us[u], i)}

IsAlive(state) == state \in {"live", "suspended"}

\* An object that lives has one place, one that does not has none.
Sole(hs, bs, state) ==
  IF IsAlive(state)
  THEN \/ (\E h \in hs : hs = {h}) /\ bs = {}
       \/ hs = {} /\ (\E u \in bs : bs = {u})
  ELSE hs = {} /\ bs = {}

SoleInv ==
  ~stopped => \A i \in Made \ astray :
                Sole(Hold(handle, i), BusySet(user, i), made[i].state)

\* What a user can be doing when n kernel objects have been made.
Doing(n) ==
  {Idle} \cup [at : {"tuple"}, var : ThreadVars]
    \cup [at : {"made"}, var : ThreadVars, id : 1 .. n]
    \cup [at : {"destroying", "deleting"}, id : 1 .. n]

IsKind(i, kind) == i # None => made[i].kind = kind

\* Thread objects hold threads, the others do not, and only tasks go astray.
KindInv ==
  /\ \A u \in Users :
       /\ \A v \in ThreadVars : IsKind(handle[u][v], "thread")
       /\ \A v \in ObjectVars : IsKind(handle[u][v], "object")
  /\ \A u \in Users, i \in Made : Holding(user[u], i) => made[i].kind = "thread"
  /\ \A i \in astray : made[i].kind = "thread"

\* An address is occupied by the one object there that is not yet freed.
OccupancyInv ==
  \A i \in Made : made[i].state # "gone" <=> occupant[made[i].address] = i

Making == {u \in Users : user[u].at = "tuple"}
WithTuple == {i \in Made : made[i].tuple \in {"shared", "entry"}}

TupleInv ==
  /\ ~stopped => \A i \in Made : made[i].tuple # "freed"
  /\ tuples = Cardinality(Making) + Cardinality(WithTuple)

UserInv == user \in [Users -> Doing(Len(made))]

IInv == TypeOK /\ UserInv /\ KindInv /\ OccupancyInv /\ TupleInv /\ SoleInv

-----------------------------------------------------------------------------
(* What single changes do.                                                 *)

States == {"live", "suspended", "ended", "gone"}

LEMMA UserChange ==
  ASSUME UserInv, NEW u \in Users, NEW c, user' = [user EXCEPT ![u] = c], NEW i
  PROVE  /\ Holding(c, i) => BusySet(user', i) = BusySet(user, i) \cup {u}
         /\ ~Holding(c, i) => BusySet(user', i) = BusySet(user, i) \ {u}
<1>1. \A t \in Users : user'[t] = IF t = u THEN c ELSE user[t]
  BY DEF UserInv
<1>2. \A t \in Users : Holding(user'[t], i) <=> IF t = u THEN Holding(c, i) ELSE Holding(user[t], i)
  BY <1>1
<1> QED
  BY <1>2 DEF BusySet

SetHandle(u, v, x) == handle' = [handle EXCEPT ![u][v] = x]

LEMMA HandleChange ==
  ASSUME TypeOK, NEW u \in Users, NEW v \in Vars, NEW x, SetHandle(u, v, x), NEW i
  PROVE  /\ x = i => Hold(handle', i) = Hold(handle, i) \cup {<<u, v>>}
         /\ x # i => Hold(handle', i) = Hold(handle, i) \ {<<u, v>>}
<1>1. handle \in [Users -> [Vars -> {None} \cup Made]]
  BY DEF TypeOK
<1>2. ASSUME NEW t \in Users, NEW w \in Vars
      PROVE  handle'[t][w] = IF t = u /\ w = v THEN x ELSE handle[t][w]
  BY <1>1 DEF SetHandle
<1>3. \A h \in Users \X Vars :
        handle'[h[1]][h[2]] = IF h = <<u, v>> THEN x ELSE handle[h[1]][h[2]]
  BY <1>2
<1>4. <<u, v>> \in Users \X Vars
  OBVIOUS
<1> QED
  BY <1>3, <1>4 DEF Hold

LEMMA IdleHoldsNone == \A i : ~Holding(Idle, i)
BY DEF Holding, Idle

LEMMA DoingGrows ==
  ASSUME NEW n \in Nat, NEW m \in Nat, n <= m
  PROVE  Doing(n) \subseteq Doing(m)
<1>1. 1 .. n \subseteq 1 .. m
  OBVIOUS
<1> QED
  BY <1>1 DEF Doing

\* A user that does something is in the state that its at says.
LEMMA WhatUserDoes ==
  ASSUME UserInv, NEW u \in Users
  PROVE  /\ user[u].at = "tuple" => user[u].var \in ThreadVars
         /\ user[u].at = "made" => user[u].var \in ThreadVars
         /\ user[u].at \in {"made", "destroying", "deleting"} =>
              user[u].id \in Made /\ \A i : Holding(user[u], i) <=> i = user[u].id
         /\ user[u].at \in {"idle", "tuple"} => \A i : ~Holding(user[u], i)
BY DEF UserInv, Doing, Holding, Idle, Made

LEMMA MadeFacts ==
  ASSUME TypeOK, NEW j \in Made
  PROVE  /\ made[j].address \in Addresses /\ made[j].state \in States
         /\ made[j].kind \in {"thread", "object"}
         /\ made[j].tuple \in {"none", "shared", "entry", "freed"}
         /\ made[j].home[1] \in Users /\ made[j].home[2] \in Vars
         /\ made[j].kind = "thread" => made[j].home[2] \in ThreadVars
<1>1. made[j] \in KernelObjects
  <2>1. made \in Seq(KernelObjects)
    BY DEF TypeOK
  <2> QED
    BY <2>1 DEF Made
<1> QED
  BY <1>1 DEF KernelObjects, Objects, States, Vars

LEMMA BecomeFacts ==
  ASSUME TypeOK, NEW i \in Made, NEW s \in States, Become(i, s)
  PROVE  /\ made' \in Seq(KernelObjects) /\ Len(made') = Len(made) /\ Made' = Made
         /\ \A j \in Made : /\ made'[j].kind = made[j].kind
                            /\ made'[j].address = made[j].address
                            /\ made'[j].tuple = made[j].tuple
                            /\ made'[j].state = IF j = i THEN s ELSE made[j].state
<1>1. made \in Seq(KernelObjects) /\ made' = [made EXCEPT ![i] = [made[i] EXCEPT !.state = s]]
  BY DEF TypeOK, Become
<1>2. made[i] \in KernelObjects
  BY <1>1 DEF Made
<1>3. [made[i] EXCEPT !.state = s] \in KernelObjects
  BY <1>2 DEF KernelObjects, Objects, States
<1>4. made' \in Seq(KernelObjects) /\ Len(made') = Len(made)
      /\ \A j \in 1 .. Len(made) :
           made'[j] = IF j = i THEN [made[i] EXCEPT !.state = s] ELSE made[j]
  BY <1>1, <1>3, ExceptSeq DEF Made
<1>5. \A j \in Made : made[j] \in KernelObjects
  BY <1>1 DEF Made
<1> QED
  BY <1>2, <1>4, <1>5 DEF Made, KernelObjects, Objects

SetTuple(i, x) == made' = [made EXCEPT ![i].tuple = x]

LEMMA TupleFacts ==
  ASSUME TypeOK, NEW i \in Made, NEW x \in {"none", "shared", "entry", "freed"},
         SetTuple(i, x)
  PROVE  /\ made' \in Seq(KernelObjects) /\ Len(made') = Len(made) /\ Made' = Made
         /\ \A j \in Made : /\ made'[j].kind = made[j].kind
                            /\ made'[j].address = made[j].address
                            /\ made'[j].state = made[j].state
                            /\ made'[j].tuple = IF j = i THEN x ELSE made[j].tuple
<1>1. made \in Seq(KernelObjects) /\ made' = [made EXCEPT ![i] = [made[i] EXCEPT !.tuple = x]]
  BY DEF TypeOK, SetTuple
<1>2. made[i] \in KernelObjects
  BY <1>1 DEF Made
<1>3. [made[i] EXCEPT !.tuple = x] \in KernelObjects
  BY <1>2 DEF KernelObjects, Objects
<1>4. made' \in Seq(KernelObjects) /\ Len(made') = Len(made)
      /\ \A j \in 1 .. Len(made) :
           made'[j] = IF j = i THEN [made[i] EXCEPT !.tuple = x] ELSE made[j]
  BY <1>1, <1>3, ExceptSeq DEF Made
<1>5. \A j \in Made : made[j] \in KernelObjects
  BY <1>1 DEF Made
<1> QED
  BY <1>2, <1>4, <1>5 DEF Made, KernelObjects, Objects

\* The objects that can be given a handle of a kind.
Homes(kind) == Users \X (IF kind = "thread" THEN ThreadVars ELSE ObjectVars)

\* What Make() leaves for an object at address a.
MadeAt(kind, home, tuple, a) ==
  /\ made' \in Seq(KernelObjects) /\ Len(made') = Len(made) + 1
  /\ Made' = Made \cup {Len(made) + 1} /\ Len(made) + 1 \notin Made
  /\ \A j \in Made : made'[j] = made[j]
  /\ made'[Len(made) + 1] = [kind |-> kind, home |-> home, address |-> a,
                             state |-> "live", tuple |-> tuple]
  /\ occupant' = [occupant EXCEPT ![a] = Len(made) + 1]

LEMMA MakeFacts ==
  ASSUME TypeOK, NEW kind \in {"thread", "object"}, NEW tuple \in {"none", "shared"},
         NEW home, home \in Homes(kind), Make(kind, home, tuple)
  PROVE  \E a \in Free : MadeAt(kind, home, tuple, a)
<1>1. PICK a \in Free :
        /\ made' = Append(made, [kind |-> kind, home |-> home, address |-> a,
                                 state |-> "live", tuple |-> tuple])
        /\ occupant' = [occupant EXCEPT ![a] = Len(made) + 1]
  BY DEF Make
<1> DEFINE e == [kind |-> kind, home |-> home, address |-> a,
                 state |-> "live", tuple |-> tuple]
<1>2. e \in KernelObjects
  BY DEF KernelObjects, Objects, Homes, Free
<1>3. made \in Seq(KernelObjects) /\ made' = Append(made, e)
  BY <1>1 DEF TypeOK
<1> HIDE DEF e
<1>4. /\ made' \in Seq(KernelObjects) /\ Len(made') = Len(made) + 1
      /\ \A j \in 1 .. Len(made) : made'[j] = made[j]
      /\ made'[Len(made) + 1] = e /\ Len(made) \in Nat
  BY <1>2, <1>3
<1>5. Made' = Made \cup {Len(made) + 1} /\ Len(made) + 1 \notin Made
  BY <1>4 DEF Made
<1> QED
  BY <1>1, <1>4, <1>5 DEF Made, MadeAt, e

-----------------------------------------------------------------------------
(* The addresses.                                                          *)

SpaceInv ==
  /\ occupant \in [Addresses -> {None} \cup Made]
  /\ \A a \in Addresses : occupant[a] # None => made[occupant[a]].address = a
  /\ OccupancyInv

LEMMA SpaceSame ==
  ASSUME SpaceInv, UNCHANGED occupant, Made' = Made,
         \A j \in Made : /\ made'[j].address = made[j].address
                         /\ made'[j].state = "gone" <=> made[j].state = "gone"
  PROVE  SpaceInv'
<1>1. OccupancyInv'
  BY DEF SpaceInv, OccupancyInv
<1>2. \A a \in Addresses : occupant'[a] # None => made'[occupant'[a]].address = a
  BY DEF SpaceInv
<1> QED
  BY <1>1, <1>2 DEF SpaceInv

\* An object that is freed leaves its own address.
LEMMA SpaceVacated ==
  ASSUME TypeOK, SpaceInv, NEW i \in Made, made[i].state # "gone",
         Become(i, "gone"), Vacate(i)
  PROVE  SpaceInv'
<1>1. /\ Made' = Made
      /\ \A j \in Made : /\ made'[j].address = made[j].address
                         /\ made'[j].state = IF j = i THEN "gone" ELSE made[j].state
  BY BecomeFacts DEF States
<1> DEFINE a == made[i].address
<1>2. occupant' = [occupant EXCEPT ![a] = None]
  BY DEF Vacate
<1>3. occupant[a] = i
  BY DEF SpaceInv, OccupancyInv
<1>4. \A j \in Made : made[j].address \in Addresses
  BY MadeFacts
<1> HIDE DEF a
<1>5. occupant' \in [Addresses -> {None} \cup Made]
  BY <1>2 DEF SpaceInv
<1>6. \A b \in Addresses : occupant'[b] = IF b = a THEN None ELSE occupant[b]
  BY <1>2 DEF SpaceInv
<1>7. \A b \in Addresses : occupant'[b] # None => made'[occupant'[b]].address = b
  BY <1>1, <1>6 DEF SpaceInv
<1>8. ASSUME NEW j \in Made
      PROVE  made'[j].state # "gone" <=> occupant'[made'[j].address] = j
  <2>0. 0 \notin Made
    BY DEF Made
  <2>1. CASE j = i
    BY <1>1, <1>4, <1>6, <2>0, <2>1 DEF a, None
  <2>2. CASE j # i /\ made[j].address = a
    BY <1>1, <1>3, <1>4, <1>6, <2>0, <2>2 DEF SpaceInv, OccupancyInv, None, a
  <2>3. CASE j # i /\ made[j].address # a
    BY <1>1, <1>4, <1>6, <2>3 DEF SpaceInv, OccupancyInv
  <2> QED
    BY <2>1, <2>2, <2>3
<1> QED
  BY <1>1, <1>5, <1>7, <1>8 DEF SpaceInv, OccupancyInv

LEMMA SpaceMade ==
  ASSUME TypeOK, SpaceInv, NEW kind \in {"thread", "object"}, NEW tuple \in {"none", "shared"},
         NEW home, home \in Homes(kind), Make(kind, home, tuple)
  PROVE  SpaceInv'
<1> DEFINE n == Len(made) + 1
<1>0. PICK a \in Free : MadeAt(kind, home, tuple, a)
  BY MakeFacts
<1>1. /\ Made' = Made \cup {n} /\ n \notin Made
      /\ \A j \in Made : made'[j] = made[j]
      /\ made'[n] = [kind |-> kind, home |-> home, address |-> a,
                     state |-> "live", tuple |-> tuple]
      /\ occupant' = [occupant EXCEPT ![a] = n]
  BY <1>0 DEF MadeAt
<1>2. /\ a \in Addresses /\ occupant[a] = None
      /\ made'[n].state = "live" /\ made'[n].address = a
  BY <1>1 DEF Free
<1>3. n # None /\ None \notin Made
  BY DEF None, Made, TypeOK
<1> HIDE DEF n
<1>4. occupant' \in [Addresses -> {None} \cup Made']
  BY <1>1, <1>2 DEF SpaceInv
<1>5. \A b \in Addresses : occupant'[b] = IF b = a THEN n ELSE occupant[b]
  BY <1>1, <1>2 DEF SpaceInv
<1>6. \A b \in Addresses : occupant'[b] # None => made'[occupant'[b]].address = b
  BY <1>1, <1>2, <1>5 DEF SpaceInv
<1>7. ASSUME NEW j \in Made'
      PROVE  made'[j].state # "gone" <=> occupant'[made'[j].address] = j
  <2>1. CASE j = n
    BY <1>2, <1>5, <2>1
  <2>2. CASE j \in Made
    <3>1. made[j].address \in Addresses
      BY <2>2, MadeFacts
    <3>2. j # n
      BY <1>1, <2>2
    <3> QED
      BY <1>1, <1>2, <1>3, <1>5, <2>2, <3>1, <3>2 DEF SpaceInv, OccupancyInv
  <2> QED
    BY <1>1, <2>1, <2>2
<1> QED
  BY <1>4, <1>6, <1>7 DEF SpaceInv, OccupancyInv

-----------------------------------------------------------------------------
(* The tuples.                                                             *)

LEMMA Counts ==
  ASSUME TypeOK
  PROVE  /\ IsFiniteSet(Making) /\ IsFiniteSet(WithTuple)
         /\ Cardinality(Making) \in Nat /\ Cardinality(WithTuple) \in Nat
<1>1. IsFiniteSet(Users) /\ Making \in SUBSET Users
  BY LifetimesAssumption DEF Making
<1>2. IsFiniteSet(Making)
  BY <1>1, FS_Subset
<1>3. IsFiniteSet(Made)
  BY FS_Interval DEF Made, TypeOK
<1>4. WithTuple \in SUBSET Made
  BY DEF WithTuple
<1>5. IsFiniteSet(WithTuple)
  BY <1>3, <1>4, FS_Subset
<1> QED
  BY <1>2, <1>5, FS_CardinalityType

LEMMA TuplesSame ==
  ASSUME TupleInv, UNCHANGED tuples, Making' = Making, Made' = Made,
         \A j \in Made : made'[j].tuple = made[j].tuple, stopped => stopped'
  PROVE  TupleInv'
<1>1. WithTuple' = WithTuple
  BY DEF WithTuple
<1> QED
  BY <1>1 DEF TupleInv

LEMMA MakingSame ==
  ASSUME UserInv, NEW u \in Users, NEW c, user' = [user EXCEPT ![u] = c],
         user[u].at = "tuple" <=> c.at = "tuple"
  PROVE  Making' = Making
<1>1. \A t \in Users : user'[t] = IF t = u THEN c ELSE user[t]
  BY DEF UserInv
<1> QED
  BY <1>1 DEF Making

LEMMA RoomForOne ==
  ASSUME TypeOK, Room
  PROVE  tuples + 1 \in 0 .. HeapBlocks
<1>1. IsFiniteSet(Addresses \ Free)
  BY LifetimesAssumption, FS_Subset, Addresses \ Free \in SUBSET Addresses
<1>2. Cardinality(Addresses \ Free) \in Nat
  BY <1>1, FS_CardinalityType
<1>3. tuples \in Nat /\ HeapBlocks \in Nat
  BY LifetimesAssumption DEF TypeOK
<1> QED
  BY <1>2, <1>3 DEF Room

-----------------------------------------------------------------------------
(* The steps that create.                                                  *)

LEMMA Parts ==
  ASSUME IInv
  PROVE  /\ TypeOK /\ UserInv /\ KindInv /\ SpaceInv /\ TupleInv /\ SoleInv
         /\ Len(made) \in Nat
         /\ handle \in [Users -> [Vars -> {None} \cup Made]]
         /\ astray \subseteq Made /\ tuples \in Nat
BY DEF IInv, SpaceInv, TypeOK

\* A step of user u that leaves the objects alone.
LEMMA UserStep ==
  ASSUME UserInv, NEW u \in Users, NEW c \in Doing(Len(made')),
         user' = [user EXCEPT ![u] = c], Len(made) \in Nat, Len(made') \in Nat,
         Len(made) <= Len(made')
  PROVE  UserInv'
<1>1. user \in [Users -> Doing(Len(made'))]
  BY DoingGrows DEF UserInv
<1> QED
  BY <1>1 DEF UserInv

LEMMA UserStepSame ==
  ASSUME UserInv, NEW u \in Users, NEW c \in Doing(Len(made)),
         user' = [user EXCEPT ![u] = c], Len(made') = Len(made)
  PROVE  UserInv'
<1>1. user' \in [Users -> Doing(Len(made))]
  BY DEF UserInv
<1>2. Doing(Len(made')) = Doing(Len(made))
  OBVIOUS
<1> QED
  BY <1>1, <1>2 DEF UserInv

KindOf(v) == IF v \in ThreadVars THEN "thread" ELSE "object"

\* Handles and users that are as before, or newly refer to what they may.
LEMMA KindStep ==
  ASSUME KindInv, TypeOK, UserInv, Made \subseteq Made',
         \A j \in Made : made'[j].kind = made[j].kind,
         \A u \in Users :
           /\ \A v \in Vars : \/ handle'[u][v] \in {handle[u][v], None}
                              \/ made'[handle'[u][v]].kind = KindOf(v)
           /\ \A i \in Made' : Holding(user'[u], i) => 
                Holding(user[u], i) \/ made'[i].kind = "thread",
         \A i \in astray' : i \in astray \/ made'[i].kind = "thread"
  PROVE  KindInv'
<1>1. ASSUME NEW u \in Users, NEW v \in Vars, IsKind(handle[u][v], KindOf(v))
      PROVE  IsKind(handle[u][v], KindOf(v))'
  <2>1. handle[u][v] \in {None} \cup Made
    BY DEF TypeOK
  <2>2. CASE handle'[u][v] \in {handle[u][v], None}
    BY <1>1, <2>1, <2>2 DEF IsKind, KindOf
  <2>3. CASE made'[handle'[u][v]].kind = KindOf(v)
    BY <2>3 DEF IsKind, KindOf
  <2> QED
    BY <2>2, <2>3
<1>2. \A u \in Users :
        /\ \A v \in ThreadVars : IsKind(handle[u][v], "thread")'
        /\ \A v \in ObjectVars : IsKind(handle[u][v], "object")'
  <2>1. \A v \in ThreadVars : v \in Vars /\ KindOf(v) = "thread"
    BY DEF Vars, KindOf
  <2>2. \A v \in ObjectVars : v \in Vars /\ KindOf(v) = "object"
    BY LifetimesAssumption DEF Vars, KindOf
  <2>3. \A u \in Users, v \in Vars : IsKind(handle[u][v], KindOf(v))
    BY <2>1, <2>2 DEF KindInv, Vars
  <2>4. \A u \in Users, v \in Vars : IsKind(handle[u][v], KindOf(v))'
    BY <1>1, <2>3
  <2> QED
    BY <2>1, <2>2, <2>4
<1>3. ASSUME NEW u \in Users, NEW i \in Made', Holding(user'[u], i)
      PROVE  made'[i].kind = "thread"
  <2>1. CASE Holding(user[u], i)
    <3>1. i \in Made
      BY <2>1, WhatUserDoes DEF Holding
    <3> QED
      BY <2>1, <3>1 DEF KindInv
  <2> QED
    BY <1>3, <2>1
<1>4. \A i \in astray' : made'[i].kind = "thread"
  BY DEF KindInv, TypeOK
<1> QED
  BY <1>2, <1>3, <1>4 DEF KindInv

\* The one place of an object that lives.
LEMMA SolePlace ==
  ASSUME NEW hs, NEW bs, NEW state
  PROVE  /\ \A h \in hs : Sole(hs, bs, state) => IsAlive(state) /\ hs = {h} /\ bs = {}
         /\ \A u \in bs : Sole(hs, bs, state) => IsAlive(state) /\ hs = {} /\ bs = {u}
         /\ \A h : hs = {h} /\ bs = {} /\ IsAlive(state) => Sole(hs, bs, state)
         /\ \A u : hs = {} /\ bs = {u} /\ IsAlive(state) => Sole(hs, bs, state)
         /\ hs = {} /\ bs = {} /\ ~IsAlive(state) => Sole(hs, bs, state)
BY DEF Sole

\* A step leaves an object alone whose places and state it does not change.
LEMMA SoleSame ==
  ASSUME SoleInv, ~stopped, NEW i \in Made \ astray,
         Hold(handle', i) = Hold(handle, i), BusySet(user', i) = BusySet(user, i),
         IsAlive(made'[i].state) <=> IsAlive(made[i].state)
  PROVE  Sole(Hold(handle, i), BusySet(user, i), made[i].state)'
BY DEF SoleInv, Sole

\* Nobody has what is yet to be made.
LEMMA NobodyHas ==
  ASSUME IInv, NEW i, i \notin Made, i # None
  PROVE  Hold(handle, i) = {} /\ BusySet(user, i) = {}
<1>1. \A u \in Users, v \in Vars : handle[u][v] \in {None} \cup Made
  BY Parts
<1>2. Hold(handle, i) = {}
  BY <1>1 DEF Hold
<1>3. \A u \in Users : ~Holding(user[u], i)
  BY Parts, WhatUserDoes DEF Holding
<1> QED
  BY <1>2, <1>3 DEF BusySet

LEMMA MakeTupleStep ==
  ASSUME IInv, NEW u \in Users, NEW v \in ThreadVars, MakeTuple(u, v)
  PROVE  IInv'
<1> DEFINE c == [at |-> "tuple", var |-> v]
<1>1. /\ ~stopped /\ user[u] = Idle /\ Room /\ tuples' = tuples + 1
      /\ user' = [user EXCEPT ![u] = c]
      /\ UNCHANGED <<made, occupant, handle, astray, strayed, stopped>>
  BY DEF MakeTuple, Ready
<1>2. /\ TypeOK /\ UserInv /\ KindInv /\ SpaceInv /\ TupleInv /\ SoleInv /\ Len(made) \in Nat
      /\ handle \in [Users -> [Vars -> {None} \cup Made]]
  BY Parts
<1>3. /\ c \in Doing(Len(made)) /\ c.at = "tuple"
      /\ \A i : ~Holding(c, i)
  BY DEF Doing, Holding
<1> HIDE DEF c
<1>4. UserInv'
  BY <1>1, <1>2, <1>3, UserStepSame
<1>5. user'[u] = c /\ \A t \in Users : t # u => user'[t] = user[t]
  BY <1>1, <1>2 DEF UserInv
<1>6. KindInv'
  BY <1>1, <1>2, <1>3, <1>5, KindStep DEF Made
<1>7. SpaceInv'
  BY <1>1, <1>2, SpaceSame DEF Made
<1>8. TupleInv'
  <2>1. Making' = Making \cup {u} /\ u \notin Making
    BY <1>1, <1>3, <1>5 DEF Making, Idle
  <2>2. WithTuple' = WithTuple
    BY <1>1 DEF WithTuple, Made
  <2>3. Cardinality(Making') = Cardinality(Making) + 1
    BY <1>2, <2>1, Counts, FS_AddElement
  <2> QED
    BY <1>1, <1>2, <2>2, <2>3, Counts DEF TupleInv, Made
<1>9. SoleInv'
  <2>1. \A i : BusySet(user', i) = BusySet(user, i)
    BY <1>1, <1>3, <1>5, IdleHoldsNone DEF BusySet
  <2> QED
    BY <1>1, <1>2, <2>1 DEF SoleInv, Made
<1>10. tuples' \in 0 .. HeapBlocks
  BY <1>1, <1>2, RoomForOne
<1> QED
  BY <1>1, <1>2, <1>4, <1>6, <1>7, <1>8, <1>9, <1>10 DEF IInv, TypeOK, SpaceInv, Made

LEMMA CreateFailsStep ==
  ASSUME IInv, NEW u \in Users, CreateFails(u)
  PROVE  IInv'
<1>1. /\ ~stopped /\ user[u].at = "tuple" /\ tuples' = tuples - 1
      /\ user' = [user EXCEPT ![u] = Idle]
      /\ UNCHANGED <<made, occupant, handle, astray, strayed, stopped>>
  BY DEF CreateFails
<1>2. /\ TypeOK /\ UserInv /\ KindInv /\ SpaceInv /\ TupleInv /\ SoleInv /\ Len(made) \in Nat
      /\ handle \in [Users -> [Vars -> {None} \cup Made]]
  BY Parts
<1>3. Idle \in Doing(Len(made)) /\ Idle.at # "tuple"
  BY DEF Doing, Idle
<1>4. UserInv'
  BY <1>1, <1>2, <1>3, UserStepSame
<1>5. user'[u] = Idle /\ \A t \in Users : t # u => user'[t] = user[t]
  BY <1>1, <1>2 DEF UserInv
<1>6. KindInv'
  BY <1>1, <1>2, <1>5, IdleHoldsNone, KindStep DEF Made
<1>7. SpaceInv'
  BY <1>1, <1>2, SpaceSame DEF Made
<1>8. Making' = Making \ {u} /\ u \in Making
  BY <1>1, <1>3, <1>5 DEF Making
<1>9. Cardinality(Making') = Cardinality(Making) - 1 /\ Cardinality(Making') \in Nat
  <2>1. IsFiniteSet(Making')
    BY <1>2, <1>8, Counts, FS_RemoveElement
  <2> QED
    BY <1>2, <1>8, <2>1, Counts, FS_RemoveElement, FS_CardinalityType
<1>10. TupleInv'
  <2>1. WithTuple' = WithTuple
    BY <1>1 DEF WithTuple, Made
  <2> QED
    BY <1>1, <1>2, <1>9, <2>1, Counts DEF TupleInv, Made
<1>11. SoleInv'
  <2>1. \A i : BusySet(user', i) = BusySet(user, i)
    <3>1. \A i : ~Holding(user[u], i) /\ ~Holding(user'[u], i)
      BY <1>1, <1>2, <1>5, IdleHoldsNone, WhatUserDoes
    <3>2. \A i : \A t \in Users : Holding(user'[t], i) <=> Holding(user[t], i)
      BY <1>5, <3>1
    <3> QED
      BY <3>2 DEF BusySet
  <2> QED
    BY <1>1, <1>2, <2>1 DEF SoleInv, Made
<1>12. tuples' \in 0 .. HeapBlocks
  <2>1. tuples = Cardinality(Making') + 1 + Cardinality(WithTuple)
    BY <1>2, <1>9, Counts DEF TupleInv
  <2> QED
    BY <1>1, <1>2, <1>9, <2>1, Counts, LifetimesAssumption DEF TypeOK
<1> QED
  BY <1>1, <1>2, <1>4, <1>6, <1>7, <1>10, <1>11, <1>12 DEF IInv, TypeOK, SpaceInv, Made

\* create() has made a task: it runs, and the creator has its handle.
LEMMA NewThreadStep ==
  ASSUME IInv, ~stopped, NEW u \in Users, NEW v \in ThreadVars,
         NEW tuple \in {"none", "shared"}, Make("thread", <<u, v>>, tuple),
         user[u].at \in {"idle", "tuple"}, user[u].at = "tuple" <=> tuple = "shared",
         user' = [user EXCEPT ![u] = [at |-> "made", var |-> v, id |-> Len(made) + 1]],
         UNCHANGED <<handle, tuples, astray, strayed, stopped>>
  PROVE  IInv'
<1> DEFINE n == Len(made) + 1
           c == [at |-> "made", var |-> v, id |-> n]
<1>1. /\ TypeOK /\ UserInv /\ KindInv /\ SpaceInv /\ TupleInv /\ SoleInv /\ Len(made) \in Nat
      /\ handle \in [Users -> [Vars -> {None} \cup Made]] /\ astray \subseteq Made
  BY Parts
<1>2. PICK a \in Free :
        /\ made' \in Seq(KernelObjects) /\ Len(made') = n
        /\ Made' = Made \cup {n} /\ n \notin Made
        /\ \A j \in Made : made'[j] = made[j]
        /\ made'[n] = [kind |-> "thread", home |-> <<u, v>>, address |-> a,
                       state |-> "live", tuple |-> tuple]
  <2>1. <<u, v>> \in Homes("thread")
    BY DEF Homes
  <2>2. PICK a \in Free : MadeAt("thread", <<u, v>>, tuple, a)
    BY <1>1, <2>1, MakeFacts
  <2> QED
    BY <2>2 DEF MadeAt
<1>3. n # None /\ Len(made) <= n /\ n \in Nat
  BY <1>1 DEF None
<1>4. c \in Doing(n) /\ c.at = "made" /\ \A i : Holding(c, i) <=> i = n
  BY <1>3 DEF Doing, Holding
<1> HIDE DEF n, c
<1>5. user' = [user EXCEPT ![u] = c]
  BY DEF c, n
<1>6. UserInv'
  BY <1>1, <1>2, <1>3, <1>4, <1>5, UserStep
<1>7. user'[u] = c /\ \A t \in Users : t # u => user'[t] = user[t]
  BY <1>1, <1>5 DEF UserInv
<1>8. KindInv'
  <2>1. \A j \in Made : made'[j].kind = made[j].kind
    BY <1>2
  <2>2. made'[n].kind = "thread"
    BY <1>2
  <2> QED
    BY <1>1, <1>2, <1>4, <1>7, <2>1, <2>2, KindStep
<1>9. SpaceInv'
  <2>1. <<u, v>> \in Homes("thread")
    BY DEF Homes
  <2> QED
    BY <1>1, <2>1, SpaceMade
<1>10. TupleInv'
  <2>1. \A i \in Made' : made'[i].tuple = IF i = n THEN tuple ELSE made[i].tuple
    BY <1>2
  <2>2. ~stopped' => \A i \in Made' : made'[i].tuple # "freed"
    BY <1>1, <1>2, <2>1 DEF TupleInv
  <2>3. Making' = Making \ {u}
    BY <1>4, <1>7 DEF Making
  <2>4. CASE tuple = "shared"
    <3>1. u \in Making
      BY <2>4 DEF Making
    <3>2. WithTuple' = WithTuple \cup {n} /\ n \notin WithTuple
      BY <1>2, <2>1, <2>4 DEF WithTuple
    <3>3. Cardinality(Making') = Cardinality(Making) - 1
      BY <1>1, <2>3, <3>1, Counts, FS_RemoveElement
    <3>4. Cardinality(WithTuple') = Cardinality(WithTuple) + 1
      BY <1>1, <3>2, Counts, FS_AddElement
    <3> QED
      BY <1>1, <2>2, <3>3, <3>4, Counts DEF TupleInv
  <2>5. CASE tuple = "none"
    <3>1. Making' = Making
      BY <2>3, <2>5 DEF Making
    <3>2. WithTuple' = WithTuple
      BY <1>2, <2>1, <2>5 DEF WithTuple
    <3> QED
      BY <1>1, <2>2, <3>1, <3>2 DEF TupleInv
  <2> QED
    BY <2>4, <2>5
<1>11. SoleInv'
  <2> SUFFICES ASSUME NEW i \in Made' \ astray'
               PROVE  Sole(Hold(handle, i), BusySet(user, i), made[i].state)'
    BY DEF SoleInv
  <2>1. CASE i = n
    <3>1. Hold(handle', i) = {}
      BY <1>2, <1>3, <2>1, NobodyHas
    <3>2. BusySet(user', i) = {u}
      <4>1. BusySet(user, n) = {}
        BY <1>2, <1>3, NobodyHas
      <4> QED
        BY <1>1, <1>4, <1>5, <2>1, <4>1, UserChange
    <3>3. IsAlive(made'[i].state)
      BY <1>2, <2>1 DEF IsAlive
    <3> QED
      BY <3>1, <3>2, <3>3 DEF Sole
  <2>2. CASE i # n
    <3>1. i \in Made \ astray
      BY <1>2, <2>2
    <3>2. ~Holding(user[u], i)
      BY <1>1, WhatUserDoes
    <3>3. BusySet(user', i) = BusySet(user, i)
      <4>1. BusySet(user', i) = BusySet(user, i) \ {u}
        BY <1>1, <1>4, <1>5, <2>2, UserChange
      <4> QED
        BY <3>2, <4>1 DEF BusySet
    <3> QED
      BY <1>1, <1>2, <3>1, <3>3, SoleSame
  <2> QED
    BY <2>1, <2>2
<1>12. handle' \in [Users -> [Vars -> {None} \cup Made']] /\ astray' \subseteq Made'
  BY <1>1, <1>2
<1> QED
  BY <1>1, <1>2, <1>6, <1>8, <1>9, <1>10, <1>11, <1>12 DEF IInv, TypeOK, SpaceInv

LEMMA CreateMulparamStep ==
  ASSUME IInv, NEW u \in Users, CreateMulparam(u)
  PROVE  IInv'
<1>1. /\ ~stopped /\ user[u].at = "tuple" /\ Make("thread", <<u, user[u].var>>, "shared")
      /\ UNCHANGED <<handle, tuples, astray, strayed, stopped>>
  BY DEF CreateMulparam
<1>2. user[u].var \in ThreadVars
  BY <1>1, Parts, WhatUserDoes
<1>3. user' = [user EXCEPT ![u] = [at |-> "made", var |-> user[u].var, id |-> Len(made) + 1]]
  BY Parts DEF CreateMulparam, UserInv
<1> QED
  BY <1>1, <1>2, <1>3, NewThreadStep

LEMMA CreatePlainStep ==
  ASSUME IInv, NEW u \in Users, NEW v \in ThreadVars, CreatePlain(u, v)
  PROVE  IInv'
<1>1. /\ ~stopped /\ user[u].at = "idle" /\ Make("thread", <<u, v>>, "none")
      /\ user' = [user EXCEPT ![u] = [at |-> "made", var |-> v, id |-> Len(made) + 1]]
      /\ UNCHANGED <<handle, tuples, astray, strayed, stopped>>
  BY DEF CreatePlain, Ready, Idle
<1> QED
  BY <1>1, NewThreadStep

LEMMA CreateObjectStep ==
  ASSUME IInv, NEW u \in Users, NEW v \in ObjectVars, CreateObject(u, v)
  PROVE  IInv'
<1> DEFINE n == Len(made) + 1
<1>1. /\ TypeOK /\ UserInv /\ KindInv /\ SpaceInv /\ TupleInv /\ SoleInv /\ Len(made) \in Nat
      /\ handle \in [Users -> [Vars -> {None} \cup Made]] /\ astray \subseteq Made
  BY Parts
<1>2. /\ ~stopped /\ Make("object", <<u, v>>, "none")
      /\ UNCHANGED <<user, tuples, astray, strayed>>
      /\ IF handle[u][v] = None
         THEN handle' = [handle EXCEPT ![u][v] = n] /\ UNCHANGED stopped
         ELSE stopped' = TRUE /\ UNCHANGED handle
  BY DEF CreateObject, Ready, Give
<1>3. PICK a \in Free :
        /\ made' \in Seq(KernelObjects) /\ Len(made') = n
        /\ Made' = Made \cup {n} /\ n \notin Made
        /\ \A j \in Made : made'[j] = made[j]
        /\ made'[n] = [kind |-> "object", home |-> <<u, v>>, address |-> a,
                       state |-> "live", tuple |-> "none"]
  <2>1. <<u, v>> \in Homes("object")
    BY DEF Homes
  <2>2. PICK a \in Free : MadeAt("object", <<u, v>>, "none", a)
    BY <1>1, <1>2, <2>1, MakeFacts
  <2> QED
    BY <2>2 DEF MadeAt
<1>4. n # None /\ Len(made) <= n /\ n \in Nat
  BY <1>1 DEF None
<1>5. v \in Vars /\ v \notin ThreadVars
  BY LifetimesAssumption DEF Vars
<1> HIDE DEF n
<1>6. UserInv'
  <2>1. Doing(Len(made)) \subseteq Doing(n)
    BY <1>1, <1>4, DoingGrows
  <2> QED
    BY <1>1, <1>2, <1>3, <2>1 DEF UserInv
<1>7. handle' \in [Users -> [Vars -> {None} \cup Made']] /\ stopped' \in BOOLEAN
  <2>1. stopped \in BOOLEAN
    BY <1>1 DEF TypeOK
  <2>2. handle \in [Users -> [Vars -> {None} \cup Made']] /\ n \in Made'
    BY <1>1, <1>3
  <2>3. handle' = [handle EXCEPT ![u][v] = n] \/ handle' = handle
    BY <1>2
  <2>4. ASSUME handle' = [handle EXCEPT ![u][v] = n]
        PROVE  handle' \in [Users -> [Vars -> {None} \cup Made']]
    BY <1>5, <2>2, <2>4
  <2> QED
    BY <1>2, <2>1, <2>2, <2>3, <2>4
<1>8. KindInv'
  <2>1. \A j \in Made : made'[j].kind = made[j].kind
    BY <1>3
  <2>2. made'[n].kind = "object" /\ KindOf(v) = "object"
    BY <1>3, <1>5 DEF KindOf
  <2>3. ASSUME NEW t \in Users, NEW w \in Vars
        PROVE  \/ handle'[t][w] \in {handle[t][w], None}
               \/ made'[handle'[t][w]].kind = KindOf(w)
    <3>1. handle'[t][w] = handle[t][w] \/ (w = v /\ handle'[t][w] = n)
      BY <1>1, <1>2, <1>5
    <3> QED
      BY <2>2, <3>1
  <2>4. \A i \in astray' : i \in astray
    BY <1>2
  <2>5. \A t \in Users : \A i \in Made' : Holding(user'[t], i) => Holding(user[t], i)
    BY <1>2
  <2> QED
    BY <1>1, <1>3, <2>1, <2>3, <2>4, <2>5, KindStep
<1>9. SpaceInv'
  <2>1. <<u, v>> \in Homes("object")
    BY DEF Homes
  <2> QED
    BY <1>1, <1>2, <2>1, SpaceMade
<1>10. TupleInv'
  <2>1. \A i \in Made' : made'[i].tuple = IF i = n THEN "none" ELSE made[i].tuple
    BY <1>3
  <2>2. WithTuple' = WithTuple /\ Making' = Making
    BY <1>2, <1>3, <2>1 DEF WithTuple, Making
  <2> QED
    BY <1>1, <1>2, <1>3, <2>1, <2>2 DEF TupleInv
<1>11. SoleInv'
  <2> SUFFICES ASSUME ~stopped', NEW i \in Made' \ astray'
               PROVE  Sole(Hold(handle, i), BusySet(user, i), made[i].state)'
    BY DEF SoleInv
  <2>1. SetHandle(u, v, n) /\ handle[u][v] = None
    BY <1>2 DEF SetHandle
  <2>2. CASE i = n
    <3>1. BusySet(user', i) = {}
      BY <1>2, <1>3, <1>4, <2>2, NobodyHas
    <3>2. Hold(handle', i) = {<<u, v>>}
      <4>1. Hold(handle, n) = {}
        BY <1>3, <1>4, NobodyHas
      <4> QED
        BY <1>1, <1>5, <2>1, <2>2, <4>1, HandleChange
    <3>3. IsAlive(made'[i].state)
      BY <1>3, <2>2 DEF IsAlive
    <3> QED
      BY <3>1, <3>2, <3>3 DEF Sole
  <2>3. CASE i # n
    <3>1. i \in Made \ astray
      BY <1>2, <1>3, <2>3
    <3>2. Hold(handle', i) = Hold(handle, i)
      <4>1. Hold(handle', i) = Hold(handle, i) \ {<<u, v>>}
        BY <1>1, <1>5, <2>1, <2>3, HandleChange
      <4>2. i # None
        BY <3>1 DEF Made, None
      <4> QED
        BY <2>1, <4>1, <4>2 DEF Hold
    <3> QED
      BY <1>1, <1>2, <1>3, <3>1, <3>2, SoleSame
  <2> QED
    BY <2>2, <2>3
<1>12. astray' \subseteq Made'
  BY <1>1, <1>2, <1>3
<1> QED
  BY <1>1, <1>2, <1>3, <1>6, <1>7, <1>8, <1>9, <1>10, <1>11, <1>12 DEF IInv, TypeOK, SpaceInv

\* The handle passes from the local variable to the object.
LEMMA StoreStep ==
  ASSUME IInv, NEW u \in Users, Store(u)
  PROVE  IInv'
<1> DEFINE i == user[u].id
           v == user[u].var
<1>1. /\ TypeOK /\ UserInv /\ KindInv /\ SpaceInv /\ TupleInv /\ SoleInv /\ Len(made) \in Nat
      /\ handle \in [Users -> [Vars -> {None} \cup Made]] /\ astray \subseteq Made
  BY Parts
<1>2. /\ ~stopped /\ user[u].at = "made" /\ user' = [user EXCEPT ![u] = Idle]
      /\ made' = IF made[i].tuple = "shared" THEN [made EXCEPT ![i].tuple = "entry"] ELSE made
      /\ UNCHANGED <<occupant, tuples, astray, strayed>>
      /\ IF handle[u][v] = None
         THEN handle' = [handle EXCEPT ![u][v] = i] /\ UNCHANGED stopped
         ELSE stopped' = TRUE /\ UNCHANGED handle
  BY DEF Store, Give
<1>3. /\ i \in Made /\ v \in ThreadVars /\ v \in Vars /\ i # None
      /\ \A j : Holding(user[u], j) <=> j = i
  <2>1. i \in Made /\ \A j : Holding(user[u], j) <=> j = i
    BY <1>1, <1>2, WhatUserDoes
  <2>2. v \in ThreadVars /\ v \in Vars
    BY <1>1, <1>2, WhatUserDoes DEF Vars
  <2> QED
    BY <2>1, <2>2 DEF Made, None
<1>4. /\ made' \in Seq(KernelObjects) /\ Len(made') = Len(made) /\ Made' = Made
      /\ \A j \in Made : /\ made'[j].kind = made[j].kind
                         /\ made'[j].address = made[j].address
                         /\ made'[j].state = made[j].state
                         /\ made'[j].tuple =
                              IF j = i /\ made[i].tuple = "shared" THEN "entry" ELSE made[j].tuple
  <2>1. CASE made[i].tuple = "shared"
    <3>1. SetTuple(i, "entry")
      BY <1>2, <2>1 DEF SetTuple
    <3> HIDE DEF i
    <3> QED
      BY <1>1, <1>3, <2>1, <3>1, TupleFacts
  <2>2. CASE made[i].tuple # "shared"
    BY <1>1, <1>2, <2>2 DEF TypeOK, Made
  <2> QED
    BY <2>1, <2>2
<1> HIDE DEF i, v
<1>5. Idle \in Doing(Len(made)) /\ Idle.at # "tuple"
  BY DEF Doing, Idle
<1>6. UserInv'
  BY <1>1, <1>2, <1>4, <1>5, UserStepSame
<1>7. user'[u] = Idle /\ \A t \in Users : t # u => user'[t] = user[t]
  BY <1>1, <1>2 DEF UserInv
<1>8. handle' \in [Users -> [Vars -> {None} \cup Made']] /\ stopped' \in BOOLEAN
  <2>1. stopped \in BOOLEAN
    BY <1>1 DEF TypeOK
  <2>2. CASE handle[u][v] = None
    BY <1>1, <1>2, <1>3, <1>4, <2>1, <2>2
  <2>3. CASE handle[u][v] # None
    BY <1>1, <1>2, <1>4, <2>3
  <2> QED
    BY <2>2, <2>3
<1>9. KindInv'
  <2>1. made'[i].kind = KindOf(v)
    BY <1>1, <1>3, <1>4 DEF KindInv, KindOf
  <2>2. ASSUME NEW t \in Users, NEW w \in Vars
        PROVE  \/ handle'[t][w] \in {handle[t][w], None}
               \/ made'[handle'[t][w]].kind = KindOf(w)
    <3>1. handle'[t][w] = handle[t][w] \/ (w = v /\ handle'[t][w] = i)
      BY <1>1, <1>2, <1>3
    <3> QED
      BY <2>1, <3>1
  <2>3. \A j \in astray' : j \in astray
    BY <1>2
  <2>4. \A t \in Users : \A j \in Made' : Holding(user'[t], j) => Holding(user[t], j)
    BY <1>7, IdleHoldsNone
  <2> QED
    BY <1>1, <1>4, <2>2, <2>3, <2>4, KindStep
<1>10. SpaceInv'
  BY <1>1, <1>2, <1>4, SpaceSame
<1>11. TupleInv'
  <2>1. Making' = Making
    BY <1>1, <1>2, <1>5, MakingSame
  <2>2. WithTuple' = WithTuple
    BY <1>4 DEF WithTuple
  <2> QED
    BY <1>1, <1>2, <1>4, <2>1, <2>2 DEF TupleInv
<1>12. SoleInv'
  <2> SUFFICES ASSUME ~stopped', NEW j \in Made' \ astray'
               PROVE  Sole(Hold(handle, j), BusySet(user, j), made[j].state)'
    BY DEF SoleInv
  <2>1. SetHandle(u, v, i) /\ handle[u][v] = None
    BY <1>2 DEF SetHandle
  <2>2. j \in Made \ astray /\ j # None /\ made'[j].state = made[j].state
    BY <1>2, <1>4 DEF Made, None
  <2>3. BusySet(user', j) = BusySet(user, j) \ {u}
    BY <1>1, <1>2, IdleHoldsNone, UserChange
  <2>4. CASE j = i
    <3>1. u \in BusySet(user, j)
      BY <1>3, <2>4 DEF BusySet
    <3>2. IsAlive(made[j].state) /\ Hold(handle, j) = {} /\ BusySet(user, j) = {u}
      BY <1>1, <1>2, <2>2, <3>1, SolePlace DEF SoleInv
    <3>3. Hold(handle', j) = {<<u, v>>}
      BY <1>1, <1>3, <2>1, <2>4, <3>2, HandleChange
    <3> QED
      BY <2>2, <2>3, <3>2, <3>3 DEF Sole
  <2>5. CASE j # i
    <3>1. BusySet(user', j) = BusySet(user, j)
      BY <1>3, <2>3, <2>5 DEF BusySet
    <3>2. Hold(handle', j) = Hold(handle, j)
      <4>1. Hold(handle', j) = Hold(handle, j) \ {<<u, v>>}
        BY <1>1, <1>3, <2>1, <2>5, HandleChange
      <4> QED
        BY <2>1, <2>2, <4>1 DEF Hold
    <3> QED
      BY <1>1, <1>2, <2>2, <3>1, <3>2, SoleSame
  <2> QED
    BY <2>4, <2>5
<1> QED
  BY <1>1, <1>2, <1>4, <1>6, <1>8, <1>9, <1>10, <1>11, <1>12 DEF IInv, TypeOK, SpaceInv

-----------------------------------------------------------------------------
(* The steps of objects.                                                   *)

LEMMA MoveStep ==
  ASSUME IInv, NEW u \in Users, NEW v \in Vars, NEW w \in Vars, Move(u, v, w),
         KindOf(v) = KindOf(w)
  PROVE  IInv'
<1> DEFINE i == handle[u][v]
<1>1. /\ TypeOK /\ UserInv /\ KindInv /\ SpaceInv /\ TupleInv /\ SoleInv
      /\ handle \in [Users -> [Vars -> {None} \cup Made]] /\ astray \subseteq Made
  BY Parts
<1>2. /\ ~stopped /\ v # w /\ i # None
      /\ IF handle[u][w] = None
         THEN /\ handle' = [handle EXCEPT ![u] = [@ EXCEPT ![v] = None, ![w] = handle[u][v]]]
              /\ UNCHANGED stopped
         ELSE stopped' = TRUE /\ UNCHANGED handle
      /\ UNCHANGED <<made, occupant, user, tuples, astray, strayed>>
  BY DEF Move, Ready
<1>3. i \in Made
  BY <1>1, <1>2
<1>4. CASE handle[u][w] # None
  BY <1>1, <1>2, <1>4 DEF IInv, TypeOK, UserInv, KindInv, OccupancyInv, TupleInv, SoleInv,
     Making, WithTuple, Made, IsKind
<1>5. CASE handle[u][w] = None
  <2>1. /\ handle' \in [Users -> [Vars -> {None} \cup Made]]
        /\ \A t \in Users, x \in Vars :
             handle'[t][x] = IF t = u /\ x = v THEN None
                             ELSE IF t = u /\ x = w THEN i ELSE handle[t][x]
    BY <1>1, <1>2, <1>3, <1>5
  <2>2. UNCHANGED <<made, occupant, user, tuples, astray, strayed, stopped>> /\ Made' = Made
    BY <1>2, <1>5 DEF Made
  <2> HIDE DEF i
  <2>3. KindInv'
    <3>1. made'[i].kind = KindOf(w)
      <4>1. IsKind(i, KindOf(v))
        <5>1. v \in ThreadVars \/ (v \in ObjectVars /\ v \notin ThreadVars)
          BY DEF Vars
        <5> QED
          BY <1>1, <5>1 DEF KindInv, KindOf, i
      <4> QED
        BY <1>2, <2>2, <4>1 DEF IsKind, i
    <3>2. \A t \in Users, x \in Vars : \/ handle'[t][x] \in {handle[t][x], None}
                                       \/ made'[handle'[t][x]].kind = KindOf(x)
      BY <2>1, <3>1
    <3> QED
      BY <1>1, <2>2, <3>2, KindStep
  <2>4. UserInv' /\ SpaceInv' /\ TupleInv'
    BY <1>1, <2>2 DEF UserInv, SpaceInv, OccupancyInv, TupleInv, Making, WithTuple
  <2>5. ASSUME NEW j \in Made \ astray
        PROVE  Sole(Hold(handle', j), BusySet(user', j), made'[j].state)
    <3>1. Sole(Hold(handle, j), BusySet(user, j), made[j].state)
      BY <1>1, <1>2, <2>5 DEF SoleInv
    <3>2. j # None
      BY DEF Made, None
    <3>3. <<u, v>> \in Users \X Vars /\ <<u, w>> \in Users \X Vars
      OBVIOUS
    <3>4. \A h \in Users \X Vars :
            handle'[h[1]][h[2]] = IF h = <<u, v>> THEN None
                                  ELSE IF h = <<u, w>> THEN i ELSE handle[h[1]][h[2]]
      BY <2>1
    <3>5. CASE j = i
      <4>1. <<u, v>> \in Hold(handle, j)
        BY <3>3, <3>5 DEF Hold, i
      <4>2. Hold(handle, j) = {<<u, v>>} /\ BusySet(user, j) = {} /\ IsAlive(made[j].state)
        BY <3>1, <4>1, SolePlace
      <4>3. \A h \in Users \X Vars : h # <<u, v>> => handle[h[1]][h[2]] # i
        BY <3>5, <4>2 DEF Hold
      <4>4. Hold(handle', j) = {<<u, w>>}
        BY <1>2, <3>2, <3>3, <3>4, <3>5, <4>3 DEF Hold
      <4> QED
        BY <2>2, <4>2, <4>4 DEF Sole
    <3>6. CASE j # i
      <4>1. Hold(handle', j) = Hold(handle, j)
        BY <1>5, <3>2, <3>3, <3>4, <3>6 DEF Hold, i
      <4> QED
        BY <2>2, <3>1, <4>1
    <3> QED
      BY <3>5, <3>6
  <2>6. SoleInv'
    BY <2>2, <2>5 DEF SoleInv
  <2> QED
    BY <1>1, <2>1, <2>2, <2>3, <2>4, <2>6 DEF IInv, TypeOK, SpaceInv
<1> QED
  BY <1>4, <1>5

\* An object that is not a thread is never astray, so the handle is that of the
\* one at its address.
LEMMA DestroyObjectStep ==
  ASSUME IInv, NEW u \in Users, NEW v \in ObjectVars, DestroyObject(u, v)
  PROVE  IInv'
<1> DEFINE i == handle[u][v]
<1>1. /\ TypeOK /\ UserInv /\ KindInv /\ SpaceInv /\ TupleInv /\ SoleInv
      /\ handle \in [Users -> [Vars -> {None} \cup Made]] /\ astray \subseteq Made
  BY Parts
<1>2. /\ ~stopped /\ i # None /\ Become(i, "gone") /\ Vacate(i)
      /\ handle' = [handle EXCEPT ![u][v] = None]
      /\ UNCHANGED <<user, tuples, astray, strayed, stopped>>
  BY DEF DestroyObject, Ready
<1>3. v \in Vars /\ i \in Made
  BY <1>1, <1>2 DEF Vars
<1>4. i \notin astray
  <2>1. made[i].kind = "object"
    BY <1>1, <1>2 DEF KindInv, IsKind
  <2> QED
    BY <1>1, <2>1 DEF KindInv
<1> HIDE DEF i
<1>5. /\ made' \in Seq(KernelObjects) /\ Len(made') = Len(made) /\ Made' = Made
      /\ \A j \in Made : /\ made'[j].kind = made[j].kind
                         /\ made'[j].tuple = made[j].tuple
                         /\ made'[j].state = IF j = i THEN "gone" ELSE made[j].state
  BY <1>1, <1>2, <1>3, BecomeFacts DEF States
<1>6. /\ IsAlive(made[i].state) /\ Hold(handle, i) = {<<u, v>>} /\ BusySet(user, i) = {}
  <2>1. <<u, v>> \in Hold(handle, i)
    BY <1>3 DEF Hold, i
  <2> QED
    BY <1>1, <1>2, <1>3, <1>4, <2>1, SolePlace DEF SoleInv
<1>7. SpaceInv'
  BY <1>1, <1>2, <1>3, <1>6, SpaceVacated DEF IsAlive
<1>8. /\ handle' \in [Users -> [Vars -> {None} \cup Made]]
      /\ \A t \in Users, x \in Vars : handle'[t][x] \in {handle[t][x], None}
  BY <1>1, <1>2
<1>9. KindInv'
  BY <1>1, <1>2, <1>5, <1>8, KindStep
<1>10. UserInv' /\ Making' = Making
  BY <1>1, <1>2, <1>5 DEF UserInv, Making
<1>11. TupleInv'
  BY <1>1, <1>2, <1>5, <1>10, TuplesSame
<1>12. SoleInv'
  <2> SUFFICES ASSUME NEW j \in Made' \ astray'
               PROVE  Sole(Hold(handle, j), BusySet(user, j), made[j].state)'
    BY DEF SoleInv
  <2>1. j \in Made \ astray /\ j # None
    BY <1>2, <1>5 DEF Made, None
  <2>2. Hold(handle', j) = Hold(handle, j) \ {<<u, v>>}
    <3>1. SetHandle(u, v, None)
      BY <1>2 DEF SetHandle
    <3> QED
      BY <1>1, <1>3, <2>1, <3>1, HandleChange
  <2>3. CASE j = i
    BY <1>2, <1>5, <1>6, <2>1, <2>2, <2>3 DEF Sole, IsAlive
  <2>4. CASE j # i
    <3>1. Hold(handle', j) = Hold(handle, j)
      BY <2>2, <2>4 DEF Hold, i
    <3> QED
      BY <1>1, <1>2, <1>5, <2>1, <2>4, <3>1, SoleSame
  <2> QED
    BY <2>3, <2>4
<1> QED
  BY <1>1, <1>2, <1>5, <1>7, <1>8, <1>9, <1>10, <1>11, <1>12 DEF IInv, TypeOK, SpaceInv

LEMMA DestroyBeginsStep ==
  ASSUME IInv, NEW u \in Users, NEW v \in ThreadVars, DestroyBegins(u, v)
  PROVE  IInv'
<1> DEFINE i == handle[u][v]
           c == [at |-> "destroying", id |-> i]
<1>1. /\ TypeOK /\ UserInv /\ KindInv /\ SpaceInv /\ TupleInv /\ SoleInv
      /\ handle \in [Users -> [Vars -> {None} \cup Made]] /\ astray \subseteq Made
  BY Parts
<1>2. /\ ~stopped /\ i # None /\ user[u] = Idle
      /\ user' = [user EXCEPT ![u] = c]
      /\ handle' = [handle EXCEPT ![u][v] = None]
      /\ UNCHANGED <<made, occupant, tuples, astray, strayed, stopped>>
  BY DEF DestroyBegins, Ready
<1>3. v \in Vars /\ i \in Made /\ Made' = Made
  BY <1>1, <1>2 DEF Vars, Made
<1>4. /\ c \in Doing(Len(made)) /\ c.at # "tuple" /\ \A j : Holding(c, j) <=> j = i
  BY <1>3 DEF Doing, Holding, Made
<1>5. made[i].kind = "thread"
  BY <1>1, <1>2 DEF KindInv, IsKind
<1> HIDE DEF i, c
<1>6. UserInv'
  BY <1>1, <1>2, <1>4, UserStepSame
<1>7. user'[u] = c /\ \A t \in Users : t # u => user'[t] = user[t]
  BY <1>1, <1>2 DEF UserInv
<1>8. /\ handle' \in [Users -> [Vars -> {None} \cup Made]]
      /\ \A t \in Users, x \in Vars : handle'[t][x] \in {handle[t][x], None}
  BY <1>1, <1>2
<1>9. KindInv'
  <2>1. \A t \in Users : \A j \in Made' : Holding(user'[t], j) =>
          Holding(user[t], j) \/ made'[j].kind = "thread"
    BY <1>2, <1>4, <1>5, <1>7
  <2> QED
    BY <1>1, <1>2, <1>3, <1>8, <2>1, KindStep
<1>10. SpaceInv'
  BY <1>1, <1>2, <1>3, SpaceSame
<1>11. TupleInv'
  <2>1. Making' = Making
    <3>1. user[u].at # "tuple"
      BY <1>2 DEF Idle
    <3> QED
      BY <1>1, <1>2, <1>4, <3>1, MakingSame
  <2> QED
    BY <1>1, <1>2, <1>3, <2>1, TuplesSame
<1>12. SoleInv'
  <2> SUFFICES ASSUME NEW j \in Made' \ astray'
               PROVE  Sole(Hold(handle, j), BusySet(user, j), made[j].state)'
    BY DEF SoleInv
  <2>1. j \in Made \ astray /\ j # None
    BY <1>2, <1>3 DEF Made, None
  <2>2. Hold(handle', j) = Hold(handle, j) \ {<<u, v>>}
    <3>1. SetHandle(u, v, None)
      BY <1>2 DEF SetHandle
    <3> QED
      BY <1>1, <1>3, <2>1, <3>1, HandleChange
  <2>3. CASE j = i
    <3>1. <<u, v>> \in Hold(handle, j)
      BY <1>3, <2>3 DEF Hold, i
    <3>2. IsAlive(made[j].state) /\ Hold(handle, j) = {<<u, v>>} /\ BusySet(user, j) = {}
      BY <1>1, <1>2, <2>1, <3>1, SolePlace DEF SoleInv
    <3>3. BusySet(user', j) = {u}
      BY <1>1, <1>2, <1>4, <2>3, <3>2, UserChange
    <3> QED
      BY <1>2, <2>2, <3>2, <3>3 DEF Sole
  <2>4. CASE j # i
    <3>1. Hold(handle', j) = Hold(handle, j)
      BY <2>2, <2>4 DEF Hold, i
    <3>2. BusySet(user', j) = BusySet(user, j)
      <4>1. BusySet(user', j) = BusySet(user, j) \ {u}
        BY <1>1, <1>2, <1>4, <2>4, UserChange
      <4> QED
        BY <1>2, <4>1, IdleHoldsNone DEF BusySet
    <3> QED
      BY <1>1, <1>2, <2>1, <3>1, <3>2, SoleSame
  <2> QED
    BY <2>3, <2>4
<1> QED
  BY <1>1, <1>2, <1>3, <1>6, <1>8, <1>9, <1>10, <1>11, <1>12 DEF IInv, TypeOK, SpaceInv

\* A user that destroys a task which is not astray finds it at its address.
LEMMA FindsItsTask ==
  ASSUME IInv, ~stopped, NEW u \in Users, NEW i \in Made \ astray, Holding(user[u], i)
  PROVE  /\ IsAlive(made[i].state) /\ Hold(handle, i) = {} /\ BusySet(user, i) = {u}
         /\ occupant[made[i].address] = i /\ made[i].kind = "thread"
<1>1. KindInv /\ SpaceInv /\ SoleInv
  BY Parts
<1>2. u \in BusySet(user, i)
  BY DEF BusySet
<1>3. IsAlive(made[i].state) /\ Hold(handle, i) = {} /\ BusySet(user, i) = {u}
  BY <1>1, <1>2, SolePlace DEF SoleInv
<1> QED
  BY <1>1, <1>3 DEF SpaceInv, OccupancyInv, KindInv, IsAlive

LEMMA DestroyAsksStep ==
  ASSUME IInv, NEW u \in Users, DestroyAsks(u)
  PROVE  IInv'
<1> DEFINE i == user[u].id
           found == occupant[made[i].address]
           c == IF IsTask(found) /\ Alive(found) THEN [at |-> "deleting", id |-> i] ELSE Idle
<1>1. /\ TypeOK /\ UserInv /\ KindInv /\ SpaceInv /\ TupleInv /\ SoleInv
      /\ handle \in [Users -> [Vars -> {None} \cup Made]] /\ astray \subseteq Made
  BY Parts
<1>2. /\ ~stopped /\ user[u].at = "destroying"
      /\ strayed' = (strayed \/ found # i) /\ stopped' = ~IsTask(found)
      /\ user' = [user EXCEPT ![u] = c]
      /\ UNCHANGED <<made, occupant, handle, tuples, astray>>
  BY DEF DestroyAsks
<1>3. i \in Made /\ Made' = Made /\ \A j : Holding(user[u], j) <=> j = i
  BY <1>1, <1>2, WhatUserDoes DEF Made
<1>4. /\ c \in Doing(Len(made)) /\ c.at # "tuple" /\ \A j : Holding(c, j) => j = i
  BY <1>3 DEF Doing, Holding, Made, Idle
<1>5. i \notin astray => Holding(c, i)
  <2>1. ASSUME i \notin astray
        PROVE  IsTask(found) /\ Alive(found)
    <3>1. found = i /\ IsAlive(made[i].state) /\ made[i].kind = "thread"
      BY <1>2, <1>3, <2>1, FindsItsTask
    <3>2. i # None
      BY <1>3 DEF Made, None
    <3> HIDE DEF found, i
    <3> QED
      BY <3>1, <3>2 DEF IsTask, Alive, IsAlive
  <2> QED
    BY <2>1 DEF Holding
<1>6. strayed' \in BOOLEAN /\ stopped' \in BOOLEAN
  BY <1>1, <1>2 DEF TypeOK
<1> HIDE DEF i, c, found
<1>7. UserInv'
  BY <1>1, <1>2, <1>4, UserStepSame
<1>8. user'[u] = c /\ \A t \in Users : t # u => user'[t] = user[t]
  BY <1>1, <1>2 DEF UserInv
<1>9. KindInv'
  <2>1. \A t \in Users : \A j \in Made' : Holding(user'[t], j) => Holding(user[t], j)
    BY <1>3, <1>4, <1>8
  <2> QED
    BY <1>1, <1>2, <1>3, <2>1, KindStep
<1>10. SpaceInv'
  BY <1>1, <1>2, <1>3, SpaceSame
<1>11. TupleInv'
  <2>1. Making' = Making
    BY <1>1, <1>2, <1>4, MakingSame
  <2> QED
    BY <1>1, <1>2, <1>3, <2>1, TuplesSame
<1>12. SoleInv'
  <2> SUFFICES ASSUME NEW j \in Made' \ astray'
               PROVE  Sole(Hold(handle, j), BusySet(user, j), made[j].state)'
    BY DEF SoleInv
  <2>1. j \in Made \ astray
    BY <1>2, <1>3
  <2>2. Hold(handle', j) = Hold(handle, j)
    BY <1>2
  <2>3. BusySet(user', j) = BusySet(user, j)
    <3>1. Holding(c, j) <=> Holding(user[u], j)
      BY <1>3, <1>4, <1>5, <2>1
    <3> QED
      BY <1>8, <3>1 DEF BusySet
  <2> QED
    BY <1>1, <1>2, <2>1, <2>2, <2>3, SoleSame
<1> QED
  BY <1>1, <1>2, <1>3, <1>6, <1>7, <1>9, <1>10, <1>11, <1>12 DEF IInv, TypeOK, SpaceInv

LEMMA DestroyDeletesStep ==
  ASSUME IInv, NEW u \in Users, DestroyDeletes(u)
  PROVE  IInv'
<1> DEFINE i == user[u].id
           found == occupant[made[i].address]
<1>1. /\ TypeOK /\ UserInv /\ KindInv /\ SpaceInv /\ TupleInv /\ SoleInv
      /\ handle \in [Users -> [Vars -> {None} \cup Made]] /\ astray \subseteq Made
      /\ strayed \in BOOLEAN
  BY Parts DEF TypeOK
<1>2. /\ ~stopped /\ user[u].at = "deleting"
      /\ user' = [user EXCEPT ![u] = Idle]
      /\ UNCHANGED <<handle, tuples>>
      /\ IF IsTask(found) /\ Alive(found)
         THEN /\ Become(found, "gone") /\ Vacate(found)
              /\ strayed' = (strayed \/ found # i)
              /\ astray' = IF found = i THEN astray ELSE astray \cup {found}
              /\ UNCHANGED stopped
         ELSE /\ strayed' = TRUE /\ stopped' = TRUE
              /\ UNCHANGED <<made, occupant, astray>>
  BY DEF DestroyDeletes
<1>3. i \in Made /\ \A j : Holding(user[u], j) <=> j = i
  BY <1>1, <1>2, WhatUserDoes
<1>4. found \in {None} \cup Made
  <2>1. made[i].address \in Addresses
    BY <1>1, <1>3, MadeFacts
  <2> QED
    BY <1>1, <2>1 DEF TypeOK
<1>5. Idle \in Doing(Len(made)) /\ Idle.at # "tuple"
  BY DEF Doing, Idle
<1>6. i \notin astray => found = i
  BY <1>2, <1>3, FindsItsTask
<1> HIDE DEF i, found
<1>7. user'[u] = Idle /\ \A t \in Users : t # u => user'[t] = user[t]
  BY <1>1, <1>2 DEF UserInv
<1>8. \A t \in Users : \A j : Holding(user'[t], j) => Holding(user[t], j)
  BY <1>7, IdleHoldsNone
<1>9. Making' = Making
  BY <1>1, <1>2, <1>5, MakingSame
<1>10. CASE IsTask(found) /\ Alive(found)
  <2>1. /\ Become(found, "gone") /\ Vacate(found) /\ strayed' \in BOOLEAN
        /\ astray' = (IF found = i THEN astray ELSE astray \cup {found})
        /\ UNCHANGED stopped
        /\ found \in Made /\ made[found].kind = "thread"
    BY <1>1, <1>2, <1>4, <1>10 DEF IsTask
  <2>2. /\ made' \in Seq(KernelObjects) /\ Len(made') = Len(made) /\ Made' = Made
        /\ \A j \in Made : /\ made'[j].kind = made[j].kind
                           /\ made'[j].tuple = made[j].tuple
                           /\ made'[j].state = IF j = found THEN "gone" ELSE made[j].state
    BY <1>1, <2>1, BecomeFacts DEF States
  <2>3. SpaceInv'
    <3>1. made[found].state # "gone"
      BY <1>10 DEF Alive
    <3> QED
      BY <1>1, <2>1, <3>1, SpaceVacated
  <2>4. UserInv'
    BY <1>1, <1>2, <1>5, <2>2, UserStepSame
  <2>5. KindInv'
    <3>1. \A j \in astray' : j \in astray \/ made'[j].kind = "thread"
      BY <2>1, <2>2
    <3> QED
      BY <1>1, <1>2, <1>8, <2>2, <3>1, KindStep
  <2>6. TupleInv'
    BY <1>1, <1>2, <1>9, <2>1, <2>2, TuplesSame
  <2>7. SoleInv'
    <3> SUFFICES ASSUME NEW j \in Made' \ astray'
                 PROVE  Sole(Hold(handle, j), BusySet(user, j), made[j].state)'
      BY DEF SoleInv
    <3>1. j \in Made \ astray
      BY <2>1, <2>2
    <3>2. BusySet(user', j) = BusySet(user, j) \ {u}
      BY <1>1, <1>2, IdleHoldsNone, UserChange
    <3>3. CASE j = found
      <4>1. j = i
        BY <2>1, <3>3
      <4>2. Hold(handle, j) = {} /\ BusySet(user, j) = {u}
        BY <1>2, <1>3, <3>1, <4>1, FindsItsTask
      <4> QED
        BY <1>2, <2>2, <3>1, <3>2, <3>3, <4>2 DEF Sole, IsAlive
    <3>4. CASE j # found
      <4>1. j # i
        BY <1>6, <3>1, <3>4
      <4>2. BusySet(user', j) = BusySet(user, j)
        BY <1>3, <3>2, <4>1 DEF BusySet
      <4> QED
        BY <1>1, <1>2, <2>2, <3>1, <3>4, <4>2, SoleSame
    <3> QED
      BY <3>3, <3>4
  <2>8. astray' \subseteq Made'
    BY <1>1, <2>1, <2>2
  <2> QED
    BY <1>1, <1>2, <2>1, <2>2, <2>3, <2>4, <2>5, <2>6, <2>7, <2>8 DEF IInv, TypeOK, SpaceInv
<1>11. CASE ~(IsTask(found) /\ Alive(found))
  <2>1. /\ strayed' = TRUE /\ stopped' = TRUE
        /\ UNCHANGED <<made, occupant, astray>> /\ Made' = Made
    BY <1>2, <1>11 DEF Made
  <2>2. UserInv'
    BY <1>1, <1>2, <1>5, <2>1, UserStepSame
  <2>3. KindInv'
    BY <1>1, <1>2, <1>8, <2>1, KindStep
  <2>4. SpaceInv'
    BY <1>1, <2>1, SpaceSame
  <2>5. TupleInv'
    BY <1>1, <1>2, <1>9, <2>1, TuplesSame
  <2>6. SoleInv'
    BY <2>1 DEF SoleInv
  <2> QED
    BY <1>1, <1>2, <2>1, <2>2, <2>3, <2>4, <2>5, <2>6 DEF IInv, TypeOK, SpaceInv
<1> QED
  BY <1>10, <1>11

LEMMA SuspendOrResumeStep ==
  ASSUME IInv, NEW u \in Users, NEW v \in ThreadVars, NEW state \in {"live", "suspended"},
         SuspendOrResume(u, v, state)
  PROVE  IInv'
<1> DEFINE i == handle[u][v]
           found == occupant[made[i].address]
<1>1. /\ TypeOK /\ UserInv /\ KindInv /\ SpaceInv /\ TupleInv /\ SoleInv
      /\ handle \in [Users -> [Vars -> {None} \cup Made]] /\ astray \subseteq Made
      /\ strayed \in BOOLEAN
  BY Parts DEF TypeOK
<1>2. /\ ~stopped /\ i # None
      /\ UNCHANGED <<occupant, handle, user, tuples, astray>>
      /\ IF found = i /\ Alive(i)
         THEN Become(i, state) /\ UNCHANGED <<strayed, stopped>>
         ELSE strayed' = TRUE /\ stopped' = TRUE /\ UNCHANGED made
  BY DEF SuspendOrResume, Ready
<1>3. i \in Made
  BY <1>1, <1>2 DEF Vars
<1> HIDE DEF i, found
<1>4. CASE found = i /\ Alive(i)
  <2>1. Become(i, state) /\ UNCHANGED <<strayed, stopped>> /\ IsAlive(made[i].state)
    BY <1>2, <1>4 DEF Alive, IsAlive
  <2>2. /\ made' \in Seq(KernelObjects) /\ Len(made') = Len(made) /\ Made' = Made
        /\ \A j \in Made : /\ made'[j].kind = made[j].kind
                           /\ made'[j].tuple = made[j].tuple
                           /\ made'[j].address = made[j].address
                           /\ made'[j].state = IF j = i THEN state ELSE made[j].state
    BY <1>1, <1>3, <2>1, BecomeFacts DEF States
  <2>3. \A j \in Made : /\ IsAlive(made'[j].state) <=> IsAlive(made[j].state)
                        /\ made'[j].state = "gone" <=> made[j].state = "gone"
    BY <2>1, <2>2 DEF IsAlive
  <2>4. SpaceInv'
    BY <1>1, <1>2, <2>2, <2>3, SpaceSame
  <2>5. UserInv' /\ Making' = Making
    BY <1>1, <1>2, <2>2 DEF UserInv, Making
  <2>6. KindInv'
    BY <1>1, <1>2, <2>2, KindStep
  <2>7. TupleInv'
    BY <1>1, <1>2, <2>1, <2>2, <2>5, TuplesSame
  <2>8. SoleInv'
    <3> SUFFICES ASSUME NEW j \in Made' \ astray'
                 PROVE  Sole(Hold(handle, j), BusySet(user, j), made[j].state)'
      BY DEF SoleInv
    <3> QED
      BY <1>1, <1>2, <2>2, <2>3, SoleSame
  <2> QED
    BY <1>1, <1>2, <2>1, <2>2, <2>4, <2>5, <2>6, <2>7, <2>8 DEF IInv, TypeOK, SpaceInv
<1>5. CASE ~(found = i /\ Alive(i))
  <2>1. strayed' = TRUE /\ stopped' = TRUE /\ UNCHANGED made /\ Made' = Made
    BY <1>2, <1>5 DEF Made
  <2>2. UserInv' /\ Making' = Making
    BY <1>1, <1>2, <2>1 DEF UserInv, Making
  <2>3. KindInv'
    BY <1>1, <1>2, <2>1, KindStep
  <2>4. SpaceInv'
    BY <1>1, <1>2, <2>1, SpaceSame
  <2>5. TupleInv'
    BY <1>1, <1>2, <2>1, <2>2, TuplesSame
  <2>6. SoleInv'
    BY <2>1 DEF SoleInv
  <2> QED
    BY <1>1, <1>2, <2>1, <2>2, <2>3, <2>4, <2>5, <2>6 DEF IInv, TypeOK, SpaceInv
<1> QED
  BY <1>4, <1>5

-----------------------------------------------------------------------------
(* The steps of tasks.                                                     *)

\* A task that ends clears the object it was given.  Where that does not hold
\* its handle, it and the task whose handle it held are astray.
LEMMA ExitStep ==
  ASSUME IInv, NEW i \in Made, Exit(i)
  PROVE  IInv'
<1> DEFINE u == made[i].home[1]
           v == made[i].home[2]
           x == handle[u][v]
<1>1. /\ TypeOK /\ UserInv /\ KindInv /\ SpaceInv /\ TupleInv /\ SoleInv
      /\ handle \in [Users -> [Vars -> {None} \cup Made]] /\ astray \subseteq Made
  BY Parts
<1>2. /\ ~stopped /\ made[i].kind = "thread" /\ made[i].state = "live"
      /\ handle' = [handle EXCEPT ![u][v] = None]
      /\ astray' = IF x = i THEN astray ELSE astray \cup {i} \cup ({x} \ {None})
      /\ Become(i, "ended")
      /\ UNCHANGED <<occupant, user, tuples, strayed, stopped>>
  BY DEF Exit, Running, Astray
<1>3. u \in Users /\ v \in ThreadVars /\ v \in Vars
  BY <1>1, <1>2, MadeFacts DEF Vars
<1>4. x \in {None} \cup Made /\ (x # None => made[x].kind = "thread")
  BY <1>1, <1>3 DEF KindInv, IsKind
<1> HIDE DEF u, v
<1>5. /\ made' \in Seq(KernelObjects) /\ Len(made') = Len(made) /\ Made' = Made
      /\ \A j \in Made : /\ made'[j].kind = made[j].kind
                         /\ made'[j].tuple = made[j].tuple
                         /\ made'[j].address = made[j].address
                         /\ made'[j].state = IF j = i THEN "ended" ELSE made[j].state
  BY <1>1, <1>2, BecomeFacts DEF States
<1>6. astray' \subseteq Made /\ \A j \in astray' : j \in astray \/ made'[j].kind = "thread"
  BY <1>1, <1>2, <1>4, <1>5
<1>7. /\ handle' \in [Users -> [Vars -> {None} \cup Made]]
      /\ \A t \in Users, w \in Vars : handle'[t][w] \in {handle[t][w], None}
  BY <1>1, <1>2, <1>3
<1>8. KindInv'
  BY <1>1, <1>2, <1>5, <1>6, <1>7, KindStep
<1>9. SpaceInv'
  BY <1>1, <1>2, <1>5, SpaceSame
<1>10. UserInv' /\ Making' = Making
  BY <1>1, <1>2, <1>5 DEF UserInv, Making
<1>11. TupleInv'
  BY <1>1, <1>2, <1>5, <1>10, TuplesSame
<1>12. SoleInv'
  <2> SUFFICES ASSUME NEW j \in Made' \ astray'
               PROVE  Sole(Hold(handle, j), BusySet(user, j), made[j].state)'
    BY DEF SoleInv
  <2>1. j \in Made \ astray /\ j # None /\ None # j
    BY <1>2, <1>5 DEF Made, None
  <2>2. Hold(handle', j) = Hold(handle, j) \ {<<u, v>>}
    <3>1. SetHandle(u, v, None)
      BY <1>2 DEF SetHandle
    <3> QED
      BY <1>1, <1>3, <2>1, <3>1, HandleChange
  <2>3. BusySet(user', j) = BusySet(user, j)
    BY <1>2
  <2>4. Sole(Hold(handle, j), BusySet(user, j), made[j].state)
    BY <1>1, <1>2, <2>1 DEF SoleInv
  <2>5. CASE j = i
    <3>1. x = i
      BY <1>2, <2>5
    <3>2. <<u, v>> \in Hold(handle, i)
      BY <1>3, <3>1 DEF Hold
    <3>3. Hold(handle, i) = {<<u, v>>} /\ BusySet(user, i) = {}
      BY <2>4, <2>5, <3>2, SolePlace
    <3>4. Hold(handle', j) = {} /\ BusySet(user', j) = {} /\ ~IsAlive(made'[j].state)
      BY <1>5, <2>2, <2>3, <2>5, <3>3 DEF IsAlive
    <3> QED
      BY <3>4, SolePlace
  <2>6. CASE j # i
    <3>1. x # j
      BY <1>2, <2>1, <2>6
    <3>2. Hold(handle', j) = Hold(handle, j)
      BY <2>2, <3>1 DEF Hold
    <3> QED
      BY <1>1, <1>2, <1>5, <2>1, <2>3, <2>6, <3>2, SoleSame
  <2> QED
    BY <2>5, <2>6
<1> QED
  BY <1>1, <1>2, <1>5, <1>6, <1>7, <1>8, <1>9, <1>10, <1>11, <1>12 DEF IInv, TypeOK, SpaceInv

LEMMA EntryReturnsStep ==
  ASSUME IInv, NEW i \in Made, EntryReturns(i)
  PROVE  IInv'
<1>1. /\ TypeOK /\ UserInv /\ KindInv /\ SpaceInv /\ TupleInv /\ SoleInv
      /\ astray \subseteq Made
  BY Parts
<1>2. /\ ~stopped /\ stopped' = TRUE
      /\ IF made[i].tuple = "none"
         THEN UNCHANGED <<made, tuples>>
         ELSE /\ made' = [made EXCEPT ![i].tuple = "freed"]
              /\ tuples' = tuples - 1
      /\ UNCHANGED <<occupant, handle, user, astray, strayed>>
  BY DEF EntryReturns, Running
<1>3. Making' = Making
  BY <1>2 DEF Making
<1>4. CASE made[i].tuple = "none"
  <2>1. UNCHANGED <<made, tuples>> /\ Made' = Made
    BY <1>2, <1>4 DEF Made
  <2>2. UserInv'
    BY <1>1, <1>2, <2>1 DEF UserInv
  <2>3. KindInv'
    BY <1>1, <1>2, <2>1, KindStep
  <2>4. SpaceInv'
    BY <1>1, <1>2, <2>1, SpaceSame
  <2>5. TupleInv'
    BY <1>1, <1>2, <1>3, <2>1, TuplesSame
  <2>6. SoleInv'
    BY <1>2 DEF SoleInv
  <2> QED
    BY <1>1, <1>2, <2>1, <2>2, <2>3, <2>4, <2>5, <2>6 DEF IInv, TypeOK, SpaceInv
<1>5. CASE made[i].tuple # "none"
  <2>1. SetTuple(i, "freed") /\ tuples' = tuples - 1
    BY <1>2, <1>5 DEF SetTuple
  <2>2. /\ made' \in Seq(KernelObjects) /\ Len(made') = Len(made) /\ Made' = Made
        /\ \A j \in Made : /\ made'[j].kind = made[j].kind
                           /\ made'[j].address = made[j].address
                           /\ made'[j].state = made[j].state
                           /\ made'[j].tuple = IF j = i THEN "freed" ELSE made[j].tuple
    BY <1>1, <2>1, TupleFacts
  <2>3. UserInv'
    BY <1>1, <1>2, <2>2 DEF UserInv
  <2>4. KindInv'
    BY <1>1, <1>2, <2>2, KindStep
  <2>5. SpaceInv'
    BY <1>1, <1>2, <2>2, SpaceSame
  <2>6. WithTuple' = WithTuple \ {i} /\ i \in WithTuple
    <3>1. made[i].tuple \in {"shared", "entry"}
      BY <1>1, <1>2, <1>5, MadeFacts DEF TupleInv
    <3> QED
      BY <2>2, <3>1 DEF WithTuple
  <2>7. Cardinality(WithTuple') = Cardinality(WithTuple) - 1 /\ Cardinality(WithTuple') \in Nat
    <3>1. IsFiniteSet(WithTuple')
      BY <1>1, <2>6, Counts, FS_RemoveElement
    <3> QED
      BY <1>1, <2>6, <3>1, Counts, FS_RemoveElement, FS_CardinalityType
  <2>8. tuples = Cardinality(Making) + Cardinality(WithTuple') + 1
    BY <1>1, <2>7, Counts DEF TupleInv
  <2>9. TupleInv'
    BY <1>1, <1>2, <1>3, <2>1, <2>7, <2>8, Counts DEF TupleInv
  <2>10. tuples' \in 0 .. HeapBlocks
    BY <1>1, <2>1, <2>7, <2>8, Counts, LifetimesAssumption DEF TypeOK
  <2>11. SoleInv'
    BY <1>2 DEF SoleInv
  <2> QED
    BY <1>1, <1>2, <2>2, <2>3, <2>4, <2>5, <2>9, <2>10, <2>11 DEF IInv, TypeOK, SpaceInv
<1> QED
  BY <1>4, <1>5

LEMMA IdleFreesStep ==
  ASSUME IInv, NEW i \in Made, IdleFrees(i)
  PROVE  IInv'
<1>1. /\ TypeOK /\ UserInv /\ KindInv /\ SpaceInv /\ TupleInv /\ SoleInv
      /\ astray \subseteq Made
  BY Parts
<1>2. /\ ~stopped /\ made[i].state = "ended" /\ Become(i, "gone") /\ Vacate(i)
      /\ UNCHANGED <<handle, user, tuples, astray, strayed, stopped>>
  BY DEF IdleFrees
<1>3. /\ made' \in Seq(KernelObjects) /\ Len(made') = Len(made) /\ Made' = Made
      /\ \A j \in Made : /\ made'[j].kind = made[j].kind
                         /\ made'[j].tuple = made[j].tuple
                         /\ made'[j].state = IF j = i THEN "gone" ELSE made[j].state
  BY <1>1, <1>2, BecomeFacts DEF States
<1>4. SpaceInv'
  BY <1>1, <1>2, SpaceVacated
<1>5. UserInv' /\ Making' = Making
  BY <1>1, <1>2, <1>3 DEF UserInv, Making
<1>6. KindInv'
  BY <1>1, <1>2, <1>3, KindStep
<1>7. TupleInv'
  BY <1>1, <1>2, <1>3, <1>5, TuplesSame
<1>8. SoleInv'
  <2> SUFFICES ASSUME NEW j \in Made' \ astray'
               PROVE  Sole(Hold(handle, j), BusySet(user, j), made[j].state)'
    BY DEF SoleInv
  <2>1. IsAlive(made'[j].state) <=> IsAlive(made[j].state)
    BY <1>2, <1>3 DEF IsAlive
  <2> QED
    BY <1>1, <1>2, <1>3, <2>1, SoleSame
<1> QED
  BY <1>1, <1>2, <1>3, <1>4, <1>5, <1>6, <1>7, <1>8 DEF IInv, TypeOK, SpaceInv

-----------------------------------------------------------------------------
LEMMA InitInv == Init => IInv
<1> SUFFICES ASSUME Init
             PROVE  IInv
  OBVIOUS
<1> USE DEF Init
<1>1. Made = {} /\ made \in Seq(KernelObjects)
  BY DEF Made
<1>2. \A u \in Users : user[u] = Idle /\ Idle \in Doing(Len(made)) /\ Idle.at = "idle"
  BY DEF Doing, Idle
<1>3. TypeOK
  <2>1. occupant \in [Addresses -> {None} \cup Made] /\ \A a \in Addresses : occupant[a] = None
    OBVIOUS
  <2>2. handle \in [Users -> [Vars -> {None} \cup Made]]
    OBVIOUS
  <2>3. tuples \in 0 .. HeapBlocks
    BY LifetimesAssumption
  <2> QED
    BY <1>1, <2>1, <2>2, <2>3 DEF TypeOK
<1>4. UserInv
  BY <1>2 DEF UserInv
<1>5. KindInv
  BY <1>1, LifetimesAssumption DEF KindInv, IsKind, Vars
<1>6. OccupancyInv
  BY <1>1 DEF OccupancyInv
<1>7. TupleInv
  <2>1. Making = {}
    BY <1>2 DEF Making
  <2>2. WithTuple = {}
    BY <1>1 DEF WithTuple
  <2>3. Cardinality(Making) = 0 /\ Cardinality(WithTuple) = 0
    BY <2>1, <2>2, FS_EmptySet
  <2> QED
    BY <1>1, <2>3 DEF TupleInv
<1>8. SoleInv
  BY <1>1 DEF SoleInv
<1> QED
  BY <1>3, <1>4, <1>5, <1>6, <1>7, <1>8 DEF IInv

LEMMA NextInv == IInv /\ [Next]_vars => IInv'
<1> SUFFICES ASSUME IInv, [Next]_vars
             PROVE  IInv'
  OBVIOUS
<1>1. ASSUME NEW u \in Users, NEW v \in ThreadVars,
             \/ MakeTuple(u, v) \/ CreatePlain(u, v) \/ DestroyBegins(u, v)
             \/ \E state \in {"live", "suspended"} : SuspendOrResume(u, v, state)
      PROVE  IInv'
  BY <1>1, MakeTupleStep, CreatePlainStep, DestroyBeginsStep, SuspendOrResumeStep
<1>2. ASSUME NEW u \in Users, NEW v \in ThreadVars, NEW w \in ThreadVars, Move(u, v, w)
      PROVE  IInv'
  <2>1. v \in Vars /\ w \in Vars /\ KindOf(v) = KindOf(w)
    BY DEF Vars, KindOf
  <2> QED
    BY <1>2, <2>1, MoveStep
<1>3. ASSUME NEW u \in Users, NEW v \in ObjectVars, CreateObject(u, v) \/ DestroyObject(u, v)
      PROVE  IInv'
  BY <1>3, CreateObjectStep, DestroyObjectStep
<1>4. ASSUME NEW u \in Users, NEW v \in ObjectVars, NEW w \in ObjectVars, Move(u, v, w)
      PROVE  IInv'
  <2>1. v \in Vars /\ w \in Vars /\ KindOf(v) = KindOf(w)
    BY LifetimesAssumption DEF Vars, KindOf
  <2> QED
    BY <1>4, <2>1, MoveStep
<1>5. ASSUME NEW u \in Users,
             \/ CreateMulparam(u) \/ CreateFails(u) \/ Store(u)
             \/ DestroyAsks(u) \/ DestroyDeletes(u)
      PROVE  IInv'
  BY <1>5, CreateMulparamStep, CreateFailsStep, StoreStep, DestroyAsksStep, DestroyDeletesStep
<1>6. ASSUME NEW i \in Made, Exit(i) \/ EntryReturns(i) \/ IdleFrees(i)
      PROVE  IInv'
  BY <1>6, ExitStep, EntryReturnsStep, IdleFreesStep
<1>7. ASSUME UNCHANGED vars
      PROVE  IInv'
  BY <1>7 DEF vars, IInv, TypeOK, UserInv, KindInv, IsKind, OccupancyInv, TupleInv,
     Making, WithTuple, SoleInv, Made
<1> QED
  BY <1>1, <1>2, <1>3, <1>4, <1>5, <1>6, <1>7 DEF Next

LEMMA Invariance == Spec => []IInv
BY InitInv, NextInv, PTL DEF Spec

\* Kernel objects, handles and the heap's room keep their types and bounds,
\* and no address says that it holds an object that is elsewhere.
THEOREM TypeCorrect == Spec => []TypeOK
<1>1. IInv => TypeOK
  BY DEF IInv
<1> QED
  BY Invariance, <1>1, PTL

\* As long as the program runs, no tuple of arguments is freed by creator or
\* task but when the creation fails: the heap holds one for each creation under
\* way and one for every thread ever made with mulparam, alive or gone.
THEOREM TuplesAreAccounted == Spec => []TuplesAccounted
<1>1. IInv => TuplesAccounted
  BY DEF IInv, TupleInv, TuplesAccounted, Making, WithTuple
<1> QED
  BY Invariance, <1>1, PTL

\* Through every creation, move and destruction, and every exit() on an object
\* that holds the handle of its task, a handle is in one place while its object
\* lives, and in none after.
THEOREM HandlesHaveOneHolder == Spec => []OneHolder
<1>1. ASSUME IInv, ~stopped, NEW i \in Made \ astray
      PROVE  Cardinality(Holders(i)) + Cardinality(Busy(i)) = IF Alive(i) THEN 1 ELSE 0
  <2>1. Busy(i) = BusySet(user, i) /\ Holders(i) = Hold(handle, i)
        /\ (Alive(i) <=> IsAlive(made[i].state))
    BY DEF Busy, BusySet, Holding, Holders, Hold, Alive, IsAlive
  <2>2. Sole(Holders(i), Busy(i), made[i].state)
    BY <1>1, <2>1, Parts DEF SoleInv
  <2>3. Cardinality({}) = 0 /\ \A x : Cardinality({x}) = 1
    BY FS_EmptySet, FS_Singleton
  <2>4. \/ Alive(i) /\ Busy(i) = {} /\ \E h : Holders(i) = {h}
        \/ Alive(i) /\ Holders(i) = {} /\ \E u : Busy(i) = {u}
        \/ ~Alive(i) /\ Holders(i) = {} /\ Busy(i) = {}
    BY <2>1, <2>2 DEF Sole
  <2>5. CASE Alive(i) /\ Busy(i) = {} /\ \E h : Holders(i) = {h}
    <3>1. Cardinality(Holders(i)) = 1 /\ Cardinality(Busy(i)) = 0
      BY <2>3, <2>5
    <3> QED
      BY <2>5, <3>1
  <2>6. CASE Alive(i) /\ Holders(i) = {} /\ \E u : Busy(i) = {u}
    <3>1. Cardinality(Holders(i)) = 0 /\ Cardinality(Busy(i)) = 1
      BY <2>3, <2>6
    <3> QED
      BY <2>6, <3>1
  <2>7. CASE ~Alive(i) /\ Holders(i) = {} /\ Busy(i) = {}
    <3>1. Cardinality(Holders(i)) = 0 /\ Cardinality(Busy(i)) = 0
      BY <2>3, <2>7
    <3> QED
      BY <2>7, <3>1
  <2> QED
    BY <2>4, <2>5, <2>6, <2>7
<1>2. IInv => OneHolder
  BY <1>1 DEF OneHolder
<1> QED
  BY Invariance, <1>2, PTL

\* As long as no task is astray, every handle that reaches the kernel reaches
\* the task it was made for.
LEMMA StraysAfterMissedExit ==
  IInv /\ [Next]_vars => [strayed' => strayed \/ astray # {}]_vars
<1> SUFFICES ASSUME IInv, [Next]_vars, ~strayed, astray = {}
             PROVE  ~strayed' \/ UNCHANGED vars
  OBVIOUS
<1>1. ASSUME NEW u \in Users, DestroyAsks(u)
      PROVE  ~strayed'
  <2>1. /\ ~stopped /\ user[u].at = "destroying"
        /\ strayed' = (strayed \/ occupant[made[user[u].id].address] # user[u].id)
    BY <1>1 DEF DestroyAsks
  <2>2. user[u].id \in Made \ astray /\ Holding(user[u], user[u].id)
    BY <2>1, Parts, WhatUserDoes
  <2> QED
    BY <2>1, <2>2, FindsItsTask
<1>2. ASSUME NEW u \in Users, DestroyDeletes(u)
      PROVE  ~strayed'
  <2> DEFINE i == user[u].id
             found == occupant[made[i].address]
  <2>1. /\ ~stopped /\ user[u].at = "deleting"
        /\ IsTask(found) /\ Alive(found) => strayed' = (strayed \/ found # i)
    BY <1>2 DEF DestroyDeletes
  <2>2. i \in Made \ astray /\ Holding(user[u], i)
    BY <2>1, Parts, WhatUserDoes
  <2>3. found = i /\ IsAlive(made[i].state) /\ made[i].kind = "thread"
    BY <2>1, <2>2, FindsItsTask
  <2>4. i # None
    BY <2>2 DEF Made, None
  <2> QED
    BY <2>1, <2>3, <2>4 DEF IsTask, Alive, IsAlive
<1>3. ASSUME NEW u \in Users, NEW v \in ThreadVars, NEW state \in {"live", "suspended"},
             SuspendOrResume(u, v, state)
      PROVE  ~strayed'
  <2> DEFINE i == handle[u][v]
  <2>1. /\ ~stopped /\ i # None /\ v \in Vars
        /\ occupant[made[i].address] = i /\ Alive(i) => UNCHANGED strayed
    BY <1>3 DEF SuspendOrResume, Ready, Vars
  <2>2. i \in Made \ astray
    BY <2>1, Parts
  <2>3. <<u, v>> \in Hold(handle, i)
    BY <2>1 DEF Hold
  <2> HIDE DEF i
  <2>4. IsAlive(made[i].state)
    BY <2>1, <2>2, <2>3, Parts, SolePlace DEF SoleInv
  <2>5. occupant[made[i].address] = i
    BY <2>2, <2>4, Parts DEF SpaceInv, OccupancyInv, IsAlive
  <2> QED
    BY <2>1, <2>4, <2>5 DEF Alive, IsAlive
<1>4. ASSUME NEW u \in Users, NEW v \in Vars,
             \/ MakeTuple(u, v) \/ CreatePlain(u, v) \/ DestroyBegins(u, v)
             \/ CreateObject(u, v) \/ DestroyObject(u, v)
             \/ \E w \in Vars : Move(u, v, w)
      PROVE  ~strayed'
  BY <1>4 DEF MakeTuple, CreatePlain, DestroyBegins, CreateObject, DestroyObject, Move
<1>5. ASSUME NEW i \in Made, Exit(i) \/ EntryReturns(i) \/ IdleFrees(i)
      PROVE  ~strayed'
  BY <1>5 DEF Exit, Astray, EntryReturns, IdleFrees
<1>6. ASSUME NEW u \in Users, CreateMulparam(u) \/ CreateFails(u) \/ Store(u)
      PROVE  ~strayed'
  BY <1>6 DEF CreateMulparam, CreateFails, Store
<1> QED
  BY <1>1, <1>2, <1>3, <1>4, <1>5, <1>6 DEF Next, Vars

\* A handle reaches a task that is gone only after some task has called exit()
\* on a Thread object that did not, or no longer, hold the handle of that task.
THEOREM StraysAreMissedExits == Spec => StraysOnlyAfterMissedExit
BY Invariance, StraysAfterMissedExit, PTL DEF Spec, StraysOnlyAfterMissedExit
=============================================================================
