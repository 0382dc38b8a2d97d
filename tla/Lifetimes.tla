----------------------------- MODULE Lifetimes -----------------------------
(***************************************************************************)
(* The life of threads and kernel objects (system/inc/emdevif/system/      *)
(* thread.hpp, sys_queue.hpp and their like, with the FreeRTOS             *)
(* implementation in thread.cpp, thread.inl and sys_queue.inl).            *)
(*                                                                         *)
(* A Thread, SysQueue, CountingSemaphore, Mutex or EventGroup object owns  *)
(* the handle of a kernel object: it may be moved, destroyed, or end its   *)
(* scope, all three alike for every class.  A handle is an address and     *)
(* does not say which task or queue lives there; addresses are reused.     *)
(* Thread::create() with mulparam also allocates a tuple of arguments that *)
(* passes from the creator's unique_ptr to the one in the entry's frame.   *)
(*                                                                         *)
(* Every user is a thread of control that works on objects of its own.     *)
(* The tasks it creates run as soon as the kernel knows them, before       *)
(* create() has returned.  What the kernel and its idle task do is         *)
(* modelled from how the code uses them.                                   *)
(***************************************************************************)
EXTENDS Naturals, Sequences, FiniteSets

CONSTANTS Users,       \* the threads of control that create and destroy
          ThreadVars,  \* the Thread objects of each user
          ObjectVars,  \* its SysQueue (semaphore, mutex, event group) objects
          Addresses,   \* where the heap may put a kernel object
          HeapBlocks,  \* kernel objects and tuples the heap has room for
          MaxMade      \* bound on the kernel objects ever made

ASSUME LifetimesAssumption ==
  /\ ThreadVars \cap ObjectVars = {}
  /\ IsFiniteSet(Users) /\ IsFiniteSet(Addresses)
  /\ HeapBlocks \in Nat /\ MaxMade \in Nat

VARIABLES made,     \* the kernel objects in the order they were made
          occupant, \* which of them lives at an address
          handle,   \* handle_ of each object, as an index into made
          user,     \* what each user is doing
          tuples,   \* tuples on the heap
          astray,   \* tasks whose exit() cleared an object without their handle,
                    \* and who suffered from that (history variable)
          strayed,  \* a handle reached the kernel after its task had gone
                    \* (history variable)
          stopped   \* the fatal handler or the kernel stopped the program

vars == <<made, occupant, handle, user, tuples, astray, strayed, stopped>>

Vars == ThreadVars \cup ObjectVars
Made == 1 .. Len(made)
None == 0
Idle == [at |-> "idle"]

Alive(i) == made[i].state \in {"live", "suspended"}

Become(i, state) == made' = [made EXCEPT ![i].state = state]

Holders(i) == {h \in Users \X Vars : handle[h[1]][h[2]] = i}

\* The users that have i in a local variable.
Busy(i) == {u \in Users :
              user[u].at \in {"made", "destroying", "deleting"} /\ user[u].id = i}

-----------------------------------------------------------------------------
(* The heap and the kernel.                                                *)

Free == {a \in Addresses : occupant[a] = None}

Room == Cardinality(Addresses \ Free) + tuples < HeapBlocks

\* A new kernel object, at any free address.  Its home is the object that the
\* result of the creation goes to.
Make(kind, home, tuple) ==
  \E a \in Free :
    /\ made' = Append(made, [kind |-> kind, home |-> home, address |-> a,
                             state |-> "live", tuple |-> tuple])
    /\ occupant' = [occupant EXCEPT ![a] = Len(made) + 1]

CanMake == Len(made) < MaxMade /\ Room /\ Free # {}

\* The address of i is given back.
Vacate(i) == occupant' = [occupant EXCEPT ![made[i].address] = None]

\* The idle task frees a task that deleted itself.
IdleFrees(i) ==
  /\ ~stopped /\ made[i].state = "ended"
  /\ Become(i, "gone") /\ Vacate(i)
  /\ UNCHANGED <<handle, user, tuples, astray, strayed, stopped>>

-----------------------------------------------------------------------------
(* Creation.                                                               *)

Init ==
  /\ made = <<>> /\ occupant = [a \in Addresses |-> None]
  /\ handle = [u \in Users |-> [v \in Vars |-> None]]
  /\ user = [u \in Users |-> Idle]
  /\ tuples = 0 /\ astray = {} /\ strayed = FALSE /\ stopped = FALSE

Ready(u) == ~stopped /\ user[u] = Idle

\* Move-assignment of handle i to object v, which must be empty.
Give(u, v, i) ==
  IF handle[u][v] = None
  THEN handle' = [handle EXCEPT ![u][v] = i] /\ UNCHANGED stopped
  ELSE stopped' = TRUE /\ UNCHANGED handle

\* v = Thread::create(builder, Thread::mulparam, entry, args...) first makes
\* the tuple; without memory it returns an empty Thread.
MakeTuple(u, v) ==
  /\ Ready(u) /\ Room /\ Len(made) < MaxMade
  /\ tuples' = tuples + 1
  /\ user' = [user EXCEPT ![u] = [at |-> "tuple", var |-> v]]
  /\ UNCHANGED <<made, occupant, handle, astray, strayed, stopped>>

CreateMulparam(u) ==
  /\ ~stopped /\ user[u].at = "tuple" /\ CanMake
  /\ Make("thread", <<u, user[u].var>>, "shared")
  /\ user' = [user EXCEPT ![u] = [at |-> "made", var |-> @.var, id |-> Len(made) + 1]]
  /\ UNCHANGED <<handle, tuples, astray, strayed, stopped>>

\* Faulty form of CreateFails: release() without a look at the handle.
CreateFailsReleasing(u) ==
  /\ ~stopped /\ user[u].at = "tuple" /\ ~CanMake
  /\ user' = [user EXCEPT ![u] = Idle]
  /\ UNCHANGED <<made, occupant, handle, tuples, astray, strayed, stopped>>

\* Without a handle the creator's unique_ptr frees the tuple.
CreateFails(u) ==
  /\ ~stopped /\ user[u].at = "tuple" /\ ~CanMake
  /\ tuples' = tuples - 1
  /\ user' = [user EXCEPT ![u] = Idle]
  /\ UNCHANGED <<made, occupant, handle, astray, strayed, stopped>>

\* v = Thread::create(builder, entry, arguments)
CreatePlain(u, v) ==
  /\ Ready(u) /\ CanMake
  /\ Make("thread", <<u, v>>, "none")
  /\ user' = [user EXCEPT ![u] = [at |-> "made", var |-> v, id |-> Len(made) + 1]]
  /\ UNCHANGED <<handle, tuples, astray, strayed, stopped>>

\* Faulty form of Store: the creator's unique_ptr is not released, it frees
\* the tuple that the task uses.
StoreUnreleased(u) ==
  /\ ~stopped /\ user[u].at = "made"
  /\ LET i == user[u].id
     IN  /\ made' = IF made[i].tuple = "shared" THEN [made EXCEPT ![i].tuple = "freed"] ELSE made
         /\ tuples' = IF made[i].tuple = "shared" THEN tuples - 1 ELSE tuples
         /\ Give(u, user[u].var, i)
  /\ user' = [user EXCEPT ![u] = Idle]
  /\ UNCHANGED <<occupant, astray, strayed>>

\* create() releases the tuple to the task and returns; its result is moved
\* to v.  The task may have ended in the meantime.
Store(u) ==
  /\ ~stopped /\ user[u].at = "made"
  /\ LET i == user[u].id
     IN  /\ made' = IF made[i].tuple = "shared" THEN [made EXCEPT ![i].tuple = "entry"] ELSE made
         /\ Give(u, user[u].var, i)
  /\ user' = [user EXCEPT ![u] = Idle]
  /\ UNCHANGED <<occupant, tuples, astray, strayed>>

\* v = SysQueue(builder); the other classes likewise.
CreateObject(u, v) ==
  /\ Ready(u) /\ CanMake
  /\ Make("object", <<u, v>>, "none")
  /\ Give(u, v, Len(made) + 1)
  /\ UNCHANGED <<user, tuples, astray, strayed>>

-----------------------------------------------------------------------------
(* The objects' other methods.                                             *)

\* Faulty form of Move: the source keeps the handle.
MoveCopying(u, v, w) ==
  /\ Ready(u) /\ v # w /\ handle[u][v] # None
  /\ Give(u, w, handle[u][v])
  /\ UNCHANGED <<made, occupant, user, tuples, astray, strayed>>

\* w = std::move(v), for v and w of one class.
Move(u, v, w) ==
  /\ Ready(u) /\ v # w /\ handle[u][v] # None
  /\ IF handle[u][w] = None
     THEN /\ handle' = [handle EXCEPT ![u] = [@ EXCEPT ![v] = None, ![w] = handle[u][v]]]
          /\ UNCHANGED stopped
     ELSE stopped' = TRUE /\ UNCHANGED handle
  /\ UNCHANGED <<made, occupant, user, tuples, astray, strayed>>

\* destroy() and the destructor of a queue or one of its like.
DestroyObject(u, v) ==
  /\ Ready(u) /\ handle[u][v] # None
  /\ Become(handle[u][v], "gone") /\ Vacate(handle[u][v])
  /\ handle' = [handle EXCEPT ![u][v] = None]
  /\ UNCHANGED <<user, tuples, astray, strayed, stopped>>

\* What a handle reaches.  The state of freed memory, or of a queue taken for
\* a task, is anything: nothing is said of what follows.
IsTask(found) == found # None /\ made[found].kind = "thread"

\* Thread::destroy() and the destructor take the handle out of the object ...
DestroyBegins(u, v) ==
  /\ Ready(u) /\ handle[u][v] # None
  /\ user' = [user EXCEPT ![u] = [at |-> "destroying", id |-> handle[u][v]]]
  /\ handle' = [handle EXCEPT ![u][v] = None]
  /\ UNCHANGED <<made, occupant, tuples, astray, strayed, stopped>>

\* ... asks the kernel for the state of the task at its address (of one that
\* has deleted itself it says so: InvalidArgument) ...
DestroyAsks(u) ==
  /\ ~stopped /\ user[u].at = "destroying"
  /\ LET i == user[u].id
         found == occupant[made[i].address]
     IN  /\ strayed' = (strayed \/ found # i)
         /\ stopped' = ~IsTask(found)
         /\ user' = [user EXCEPT ![u] = IF IsTask(found) /\ Alive(found)
                                        THEN [at |-> "deleting", id |-> i] ELSE Idle]
  /\ UNCHANGED <<made, occupant, handle, tuples, astray>>

\* ... and deletes the task that it finds there by then.
DestroyDeletes(u) ==
  /\ ~stopped /\ user[u].at = "deleting"
  /\ LET i == user[u].id
         found == occupant[made[i].address]
     IN  IF IsTask(found) /\ Alive(found)
         THEN /\ Become(found, "gone") /\ Vacate(found)
              /\ strayed' = (strayed \/ found # i)
              /\ astray' = IF found = i THEN astray ELSE astray \cup {found}
              /\ UNCHANGED stopped
         ELSE /\ strayed' = TRUE /\ stopped' = TRUE
              /\ UNCHANGED <<made, occupant, astray>>
  /\ user' = [user EXCEPT ![u] = Idle]
  /\ UNCHANGED <<handle, tuples>>

\* Thread::suspend(v.getHandle()) and Thread::resume(in_isr, v.getHandle())
SuspendOrResume(u, v, state) ==
  /\ Ready(u) /\ handle[u][v] # None
  /\ LET i == handle[u][v]
         found == occupant[made[i].address]
     IN  IF found = i /\ Alive(i)
         THEN Become(i, state) /\ UNCHANGED <<strayed, stopped>>
         ELSE strayed' = TRUE /\ stopped' = TRUE /\ UNCHANGED made
  /\ UNCHANGED <<occupant, handle, user, tuples, astray>>

-----------------------------------------------------------------------------
(* The task.                                                               *)

Running(i) == ~stopped /\ made[i].kind = "thread" /\ made[i].state = "live"

\* exit() is called on the Thread object that task i was given, its home, by
\* now without the handle of i: create() has not yet stored it there, destroy()
\* has taken it out, or it was moved to another object.
Astray(i) ==
  LET u == made[i].home[1]
      v == made[i].home[2]
  IN  astray' = IF handle[u][v] = i THEN astray
                ELSE astray \cup {i} \cup ({handle[u][v]} \ {None})

\* Faulty form of Exit: the object keeps the handle.
ExitKeeping(i) ==
  /\ Running(i)
  /\ Astray(i) /\ Become(i, "ended")
  /\ UNCHANGED <<occupant, handle, user, tuples, strayed, stopped>>

\* th.exit() of task i, with th its home: it clears handle_ of that object,
\* whatever it holds, and deletes the task that runs.  The entry's frame is
\* not unwound: the tuple stays.
Exit(i) ==
  /\ Running(i)
  /\ handle' = [handle EXCEPT ![made[i].home[1]][made[i].home[2]] = None]
  /\ Astray(i) /\ Become(i, "ended")
  /\ UNCHANGED <<occupant, user, tuples, strayed, stopped>>

\* The entry returns: the unique_ptr in its frame frees the tuple, and then
\* the kernel stops the program, as a task may not return.
EntryReturns(i) ==
  /\ Running(i)
  /\ IF made[i].tuple = "none"
     THEN UNCHANGED <<made, tuples>>
     ELSE /\ made' = [made EXCEPT ![i].tuple = "freed"]
          /\ tuples' = tuples - 1
  /\ stopped' = TRUE
  /\ UNCHANGED <<occupant, handle, user, astray, strayed>>

Next ==
  \/ \E u \in Users :
       \/ \E v \in ThreadVars :
            \/ MakeTuple(u, v) \/ CreatePlain(u, v) \/ DestroyBegins(u, v)
            \/ \E state \in {"live", "suspended"} : SuspendOrResume(u, v, state)
            \/ \E w \in ThreadVars : Move(u, v, w)
       \/ \E v \in ObjectVars :
            \/ CreateObject(u, v) \/ DestroyObject(u, v)
            \/ \E w \in ObjectVars : Move(u, v, w)
       \/ CreateMulparam(u) \/ CreateFails(u) \/ Store(u)
       \/ DestroyAsks(u) \/ DestroyDeletes(u)
  \/ \E i \in Made : Exit(i) \/ EntryReturns(i) \/ IdleFrees(i)

Spec == Init /\ [][Next]_vars
-----------------------------------------------------------------------------
Objects(kind, homes) ==
  [kind : {kind}, home : Users \X homes, address : Addresses,
   state : {"live", "suspended", "ended", "gone"},
   tuple : {"none", "shared", "entry", "freed"}]

KernelObjects == Objects("thread", ThreadVars) \cup Objects("object", ObjectVars)

TypeOK ==
  /\ made \in Seq(KernelObjects)
  /\ occupant \in [Addresses -> {None} \cup Made]
  /\ \A a \in Addresses : occupant[a] # None => made[occupant[a]].address = a
  /\ handle \in [Users -> [Vars -> {None} \cup Made]]
  /\ tuples \in 0 .. HeapBlocks
  /\ astray \subseteq Made /\ strayed \in BOOLEAN /\ stopped \in BOOLEAN

\* The tuple of arguments passes from create() to the task without being freed
\* by the wrong one of the two unique_ptr that hold it in turn: as long as the
\* program runs none is freed but that of a creation that failed, so no task
\* works on freed memory, and no failed creation leaves one behind.  Nor is
\* that of a task that is gone freed: every thread ever made with mulparam
\* keeps a tuple on the heap, also after its exit() or destroy().
TuplesAccounted ==
  /\ \A i \in Made : made[i].tuple = "freed" => stopped
  /\ tuples = Cardinality({u \in Users : user[u].at = "tuple"})
                + Cardinality({i \in Made : made[i].tuple \in {"shared", "entry"}})

\* The handle of a task, a queue or one of its like is held in exactly one
\* place as long as it lives, through every move, and in none after that, but
\* for the tasks that an exit() on an object without their handle has touched.
OneHolder ==
  ~stopped => \A i \in Made \ astray :
    Cardinality(Holders(i)) + Cardinality(Busy(i)) = IF Alive(i) THEN 1 ELSE 0

\* destroy(), suspend() or resume() reaches for a task that is gone, and may
\* then delete another in its place, only when some task called exit() on an
\* object that did not hold its handle: before create() had stored it, after
\* destroy() had taken it, or when it had been moved to another object.
StraysOnlyAfterMissedExit == [][strayed' => strayed \/ astray # {}]_vars
=============================================================================
