------------------------------- MODULE Guards -------------------------------
(***************************************************************************)
(* Mutex (system/mutex.hpp, FreeRTOS) and the guards LockGuard and         *)
(* InitGuard of core/resource_guard.  A guard is made in one of two modes: *)
(* one that acquires in the constructor and throws when that fails, so     *)
(* that the destructor never runs, and a manual one, whose destructor runs *)
(* whatever the manual call answered.  A give by a thread that does not    *)
(* hold the mutex depends on the kernel's build: its assertion stops the   *)
(* thread, or the mutex is taken from its holder.                          *)
(***************************************************************************)
EXTENDS ErrorHandlers

ASSUME GuardsAssumption == Threads \cap {"free", "none"} = {}

VARIABLES lock,    \* who holds each mutex; "none": the object has no handle
          robbed,  \* the threads in a section whose mutex was taken from them
                   \* (history variable)
          object,  \* whether each thread's object is initialised
          refused, \* a manual guard was refused its lock (history variable)
          failed,  \* init() of a manual guard failed (history variable)
          unpaired \* deInit() ran on an object not initialised (history variable)

guardVars == <<lock, robbed, object, refused, failed, unpaired>>

Locks == {"user", "logger"}
Modes == {"throwing", "manual"}

GuardsInit ==
  /\ HandlersInit
  /\ lock = [l \in Locks |-> IF l = "user" THEN "free" ELSE "none"]
  /\ robbed = [l \in Locks |-> {}]
  /\ object = [t \in Threads |-> FALSE]
  /\ refused = FALSE /\ failed = FALSE /\ unpaired = FALSE

Take(t, l) ==
  /\ lock[l] = "free" /\ lock' = [lock EXCEPT ![l] = t]
  /\ robbed' = [robbed EXCEPT ![l] = @ \ {t}]

\* The thread in the section of l that holds its mutex, if there is one.
Holder(l) == {t \in Threads : lock[l] = t /\ act[t].at # "dead"}

\* The mutex is made anew, given back, or deleted, whoever holds it.
Reset(l, state) ==
  /\ lock' = [lock EXCEPT ![l] = state]
  /\ robbed' = [robbed EXCEPT ![l] = @ \cup Holder(l)]

\* Thread t leaves the section of l; at that the holder may lose the mutex.
Leaves(t, l, gives) ==
  /\ lock' = IF gives THEN [lock EXCEPT ![l] = "free"] ELSE lock
  /\ robbed' = [robbed EXCEPT ![l] =
                  (@ \cup (IF gives THEN Holder(l) ELSE {})) \ {t}]

\* Mutex::unlock(), after which t goes on at to.
Unlock(t, l, to) ==
  \/ lock[l] = t /\ Leaves(t, l, TRUE) /\ Go(t, to)
  \/ lock[l] = "free" /\ Leaves(t, l, FALSE) /\ Fails(t, "fatal")
  \/ /\ lock[l] \in Threads \ {t}
     /\ \/ Leaves(t, l, TRUE) /\ Go(t, to)
        \/ Leaves(t, l, FALSE) /\ Go(t, Dead)
  \/ lock[l] = "none" /\ Leaves(t, l, FALSE) /\ Go(t, Dead)

\* LockGuard guard{mutex, timeout}, or a manual guard and its lock(timeout) or
\* try_lock(): the lock is waited for.
OpenGuard(t, mode, timeout) ==
  /\ Ready(t)
  /\ Go(t, [at |-> "locking", mode |-> mode, timeout |-> timeout])
  /\ UNCHANGED guardVars

GuardLocks(t) ==
  /\ act[t].at = "locking" /\ Take(t, "user")
  /\ Go(t, [at |-> "inside"])
  /\ UNCHANGED <<object, refused, failed, unpaired>>

\* The time is up: the constructor throws, or lock() answers Timeout.
GuardRefused(t) ==
  /\ act[t].at = "locking" /\ act[t].timeout = "finite" /\ lock["user"] # "free"
  /\ IF act[t].mode = "throwing"
     THEN Go(t, Idle) /\ UNCHANGED refused
     ELSE Go(t, [at |-> "outside"]) /\ refused' = TRUE
  /\ UNCHANGED <<lock, robbed, object, failed, unpaired>>

\* ~LockGuard()
CloseGuard(t) ==
  /\ act[t].at \in {"inside", "outside"}
  /\ Unlock(t, "user", Idle)
  /\ UNCHANGED <<object, refused, failed, unpaired>>

\* InitGuard guard{object, ...}, or a manual guard and its init(), which may
\* fail: the constructor throws, or the scope goes on without the object.
OpenInitGuard(t, mode, ok) ==
  /\ Ready(t)
  /\ object' = [object EXCEPT ![t] = ok]
  /\ Go(t, IF ok \/ mode = "manual" THEN [at |-> "guarded"] ELSE Idle)
  /\ failed' = (failed \/ (~ok /\ mode = "manual"))
  /\ UNCHANGED <<lock, robbed, refused, unpaired>>

\* ~InitGuard()
CloseInitGuard(t) ==
  /\ act[t].at = "guarded"
  /\ object' = [object EXCEPT ![t] = FALSE]
  /\ unpaired' = (unpaired \/ ~object[t])
  /\ Go(t, Idle)
  /\ UNCHANGED <<lock, robbed, refused, failed>>

GuardsNext ==
  \/ HandlersNext /\ UNCHANGED guardVars
  \/ /\ \E t \in Threads :
          \/ \E mode \in Modes, timeout \in {"finite", "forever"} : OpenGuard(t, mode, timeout)
          \/ \E mode \in Modes, ok \in BOOLEAN : OpenInitGuard(t, mode, ok)
          \/ GuardLocks(t) \/ GuardRefused(t) \/ CloseGuard(t) \/ CloseInitGuard(t)
     /\ UNCHANGED handler

Inside == {t \in Threads : act[t].at = "inside"}
=============================================================================
