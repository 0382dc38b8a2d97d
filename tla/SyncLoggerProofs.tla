--------------------------- MODULE SyncLoggerProofs ---------------------------
(***************************************************************************)
(* For any number of threads and handlers and any lengths of line, prefix  *)
(* and text: guards keep threads out of each other's sections, no way out  *)
(* of one leaves a mutex locked, printed lines are whole, and no thread    *)
(* that fails calls a null pointer.                                        *)
(***************************************************************************)
EXTENDS SyncLogger, FiniteSetTheorems, TLAPS

Holding == LogStages \ {"logLock"}

Places == {"idle", "dead", "handling", "terminating", "locking", "inside",
           "outside", "guarded"} \cup LogStages

ActOK(c) ==
  /\ c.at \in Places
  /\ c.at = "handling" => c.slot \in Slots
  /\ c.at \in LogStages => c \in [at : LogStages, prefix : Nat, text : Nat]

ActInv == act = [t \in Threads |-> act[t]] /\ \A t \in Threads : ActOK(act[t])

\* A handler once registered stays so.
HandlerInv ==
  /\ handler \in [Slots -> Functions \cup {Null, "default"}]
  /\ \A s \in Slots : handler[s] = "default" => s = "terminate"
  /\ handler["terminate"] # Null
  /\ \A t \in Threads : act[t].at = "handling" => handler[act[t].slot] # Null

\* Who holds the user's mutex is inside, and who is inside holds it or has
\* been robbed of it, which takes a refusal.
UserLockInv ==
  /\ lock \in [Locks -> Threads \cup {"free", "none"}]
  /\ robbed \in [Locks -> SUBSET Threads]
  /\ \A t \in Threads : lock["user"] = t => act[t].at \in {"inside", "dead"}
  /\ \A t \in Threads : act[t].at = "inside" => lock["user"] = t \/ t \in robbed["user"]
  /\ robbed["user"] # {} => refused
  /\ \A t \in Threads : act[t].at = "outside" => refused

ObjectInv ==
  /\ object \in [Threads -> BOOLEAN]
  /\ \A t \in Threads : object[t] => act[t].at = "guarded"
  /\ ~failed => /\ ~unpaired
                /\ \A t \in Threads : act[t].at = "guarded" => object[t]

\* Who holds the logger's mutex is in a log call, and who is past the lock in
\* one holds it or has been robbed of it, which takes a disturbance; without
\* one, what it has written is still there.
LoggerInv ==
  /\ build \in Builds
  /\ buffer \in [{"prefix", "text"} -> Threads \cup {Nobody}]
  /\ printed.end \in 0 .. LineSize - 1
  /\ WritesInside
  /\ ~build.useLock => lock["logger"] = "none"
  /\ \A t \in Threads : lock["logger"] = t => act[t].at \in Holding \cup {"dead"}
  /\ build.useLock => \A t \in Threads :
       act[t].at \in Holding => lock["logger"] = t \/ t \in robbed["logger"]
  /\ robbed["logger"] # {} => disturbed
  /\ build.useLock /\ ~disturbed =>
       /\ LineWhole
       /\ \A t \in Threads :
            /\ act[t].at \in {"logText", "logPrint"} => buffer.prefix = t
            /\ act[t].at = "logText" /\ act[t].prefix >= LineSize => buffer.text = t
            /\ act[t].at = "logPrint" => buffer.text = t

IInv == ActInv /\ HandlerInv /\ UserLockInv /\ ObjectInv /\ LoggerInv

-----------------------------------------------------------------------------
(* A thread goes on.  Each part of the invariant survives a step that      *)
(* leaves its variables alone, unless the thread enters or leaves a place  *)
(* the part speaks of.                                                     *)

LEMMA Goes ==
  ASSUME NEW t \in Threads, NEW c, ActInv, Go(t, c), ActOK(c)
  PROVE  /\ ActInv' /\ act'[t] = c
         /\ \A u \in Threads \ {t} : act'[u] = act[u]
<1>1. act'[t] = c /\ \A u \in Threads \ {t} : act'[u] = act[u]
  BY DEF Go, ActInv
<1>2. act' = [u \in Threads |-> act'[u]]
  BY DEF Go, ActInv
<1> QED
  BY <1>1, <1>2 DEF ActInv

LEMMA HandlerFrame ==
  ASSUME NEW t \in Threads, NEW c, ActInv, HandlerInv, Go(t, c), ActOK(c),
         UNCHANGED handler, c.at = "handling" => handler[c.slot] # Null
  PROVE  HandlerInv'
<1>1. act'[t] = c /\ \A u \in Threads \ {t} : act'[u] = act[u]
  BY Goes
<1> QED
  BY <1>1 DEF HandlerInv

LEMMA UserLockFrame ==
  ASSUME NEW t \in Threads, NEW c, ActInv, UserLockInv, Go(t, c), ActOK(c),
         lock' \in [Locks -> Threads \cup {"free", "none"}],
         robbed' \in [Locks -> SUBSET Threads],
         lock'["user"] = lock["user"], robbed'["user"] = robbed["user"], UNCHANGED refused,
         act[t].at \notin {"inside", "dead"} \/ c.at = "dead",
         c.at \notin {"inside", "outside"}
  PROVE  UserLockInv'
<1>1. act'[t] = c /\ \A u \in Threads \ {t} : act'[u] = act[u]
  BY Goes
<1> QED
  BY <1>1 DEF UserLockInv

LEMMA ObjectFrame ==
  ASSUME NEW t \in Threads, NEW c, ActInv, ObjectInv, Go(t, c), ActOK(c),
         UNCHANGED <<object, failed, unpaired>>,
         act[t].at # "guarded", c.at # "guarded"
  PROVE  ObjectInv'
<1>1. act'[t] = c /\ \A u \in Threads \ {t} : act'[u] = act[u]
  BY Goes
<1> QED
  BY <1>1 DEF ObjectInv

LEMMA LoggerFrame ==
  ASSUME NEW t \in Threads, NEW c, ActInv, LoggerInv, Go(t, c), ActOK(c),
         lock'["logger"] = lock["logger"], robbed'["logger"] = robbed["logger"],
         UNCHANGED loggerVars,
         act[t].at \notin Holding \cup {"dead"} \/ c.at = "dead",
         c.at \notin Holding \/ ~build.useLock
  PROVE  LoggerInv'
<1>1. act'[t] = c /\ \A u \in Threads \ {t} : act'[u] = act[u]
  BY Goes
<1>2. UNCHANGED <<build, buffer, printed, overrun, disturbed>>
  BY DEF loggerVars
<1> QED
  BY <1>1, <1>2 DEF LoggerInv, LineWhole, WritesInside, Holding, LogStages

\* A step between places no part but the handlers' speaks of.
LEMMA Moves ==
  ASSUME NEW t \in Threads, NEW c, IInv, Go(t, c), ActOK(c),
         UNCHANGED <<handler, guardVars, loggerVars>>,
         act[t].at \notin {"inside", "guarded"} \cup Holding,
         act[t].at # "dead" \/ c.at = "dead",
         c.at \notin {"inside", "outside", "guarded"},
         c.at \notin Holding \/ ~build.useLock,
         c.at = "handling" => handler[c.slot] # Null
  PROVE  IInv'
<1>1. UNCHANGED <<lock, robbed, object, refused, failed, unpaired>>
  BY DEF guardVars
<1>2. ActInv'
  BY Goes DEF IInv
<1>3. HandlerInv'
  BY HandlerFrame DEF IInv
<1>4. UserLockInv'
  <2>1. /\ lock \in [Locks -> Threads \cup {"free", "none"}]
        /\ robbed \in [Locks -> SUBSET Threads]
    BY DEF IInv, UserLockInv
  <2> QED
    BY <1>1, <2>1, UserLockFrame DEF IInv
<1>5. ObjectInv'
  BY <1>1, ObjectFrame DEF IInv
<1>6. LoggerInv'
  BY <1>1, LoggerFrame DEF IInv
<1> QED
  BY <1>2, <1>3, <1>4, <1>5, <1>6 DEF IInv

LEMMA Failing ==
  ASSUME NEW t \in Threads, NEW s \in Slots, Fails(t, s)
  PROVE  \E c : /\ Go(t, c) /\ ActOK(c)
                /\ c.at \in {"handling", "terminating"}
                /\ c.at = "handling" => handler[c.slot] # Null
<1>1. CASE handler[s] # Null
  <2> DEFINE c == [at |-> "handling", slot |-> s]
  <2>1. Go(t, c)
    BY <1>1 DEF Fails
  <2>2. ActOK(c) /\ c.at = "handling" /\ c.slot = s
    BY DEF ActOK, Places, LogStages
  <2> QED
    BY <1>1, <2>1, <2>2
<1>2. CASE handler[s] = Null
  <2> DEFINE c == [at |-> "terminating"]
  <2>1. Go(t, c)
    BY <1>2 DEF Fails
  <2>2. ActOK(c) /\ c.at = "terminating"
    BY DEF ActOK, Places, LogStages
  <2> QED
    BY <2>1, <2>2
<1> QED
  BY <1>1, <1>2

LEMMA StillOK ==
  /\ ActOK(Idle) /\ Idle.at = "idle"
  /\ ActOK(Dead) /\ Dead.at = "dead"
BY DEF ActOK, Idle, Dead, Places, LogStages

\* A log call goes on to its next stage with its lengths.
LEMMA StageOK ==
  ASSUME NEW c, ActOK(c), c.at \in LogStages, NEW stage \in LogStages
  PROVE  ActOK([c EXCEPT !.at = stage]) /\ [c EXCEPT !.at = stage].at = stage
<1>1. c \in [at : LogStages, prefix : Nat, text : Nat]
  BY DEF ActOK
<1>2. [c EXCEPT !.at = stage] \in [at : LogStages, prefix : Nat, text : Nat]
  BY <1>1
<1>3. [c EXCEPT !.at = stage].at = stage
  BY <1>1
<1> QED
  BY <1>2, <1>3 DEF ActOK, Places, LogStages

LEMMA Apart == Holding \cap {"idle", "dead", "handling", "terminating", "locking",
                             "inside", "outside", "guarded", "logLock"} = {}
BY DEF Holding, LogStages

-----------------------------------------------------------------------------
(* The handlers.                                                           *)

LEMMA Registers ==
  ASSUME IInv, NEW s \in Slots, NEW f \in Functions \cup {Null}, Register(s, f),
         UNCHANGED <<act, guardVars, loggerVars>>
  PROVE  IInv'
<1>1. UNCHANGED <<act, lock, robbed, object, refused, failed, unpaired,
                  build, impl, buffer, printed, overrun, disturbed>>
  BY DEF guardVars, loggerVars
<1>2. HandlerInv'
  <2>1. HandlerInv
    BY DEF IInv
  <2>2. CASE f = Null
    BY <1>1, <2>1, <2>2 DEF Register, HandlerInv
  <2>3. CASE f # Null
    <3>1. f \in Functions /\ f # "default" /\ handler' = [handler EXCEPT ![s] = f]
      BY <2>3, ErrorHandlersAssumption DEF Register
    <3>2. \A r \in Slots : handler'[r] = IF r = s THEN f ELSE handler[r]
      BY <2>1, <3>1 DEF HandlerInv
    <3>3. ASSUME NEW t \in Threads, act[t].at = "handling"
          PROVE  handler'[act[t].slot] # Null
      <4>1. act[t].slot \in Slots /\ handler[act[t].slot] # Null
        BY <2>1, <3>3 DEF IInv, ActInv, ActOK, HandlerInv
      <4> QED
        BY <2>3, <3>2, <4>1
    <3> QED
      BY <1>1, <2>1, <2>3, <3>1, <3>2, <3>3 DEF HandlerInv, Slots
  <2> QED
    BY <2>2, <2>3
<1> QED
  BY <1>1, <1>2 DEF IInv, ActInv, UserLockInv, ObjectInv, LoggerInv, LineWhole, WritesInside

LEMMA ThreadFails ==
  ASSUME IInv, NEW t \in Threads, Ready(t), NEW s \in Slots, Fails(t, s),
         UNCHANGED <<handler, guardVars, loggerVars>>
  PROVE  IInv'
<1>1. act[t].at = "idle"
  BY StillOK DEF Ready
<1>2. PICK c : /\ Go(t, c) /\ ActOK(c)
               /\ c.at \in {"handling", "terminating"}
               /\ c.at = "handling" => handler[c.slot] # Null
  BY Failing
<1> QED
  BY <1>1, <1>2, Moves, Apart

LEMMA HandlerRuns ==
  ASSUME IInv, NEW t \in Threads, Handles(t) \/ Terminates(t),
         UNCHANGED <<handler, guardVars, loggerVars>>
  PROVE  IInv'
<1>1. CASE Handles(t)
  <2> DEFINE c == [at |-> "terminating"]
  <2>1. Go(t, c) /\ act[t].at = "handling"
    BY <1>1 DEF Handles
  <2>2. ActOK(c) /\ c.at = "terminating"
    BY DEF ActOK, Places, LogStages
  <2> HIDE DEF c
  <2> QED
    BY <2>1, <2>2, Moves, Apart
<1>2. CASE Terminates(t)
  BY <1>2, StillOK, Moves, Apart DEF Terminates
<1> QED
  BY <1>1, <1>2

-----------------------------------------------------------------------------
(* The guards.                                                             *)

LEMMA OpensGuard ==
  ASSUME IInv, NEW t \in Threads, NEW mode \in Modes, NEW timeout,
         OpenGuard(t, mode, timeout), UNCHANGED <<handler, loggerVars>>
  PROVE  IInv'
<1> DEFINE c == [at |-> "locking", mode |-> mode, timeout |-> timeout]
<1>1. Go(t, c) /\ act[t].at = "idle" /\ UNCHANGED guardVars
  BY StillOK DEF OpenGuard, Ready
<1>2. ActOK(c) /\ c.at = "locking"
  BY DEF ActOK, Places, LogStages
<1> HIDE DEF c
<1> QED
  BY <1>1, <1>2, Moves, Apart

LEMMA EntersSection ==
  ASSUME IInv, NEW t \in Threads, GuardLocks(t), UNCHANGED <<handler, loggerVars>>
  PROVE  IInv'
<1> DEFINE c == [at |-> "inside"]
<1>1. /\ Go(t, c) /\ act[t].at = "locking"
      /\ lock["user"] = "free" /\ lock' = [lock EXCEPT !["user"] = t]
      /\ robbed' = [robbed EXCEPT !["user"] = @ \ {t}]
      /\ UNCHANGED <<object, refused, failed, unpaired>>
  BY DEF GuardLocks, Take
<1>2. ActOK(c) /\ c.at = "inside"
  BY DEF ActOK, Places, LogStages
<1> HIDE DEF c
<1>3. /\ lock \in [Locks -> Threads \cup {"free", "none"}]
      /\ robbed \in [Locks -> SUBSET Threads]
  BY DEF IInv, UserLockInv
<1>4. /\ lock' \in [Locks -> Threads \cup {"free", "none"}]
      /\ robbed' \in [Locks -> SUBSET Threads]
      /\ lock'["user"] = t /\ lock'["logger"] = lock["logger"]
      /\ robbed'["user"] = robbed["user"] \ {t} /\ robbed'["logger"] = robbed["logger"]
  BY <1>1, <1>3 DEF Locks
<1>5. /\ ActInv' /\ act'[t] = c
      /\ \A u \in Threads \ {t} : act'[u] = act[u]
  BY <1>1, <1>2, Goes DEF IInv
<1>6. HandlerInv'
  BY <1>1, <1>2, HandlerFrame DEF IInv
<1>7. UserLockInv'
  BY <1>1, <1>2, <1>4, <1>5, GuardsAssumption DEF IInv, UserLockInv
<1>8. ObjectInv'
  BY <1>1, <1>2, ObjectFrame DEF IInv
<1>9. LoggerInv'
  BY <1>1, <1>2, <1>4, LoggerFrame, Apart DEF IInv
<1> QED
  BY <1>5, <1>6, <1>7, <1>8, <1>9 DEF IInv

LEMMA IsRefused ==
  ASSUME IInv, NEW t \in Threads, GuardRefused(t), UNCHANGED <<handler, loggerVars>>
  PROVE  IInv'
<1>1. CASE act[t].mode = "throwing"
  <2>1. act[t].at = "locking" /\ Go(t, Idle) /\ UNCHANGED guardVars
    BY <1>1 DEF GuardRefused, guardVars
  <2> QED
    BY <2>1, StillOK, Moves, Apart
<1>2. CASE act[t].mode # "throwing"
  <2> DEFINE c == [at |-> "outside"]
  <2>1. /\ Go(t, c) /\ act[t].at = "locking" /\ refused'
        /\ UNCHANGED <<lock, robbed, object, failed, unpaired>>
    BY <1>2 DEF GuardRefused
  <2>2. ActOK(c) /\ c.at = "outside"
    BY DEF ActOK, Places, LogStages
  <2> HIDE DEF c
  <2>3. /\ ActInv' /\ act'[t] = c
        /\ \A u \in Threads \ {t} : act'[u] = act[u]
    BY <2>1, <2>2, Goes DEF IInv
  <2>4. HandlerInv'
    BY <2>1, <2>2, HandlerFrame DEF IInv
  <2>5. UserLockInv'
    BY <2>1, <2>2, <2>3 DEF IInv, UserLockInv
  <2>6. ObjectInv'
    BY <2>1, <2>2, ObjectFrame DEF IInv
  <2>7. LoggerInv'
    BY <2>1, <2>2, LoggerFrame, Apart DEF IInv
  <2> QED
    BY <2>3, <2>4, <2>5, <2>6, <2>7 DEF IInv
<1> QED
  BY <1>1, <1>2

LockTypes ==
  /\ lock \in [Locks -> Threads \cup {"free", "none"}]
  /\ robbed \in [Locks -> SUBSET Threads]

\* Thread t leaves the section of l and takes the mutex from its holder, or
\* leaves the mutex alone.
LEMMA LeavesOne ==
  ASSUME NEW t \in Threads, NEW l \in Locks, NEW gives \in BOOLEAN, Leaves(t, l, gives),
         LockTypes
  PROVE  /\ LockTypes'
         /\ \A k \in Locks \ {l} : lock'[k] = lock[k] /\ robbed'[k] = robbed[k]
         /\ gives => /\ lock'[l] = "free"
                     /\ robbed'[l] = (robbed[l] \cup Holder(l)) \ {t}
         /\ ~gives => lock'[l] = lock[l] /\ robbed'[l] = robbed[l] \ {t}
<1>1. Holder(l) \in SUBSET Threads
  BY DEF Holder
<1>2. CASE gives
  BY <1>1, <1>2 DEF Leaves, LockTypes
<1>3. CASE ~gives
  BY <1>3 DEF Leaves, LockTypes
<1> QED
  BY <1>2, <1>3

\* What Mutex::unlock() comes to, whoever calls it.
LEMMA Unlocks ==
  ASSUME NEW t \in Threads, NEW l \in Locks, NEW to, Unlock(t, l, to), ActOK(to),
         to.at = "idle", LockTypes
  PROVE  \E c :
           /\ Go(t, c) /\ ActOK(c)
           /\ c.at \in {"idle", "dead", "handling", "terminating"}
           /\ c.at = "handling" => handler[c.slot] # Null
           /\ LockTypes'
           /\ \A k \in Locks \ {l} : lock'[k] = lock[k] /\ robbed'[k] = robbed[k]
           /\ \/ /\ lock'[l] = "free" /\ lock[l] \in Threads
                 /\ robbed'[l] = (robbed[l] \cup Holder(l)) \ {t}
              \/ /\ lock'[l] = lock[l] /\ lock[l] # t
                 /\ robbed'[l] = robbed[l] \ {t}
<1>1. CASE Leaves(t, l, TRUE) /\ Go(t, to) /\ lock[l] \in Threads
  BY <1>1, LeavesOne
<1>2. CASE Leaves(t, l, FALSE) /\ Go(t, Dead) /\ lock[l] # t
  BY <1>2, StillOK, LeavesOne
<1>3. CASE Leaves(t, l, FALSE) /\ Fails(t, "fatal") /\ lock[l] # t
  <2>1. PICK c : /\ Go(t, c) /\ ActOK(c)
                 /\ c.at \in {"handling", "terminating"}
                 /\ c.at = "handling" => handler[c.slot] # Null
    BY <1>3, Failing DEF Slots
  <2> QED
    BY <1>3, <2>1, LeavesOne
<1> QED
  BY <1>1, <1>2, <1>3, GuardsAssumption DEF Unlock

LEMMA LeavesSection ==
  ASSUME IInv, NEW t \in Threads, CloseGuard(t), UNCHANGED <<handler, loggerVars>>
  PROVE  IInv'
<1>1. /\ act[t].at \in {"inside", "outside"} /\ Unlock(t, "user", Idle)
      /\ UNCHANGED <<object, refused, failed, unpaired>>
  BY DEF CloseGuard
<1>2. LockTypes
  BY DEF IInv, UserLockInv, LockTypes
<1>3. PICK c :
        /\ Go(t, c) /\ ActOK(c)
        /\ c.at \in {"idle", "dead", "handling", "terminating"}
        /\ c.at = "handling" => handler[c.slot] # Null
        /\ LockTypes'
        /\ \A k \in Locks \ {"user"} : lock'[k] = lock[k] /\ robbed'[k] = robbed[k]
        /\ \/ /\ lock'["user"] = "free" /\ lock["user"] \in Threads
              /\ robbed'["user"] = (robbed["user"] \cup Holder("user")) \ {t}
           \/ /\ lock'["user"] = lock["user"] /\ lock["user"] # t
              /\ robbed'["user"] = robbed["user"] \ {t}
  BY <1>1, <1>2, StillOK, Unlocks DEF Locks
<1>4. /\ ActInv' /\ act'[t] = c
      /\ \A u \in Threads \ {t} : act'[u] = act[u]
  BY <1>3, Goes DEF IInv
<1>5. HandlerInv'
  BY <1>1, <1>3, HandlerFrame DEF IInv
<1>6. UserLockInv'
  <2>1. UserLockInv
    BY DEF IInv
  <2>2. \A u \in Threads : lock'["user"] = u => act'[u].at \in {"inside", "dead"}
    BY <1>3, <1>4, <2>1, GuardsAssumption DEF UserLockInv
  <2>3. \A u \in Threads : act'[u].at = "inside" => lock'["user"] = u \/ u \in robbed'["user"]
    BY <1>3, <1>4, <2>1 DEF UserLockInv, Holder
  <2>4. robbed'["user"] # {} => refused'
    BY <1>1, <1>3, <2>1 DEF UserLockInv, Holder
  <2>5. \A u \in Threads : act'[u].at = "outside" => refused'
    BY <1>1, <1>3, <1>4, <2>1 DEF UserLockInv
  <2> QED
    BY <1>3, <2>2, <2>3, <2>4, <2>5 DEF UserLockInv, LockTypes
<1>7. ObjectInv'
  BY <1>1, <1>3, ObjectFrame DEF IInv
<1>8. LoggerInv'
  <2>1. lock'["logger"] = lock["logger"] /\ robbed'["logger"] = robbed["logger"]
    BY <1>3 DEF Locks
  <2> QED
    BY <1>1, <1>3, <2>1, LoggerFrame, Apart DEF IInv
<1> QED
  BY <1>4, <1>5, <1>6, <1>7, <1>8 DEF IInv

LEMMA OpensInitGuard ==
  ASSUME IInv, NEW t \in Threads, NEW mode \in Modes, NEW ok \in BOOLEAN,
         OpenInitGuard(t, mode, ok), UNCHANGED <<handler, loggerVars>>
  PROVE  IInv'
<1> DEFINE c == IF ok \/ mode = "manual" THEN [at |-> "guarded"] ELSE Idle
<1>1. /\ Go(t, c) /\ act[t].at = "idle"
      /\ object' = [object EXCEPT ![t] = ok]
      /\ failed' = (failed \/ (~ok /\ mode = "manual"))
      /\ UNCHANGED <<lock, robbed, refused, unpaired>>
  BY StillOK DEF OpenInitGuard, Ready
<1>2. ActOK(c) /\ c.at = IF ok \/ mode = "manual" THEN "guarded" ELSE "idle"
  BY StillOK DEF ActOK, Places, LogStages
<1> HIDE DEF c
<1>3. /\ ActInv' /\ act'[t] = c
      /\ \A u \in Threads \ {t} : act'[u] = act[u]
  BY <1>1, <1>2, Goes DEF IInv
<1>4. HandlerInv'
  BY <1>1, <1>2, HandlerFrame DEF IInv
<1>5. UserLockInv'
  <2>1. /\ lock \in [Locks -> Threads \cup {"free", "none"}]
        /\ robbed \in [Locks -> SUBSET Threads]
    BY DEF IInv, UserLockInv
  <2> QED
    BY <1>1, <1>2, <2>1, UserLockFrame DEF IInv
<1>6. ObjectInv'
  <2>1. ObjectInv
    BY DEF IInv
  <2>2. /\ object' \in [Threads -> BOOLEAN] /\ object'[t] = ok
        /\ \A u \in Threads \ {t} : object'[u] = object[u]
    BY <1>1, <2>1 DEF ObjectInv
  <2>3. ok => c.at = "guarded"
    BY <1>2
  <2>4. ~failed' => ~failed /\ (c.at = "guarded" => ok)
    BY <1>1, <1>2
  <2> QED
    BY <1>1, <1>3, <2>1, <2>2, <2>3, <2>4 DEF ObjectInv
<1>7. LoggerInv'
  BY <1>1, <1>2, LoggerFrame, Apart DEF IInv
<1> QED
  BY <1>3, <1>4, <1>5, <1>6, <1>7 DEF IInv

LEMMA ClosesInitGuard ==
  ASSUME IInv, NEW t \in Threads, CloseInitGuard(t), UNCHANGED <<handler, loggerVars>>
  PROVE  IInv'
<1>1. /\ act[t].at = "guarded" /\ Go(t, Idle)
      /\ object' = [object EXCEPT ![t] = FALSE]
      /\ unpaired' = (unpaired \/ ~object[t])
      /\ UNCHANGED <<lock, robbed, refused, failed>>
  BY DEF CloseInitGuard
<1>2. ActOK(Idle) /\ Idle.at = "idle"
  BY StillOK
<1>3. /\ ActInv' /\ act'[t] = Idle
      /\ \A u \in Threads \ {t} : act'[u] = act[u]
  BY <1>1, <1>2, Goes DEF IInv
<1>4. HandlerInv'
  BY <1>1, <1>2, HandlerFrame DEF IInv
<1>5. UserLockInv'
  <2>1. /\ lock \in [Locks -> Threads \cup {"free", "none"}]
        /\ robbed \in [Locks -> SUBSET Threads]
    BY DEF IInv, UserLockInv
  <2> QED
    BY <1>1, <1>2, <2>1, UserLockFrame DEF IInv
<1>6. ObjectInv'
  BY <1>1, <1>2, <1>3 DEF IInv, ObjectInv
<1>7. LoggerInv'
  BY <1>1, <1>2, LoggerFrame, Apart DEF IInv
<1> QED
  BY <1>3, <1>4, <1>5, <1>6, <1>7 DEF IInv

-----------------------------------------------------------------------------
(* The log calls.                                                          *)

\* The mutex is made again or deleted under the log calls that are running.
LEMMA Disturbing ==
  ASSUME IInv, NEW t \in Threads, NEW c, Go(t, c), ActOK(c), act[t].at = "idle",
         c.at \in {"idle", "handling", "terminating"},
         c.at = "handling" => handler[c.slot] # Null,
         NEW state \in {"free", "none"}, Disturbs(state), build.useLock,
         UNCHANGED <<handler, object, refused, failed, unpaired, build, buffer,
                     printed, overrun>>
  PROVE  IInv'
<1>1. /\ lock' = [lock EXCEPT !["logger"] = state]
      /\ robbed' = [robbed EXCEPT !["logger"] = @ \cup Holder("logger")]
      /\ disturbed' = (disturbed \/ Logging # {})
  BY DEF Disturbs, Reset
<1>2. LockTypes /\ Holder("logger") \subseteq Threads
  BY DEF IInv, UserLockInv, LockTypes, Holder
<1>3. /\ LockTypes' /\ lock'["logger"] = state
      /\ robbed'["logger"] = robbed["logger"] \cup Holder("logger")
      /\ lock'["user"] = lock["user"] /\ robbed'["user"] = robbed["user"]
  BY <1>1, <1>2 DEF LockTypes, Locks
<1>4. /\ ActInv' /\ act'[t] = c
      /\ \A u \in Threads \ {t} : act'[u] = act[u]
  BY Goes DEF IInv
<1>5. HandlerInv'
  BY HandlerFrame DEF IInv
<1>6. UserLockInv'
  BY <1>3, UserLockFrame DEF IInv, LockTypes
<1>7. ObjectInv'
  BY ObjectFrame DEF IInv
<1>8. LoggerInv'
  <2>1. LoggerInv
    BY DEF IInv
  <2>2. \A u \in Threads : act'[u].at \in Holding => act[u].at \in Holding
    BY <1>4, Apart
  <2>3. \A u \in Threads : act'[u].at \in Holding => u \in robbed'["logger"]
    BY <1>3, <2>1, <2>2, Apart DEF LoggerInv, Holder
  <2>4. robbed'["logger"] # {} => disturbed'
    <3>1. Holder("logger") \subseteq Logging
      BY <2>1 DEF LoggerInv, Holder, Logging, Holding
    <3> QED
      BY <1>1, <1>3, <2>1, <3>1 DEF LoggerInv
  <2>5. ~disturbed' => ~disturbed /\ \A u \in Threads : act'[u].at \notin Holding
    BY <1>1, <2>2 DEF Logging, Holding
  <2>6. {"logText", "logPrint"} \subseteq Holding
    BY DEF Holding, LogStages
  <2>7. \A u \in Threads : lock'["logger"] # u
    BY <1>3, GuardsAssumption
  <2> QED
    BY <2>1, <2>3, <2>4, <2>5, <2>6, <2>7 DEF LoggerInv, LineWhole, WritesInside
<1> QED
  BY <1>4, <1>5, <1>6, <1>7, <1>8 DEF IInv

LEMMA InitsLog ==
  ASSUME IInv, NEW t \in Threads, NEW ok \in BOOLEAN, LogInit(t, ok)
  PROVE  IInv'
<1>1. UNCHANGED <<handler, object, refused, failed, unpaired, build, buffer,
                  printed, overrun>>
  BY DEF LogInit
<1>2. act[t].at = "idle" /\ act[t] = Idle
  BY StillOK DEF LogInit, Ready
<1>3. PICK c : /\ Go(t, c) /\ ActOK(c)
               /\ c.at \in {"idle", "handling", "terminating"}
               /\ c.at = "handling" => handler[c.slot] # Null
  <2>1. CASE lock["logger"] # "none"
    BY <2>1, Failing DEF LogInit, Slots
  <2>2. CASE lock["logger"] = "none"
    <3>1. Go(t, Idle)
      BY <1>2, <2>2 DEF LogInit, Go, IInv, ActInv
    <3> QED
      BY <3>1, StillOK
  <2> QED
    BY <2>1, <2>2
<1>4. CASE build.useLock /\ Disturbs("free")
  BY <1>1, <1>2, <1>3, <1>4, Disturbing
<1>5. CASE UNCHANGED <<lock, robbed, disturbed>>
  <2>1. /\ ActInv' /\ act'[t] = c
        /\ \A u \in Threads \ {t} : act'[u] = act[u]
    BY <1>3, Goes DEF IInv
  <2>2. HandlerInv'
    BY <1>1, <1>3, HandlerFrame DEF IInv
  <2>3. UserLockInv'
    BY <1>1, <1>2, <1>3, <1>5, UserLockFrame DEF IInv, UserLockInv
  <2>4. ObjectInv'
    BY <1>1, <1>2, <1>3, ObjectFrame DEF IInv
  <2>5. c.at \notin Holding \cup {"dead", "logText", "logPrint"} /\ act[t].at \notin Holding
    BY <1>2, <1>3 DEF Holding, LogStages
  <2>6. LoggerInv'
    BY <1>1, <1>2, <1>5, <2>1, <2>5 DEF IInv, LoggerInv, LineWhole, WritesInside
  <2> QED
    BY <2>1, <2>2, <2>3, <2>4, <2>6 DEF IInv
<1> QED
  BY <1>4, <1>5 DEF LogInit

LEMMA DeInitsLog ==
  ASSUME IInv, NEW t \in Threads, LogDeInit(t)
  PROVE  IInv'
<1>1. /\ UNCHANGED <<handler, object, refused, failed, unpaired, build, buffer, printed, overrun>>
      /\ act[t].at = "idle" /\ act[t] = Idle /\ Ready(t)
  BY StillOK DEF LogDeInit, Ready
<1>2. CASE ~build.dynamic
  <2>1. Fails(t, "fatal") /\ UNCHANGED <<lock, robbed, impl, disturbed>>
    BY <1>2 DEF LogDeInit
  <2>2. UNCHANGED <<handler, guardVars, loggerVars>>
    BY <1>1, <2>1 DEF guardVars, loggerVars
  <2> QED
    BY <1>1, <2>1, <2>2, ThreadFails DEF Slots
<1>3. CASE build.dynamic
  <2>1. UNCHANGED act /\ Disturbs("none")
    BY <1>3 DEF LogDeInit
  <2>2. Go(t, Idle)
    BY <1>1, <2>1 DEF Go, IInv, ActInv
  <2>3. build.useLock
    BY <1>3 DEF IInv, LoggerInv, Builds
  <2> QED
    BY <1>1, <2>1, <2>2, <2>3, StillOK, Disturbing
<1> QED
  BY <1>2, <1>3

LEMMA StartsLog ==
  ASSUME IInv, NEW t \in Threads, NEW prefix \in PrefixLengths,
         NEW text \in TextLengths, Log(t, prefix, text)
  PROVE  IInv'
<1> DEFINE c == [at |-> IF build.useLock THEN "logLock" ELSE "logPrefix",
                 prefix |-> prefix, text |-> text]
<1>1. Go(t, c) /\ act[t].at = "idle" /\ UNCHANGED <<handler, guardVars, loggerVars>>
  BY StillOK DEF Log, Ready
<1>2. prefix \in Nat /\ text \in Nat
  BY SyncLoggerAssumption
<1>3. /\ c \in [at : LogStages, prefix : Nat, text : Nat]
      /\ c.at = IF build.useLock THEN "logLock" ELSE "logPrefix"
  BY <1>2 DEF LogStages
<1> HIDE DEF c
<1>4. ActOK(c)
  BY <1>3 DEF ActOK, Places, LogStages
<1>5. c.at \in {"logLock", "logPrefix"} /\ (c.at \notin Holding \/ ~build.useLock)
  BY <1>3, Apart
<1> QED
  BY <1>1, <1>4, <1>5, Moves, Apart

LEMMA LocksLog ==
  ASSUME IInv, NEW t \in Threads, LogLocks(t)
  PROVE  IInv'
<1>1. act[t].at = "logLock" /\ UNCHANGED <<handler, object, refused, failed, unpaired, loggerVars>>
  BY DEF LogLocks
<1>2. CASE Take(t, "logger") /\ Go(t, [act[t] EXCEPT !.at = "logPrefix"])
  <2> DEFINE c == [act[t] EXCEPT !.at = "logPrefix"]
  <2>1. ActOK(act[t])
    BY DEF IInv, ActInv
  <2>2. ActOK(c) /\ c.at = "logPrefix"
    BY <1>1, <2>1, StageOK DEF LogStages
  <2>3. Go(t, c)
    BY <1>2
  <2> HIDE DEF c
  <2>4. /\ lock["logger"] = "free" /\ lock' \in [Locks -> Threads \cup {"free", "none"}]
        /\ robbed' \in [Locks -> SUBSET Threads]
        /\ lock'["user"] = lock["user"] /\ lock'["logger"] = t
        /\ robbed'["user"] = robbed["user"] /\ robbed'["logger"] = robbed["logger"] \ {t}
    BY <1>2 DEF Take, IInv, UserLockInv, Locks
  <2>5. /\ ActInv' /\ act'[t] = c
        /\ \A u \in Threads \ {t} : act'[u] = act[u]
    BY <2>2, <2>3, Goes DEF IInv
  <2>6. HandlerInv'
    BY <1>1, <2>2, <2>3, HandlerFrame DEF IInv
  <2>7. UserLockInv'
    BY <1>1, <2>2, <2>3, <2>4, UserLockFrame DEF IInv
  <2>8. ObjectInv'
    BY <1>1, <2>2, <2>3, ObjectFrame DEF IInv
  <2>9. LoggerInv'
    <3>1. UNCHANGED <<build, buffer, printed, overrun, disturbed>>
      BY <1>1 DEF loggerVars
    <3>2. build.useLock
      BY <2>4 DEF IInv, LoggerInv
    <3> QED
      BY <2>2, <2>4, <2>5, <3>1, <3>2, GuardsAssumption
         DEF IInv, LoggerInv, LineWhole, WritesInside, Holding, LogStages
  <2> QED
    BY <2>5, <2>6, <2>7, <2>8, <2>9 DEF IInv
<1>3. CASE lock["logger"] = "none" /\ Go(t, Dead) /\ UNCHANGED <<lock, robbed>>
  <2>1. UNCHANGED guardVars
    BY <1>1, <1>3 DEF guardVars
  <2> QED
    BY <1>1, <1>3, <2>1, StillOK, Moves, Apart
<1> QED
  BY <1>2, <1>3 DEF LogLocks

\* A thread past the lock goes on in its log call or stops; it may write its
\* part of the line.
LEMMA Continues ==
  ASSUME IInv, NEW t \in Threads, act[t].at \in Holding, NEW c, Go(t, c), ActOK(c),
         c.at \in Holding \cup {"dead"}, LoggerInv',
         UNCHANGED <<handler, lock, robbed, object, refused, failed, unpaired>>
  PROVE  IInv'
<1>1. /\ ActInv' /\ act'[t] = c
      /\ \A u \in Threads \ {t} : act'[u] = act[u]
  BY Goes DEF IInv
<1>2. HandlerInv'
  BY HandlerFrame, Apart DEF IInv
<1>3. UserLockInv'
  BY UserLockFrame, Apart DEF IInv, UserLockInv
<1>4. ObjectInv'
  BY ObjectFrame, Apart DEF IInv
<1> QED
  BY <1>1, <1>2, <1>3, <1>4 DEF IInv

LEMMA Stops ==
  ASSUME IInv, NEW t \in Threads, act[t].at \in Holding, Go(t, Dead),
         UNCHANGED <<handler, guardVars, loggerVars>>
  PROVE  IInv'
<1>1. UNCHANGED <<lock, robbed, object, refused, failed, unpaired>>
  BY DEF guardVars
<1>2. LoggerInv'
  BY <1>1, StillOK, LoggerFrame, Apart DEF IInv
<1> QED
  BY <1>1, <1>2, StillOK, Continues

\* An error of vsnprintf() ends the call, which gives the mutex back.
LEMMA FailsToWrite ==
  ASSUME IInv, NEW t \in Threads, act[t].at \in Holding, PrintfFails(t),
         UNCHANGED <<handler, guardVars, loggerVars>>
  PROVE  IInv'
<1> DEFINE c == [act[t] EXCEPT !.at = "logEnd"]
<1>1. UNCHANGED <<lock, robbed, object, refused, failed, unpaired,
                  build, buffer, printed, overrun, disturbed>>
  BY DEF guardVars, loggerVars
<1>2. ActOK(act[t]) /\ act[t].at \in LogStages
  BY DEF Holding, IInv, ActInv
<1>3. ActOK(c) /\ c.at = "logEnd" /\ Go(t, c)
  BY <1>2, StageOK DEF LogStages, PrintfFails
<1> HIDE DEF c
<1>4. act'[t] = c /\ \A u \in Threads \ {t} : act'[u] = act[u]
  BY <1>3, Goes DEF IInv
<1>5. LoggerInv'
  BY <1>1, <1>3, <1>4 DEF IInv, LoggerInv, LineWhole, WritesInside, Holding, LogStages
<1> QED
  BY <1>1, <1>3, <1>5, Continues DEF Holding, LogStages

\* With the mutex undisturbed nobody else is past the lock.
LEMMA Alone ==
  ASSUME IInv, NEW t \in Threads, act[t].at \in Holding, build.useLock, ~disturbed
  PROVE  \A u \in Threads \ {t} : act[u].at \notin Holding
<1>1. LoggerInv
  BY DEF IInv
<1>2. robbed["logger"] = {}
  BY <1>1 DEF LoggerInv
<1>3. \A u \in Threads : act[u].at \in Holding => lock["logger"] = u
  BY <1>1, <1>2 DEF LoggerInv
<1> QED
  BY <1>3

LEMMA WritesPrefix ==
  ASSUME IInv, NEW t \in Threads, LogPrefix(t)
  PROVE  IInv'
<1>1. /\ act[t].at = "logPrefix" /\ act[t].at \in Holding /\ ActOK(act[t])
      /\ UNCHANGED <<handler, guardVars, lock, robbed, object, refused, failed, unpaired,
                     build, impl, printed, overrun, disturbed>>
  BY DEF LogPrefix, guardVars, Holding, LogStages, IInv, ActInv
<1>2. CASE (Go(t, Dead) \/ PrintfFails(t)) /\ UNCHANGED buffer
  <2>1. UNCHANGED loggerVars
    BY <1>1, <1>2 DEF loggerVars
  <2> QED
    BY <1>1, <1>2, <2>1, Stops, FailsToWrite
<1>3. CASE /\ Go(t, [act[t] EXCEPT !.at = "logText"])
           /\ buffer' = [prefix |-> t,
                         text |-> IF act[t].prefix < LineSize THEN buffer.text ELSE t]
  <2> DEFINE c == [act[t] EXCEPT !.at = "logText"]
  <2>1. ActOK(c) /\ c.at = "logText" /\ Go(t, c) /\ c.prefix = act[t].prefix
    BY <1>1, <1>3, StageOK DEF ActOK, LogStages
  <2>2. c.prefix \in Nat /\ LineSize \in Nat
    BY <1>1, <2>1, SyncLoggerAssumption DEF ActOK, LogStages
  <2> HIDE DEF c
  <2>3. act'[t] = c /\ \A u \in Threads \ {t} : act'[u] = act[u]
    BY <2>1, Goes DEF IInv
  <2>4. LoggerInv
    BY DEF IInv
  <2>5. /\ buffer' \in [{"prefix", "text"} -> Threads \cup {Nobody}]
        /\ buffer'.prefix = t /\ (c.prefix >= LineSize => buffer'.text = t)
    <3>1. buffer.text \in Threads \cup {Nobody}
      BY <2>4 DEF LoggerInv
    <3> QED
      BY <1>3, <2>1, <2>2, <3>1
  <2>6. ASSUME build.useLock, ~disturbed, NEW u \in Threads
        PROVE  /\ act'[u].at \in {"logText", "logPrint"} => buffer'.prefix = u
               /\ act'[u].at = "logText" /\ act'[u].prefix >= LineSize => buffer'.text = u
               /\ act'[u].at # "logPrint"
    <3>1. CASE u = t
      BY <2>1, <2>3, <2>5, <3>1
    <3>2. CASE u # t
      BY <1>1, <2>3, <2>6, <3>2, Alone DEF Holding, LogStages
    <3> QED
      BY <3>1, <3>2
  <2>7. \A u \in Threads : /\ act'[u].at \in Holding <=> act[u].at \in Holding
                           /\ act'[u].at = "dead" <=> act[u].at = "dead"
    BY <1>1, <2>1, <2>3, Apart DEF Holding, LogStages
  <2>8. LoggerInv'
    BY <1>1, <2>4, <2>5, <2>6, <2>7 DEF LoggerInv, LineWhole, WritesInside
  <2> QED
    BY <1>1, <2>1, <2>8, Continues DEF Holding, LogStages
<1> QED
  BY <1>2, <1>3 DEF LogPrefix

\* Where there is room for it, or none at all, the text ends in the buffer.
LEMMA TextFits ==
  ASSUME NEW prefix \in Nat, NEW text \in Nat, prefix <= LineSize
  PROVE  TextEnd(prefix, text) <= LineSize
BY SyncLoggerAssumption DEF TextEnd, Room

LEMMA WritesText ==
  ASSUME IInv, NEW t \in Threads, LogText(t)
  PROVE  IInv'
<1>1. /\ act[t].at = "logText" /\ act[t].at \in Holding /\ ActOK(act[t])
      /\ UNCHANGED <<handler, guardVars, lock, robbed, object, refused, failed, unpaired,
                     build, impl, printed, disturbed>>
  BY DEF LogText, guardVars, Holding, LogStages, IInv, ActInv
<1>2. CASE (Go(t, Dead) \/ PrintfFails(t)) /\ UNCHANGED <<buffer, overrun>>
  <2>1. UNCHANGED loggerVars
    BY <1>1, <1>2 DEF loggerVars
  <2> QED
    BY <1>1, <1>2, <2>1, Stops, FailsToWrite
<1>3. CASE /\ buffer' = IF act[t].prefix < LineSize THEN [buffer EXCEPT !.text = t] ELSE buffer
           /\ IF TextEnd(act[t].prefix, act[t].text) > LineSize
              THEN /\ overrun' = overrun \cup {act[t].prefix}
                   /\ Go(t, [act[t] EXCEPT !.at = "logPrint"]) \/ Go(t, Dead)
              ELSE Go(t, [act[t] EXCEPT !.at = "logPrint"]) /\ UNCHANGED overrun
  <2> DEFINE on == [act[t] EXCEPT !.at = "logPrint"]
  <2>1. ActOK(on) /\ on.at = "logPrint" /\ act[t].prefix \in Nat /\ act[t].text \in Nat
    BY <1>1, StageOK DEF ActOK, LogStages
  <2> HIDE DEF on
  <2>2. PICK c : Go(t, c) /\ ActOK(c) /\ c.at \in {"logPrint", "dead"}
    BY <1>3, <2>1, StillOK DEF on
  <2>3. act'[t] = c /\ \A u \in Threads \ {t} : act'[u] = act[u]
    BY <2>2, Goes DEF IInv
  <2>4. LoggerInv
    BY DEF IInv
  <2>5. WritesInside'
    <3>1. TextEnd(act[t].prefix, act[t].text) > LineSize => act[t].prefix > LineSize
      <4>1. act[t].prefix <= LineSize => TextEnd(act[t].prefix, act[t].text) <= LineSize
        BY <2>1, TextFits
      <4>2. /\ TextEnd(act[t].prefix, act[t].text) \in Int /\ LineSize \in Nat
        BY <2>1, SyncLoggerAssumption DEF TextEnd, Room
      <4> QED
        BY <2>1, <4>1, <4>2
    <3>2. \A p \in overrun' : p \in overrun \/ (p = act[t].prefix /\ p > LineSize)
      BY <1>3, <3>1
    <3> QED
      BY <2>4, <3>2 DEF LoggerInv, WritesInside
  <2>6. /\ buffer' \in [{"prefix", "text"} -> Threads \cup {Nobody}]
        /\ buffer'.prefix = buffer.prefix
        /\ buffer'.text = IF act[t].prefix < LineSize THEN t ELSE buffer.text
    BY <1>3, <2>4 DEF LoggerInv
  <2>7. ASSUME build.useLock, ~disturbed
        PROVE  buffer'.prefix = t /\ buffer'.text = t
    <3>1. act[t].prefix < LineSize \/ act[t].prefix >= LineSize
      BY <2>1, SyncLoggerAssumption
    <3> QED
      BY <1>1, <2>4, <2>6, <2>7, <3>1 DEF LoggerInv
  <2>8. ASSUME build.useLock, ~disturbed, NEW u \in Threads
        PROVE  /\ act'[u].at \in {"logText", "logPrint"} => u = t
               /\ act'[u].at # "logText"
    <3>1. CASE u = t
      BY <2>2, <2>3, <3>1
    <3>2. CASE u # t
      BY <1>1, <2>3, <2>8, <3>2, Alone DEF Holding, LogStages
    <3> QED
      BY <3>1, <3>2
  <2>9. \A u \in Threads : /\ act'[u].at \in Holding => act[u].at \in Holding
                           /\ act[u].at \in Holding \cup {"dead"} =>
                                act'[u].at \in Holding \cup {"dead"}
    BY <1>1, <2>2, <2>3, Apart DEF Holding, LogStages
  <2>10. LoggerInv'
    BY <1>1, <2>4, <2>5, <2>6, <2>7, <2>8, <2>9 DEF LoggerInv, LineWhole
  <2> QED
    BY <1>1, <2>2, <2>10, Continues DEF Holding, LogStages
<1> QED
  BY <1>2, <1>3 DEF LogText

LEMMA Prints ==
  ASSUME IInv, NEW t \in Threads, LogPrint(t)
  PROVE  IInv'
<1> DEFINE c == [act[t] EXCEPT !.at = "logEnd"]
<1>1. /\ act[t].at = "logPrint" /\ Go(t, c)
      /\ printed' = [prefix |-> buffer.prefix, text |-> buffer.text,
                     end |-> LineEnd(act[t].prefix + act[t].text)]
      /\ UNCHANGED <<handler, guardVars, build, impl, buffer, overrun, disturbed>>
  BY DEF LogPrint
<1>2. UNCHANGED <<lock, robbed, object, refused, failed, unpaired>>
  BY <1>1 DEF guardVars
<1>3. ActOK(act[t]) /\ act[t].at \in Holding
  BY <1>1 DEF Holding, LogStages, IInv, ActInv
<1>4. ActOK(c) /\ c.at = "logEnd"
  BY <1>1, <1>3, StageOK DEF LogStages
<1> HIDE DEF c
<1>5. act'[t] = c /\ \A u \in Threads \ {t} : act'[u] = act[u]
  BY <1>1, <1>4, Goes DEF IInv
<1>6. act[t].prefix + act[t].text \in Nat
  BY <1>1, <1>3 DEF ActOK, LogStages
<1>7. LineEnd(act[t].prefix + act[t].text) \in 0 .. LineSize - 1
  BY <1>6, SyncLoggerAssumption DEF LineEnd
<1>8. LoggerInv'
  <2>1. LoggerInv
    BY DEF IInv
  <2>2. /\ printed'.end \in 0 .. LineSize - 1
        /\ printed'.prefix = buffer.prefix /\ printed'.text = buffer.text
    BY <1>1, <1>7
  <2>3. build.useLock /\ ~disturbed => buffer.prefix = t /\ buffer.text = t
    BY <1>1, <2>1 DEF LoggerInv
  <2> QED
    BY <1>1, <1>2, <1>4, <1>5, <2>1, <2>2, <2>3 DEF LoggerInv, LineWhole, WritesInside, Holding, LogStages
<1> QED
  BY <1>1, <1>2, <1>3, <1>4, <1>8, Continues DEF Holding, LogStages

LEMMA EndsLog ==
  ASSUME IInv, NEW t \in Threads, LogEnds(t)
  PROVE  IInv'
<1>1. /\ act[t].at = "logEnd" /\ act[t].at \in Holding
      /\ UNCHANGED <<handler, object, refused, failed, unpaired, build, buffer,
                     printed, overrun, disturbed>>
  BY DEF LogEnds, loggerVars, Holding, LogStages
<1>2. LockTypes
  BY DEF IInv, UserLockInv, LockTypes
<1>3. PICK c :
        /\ Go(t, c) /\ ActOK(c)
        /\ c.at \in {"idle", "dead", "handling", "terminating"}
        /\ c.at = "handling" => handler[c.slot] # Null
        /\ LockTypes'
        /\ lock'["user"] = lock["user"] /\ robbed'["user"] = robbed["user"]
        /\ \/ /\ lock'["logger"] = "free" /\ lock["logger"] \in Threads
              /\ robbed'["logger"] = (robbed["logger"] \cup Holder("logger")) \ {t}
           \/ /\ lock'["logger"] = lock["logger"] /\ lock["logger"] # t
              /\ robbed'["logger"] = robbed["logger"] \ {t}
           \/ ~build.useLock /\ UNCHANGED <<lock, robbed>>
  <2>1. CASE build.useLock
    <3>1. Unlock(t, "logger", Idle)
      BY <2>1 DEF LogEnds
    <3> QED
      BY <1>2, <3>1, StillOK, Unlocks DEF Locks
  <2>2. CASE ~build.useLock
    <3>1. Go(t, Idle) /\ UNCHANGED <<lock, robbed>>
      BY <2>2 DEF LogEnds
    <3> QED
      BY <1>2, <2>2, <3>1, StillOK DEF LockTypes
  <2> QED
    BY <2>1, <2>2
<1>4. /\ ActInv' /\ act'[t] = c
      /\ \A u \in Threads \ {t} : act'[u] = act[u]
  BY <1>3, Goes DEF IInv
<1>5. HandlerInv'
  BY <1>1, <1>3, HandlerFrame DEF IInv
<1>6. UserLockInv'
  BY <1>1, <1>3, UserLockFrame, Apart DEF IInv, LockTypes
<1>7. ObjectInv'
  BY <1>1, <1>3, ObjectFrame, Apart DEF IInv
<1>8. LoggerInv'
  <2>1. LoggerInv
    BY DEF IInv
  <2>2. c.at \notin Holding /\ {"logText", "logPrint"} \subseteq Holding
    BY <1>3 DEF Holding, LogStages
  <2>3. ~build.useLock => lock'["logger"] = "none"
    BY <1>3, <2>1, GuardsAssumption DEF LoggerInv
  <2>4. \A u \in Threads : lock'["logger"] = u => (u # t /\ lock["logger"] = u) \/ ~build.useLock
    BY <1>3, GuardsAssumption
  <2>5. \A u \in Threads : lock'["logger"] = u => act'[u].at \in Holding \cup {"dead"}
    BY <1>4, <2>1, <2>3, <2>4, GuardsAssumption DEF LoggerInv
  <2>6. ASSUME build.useLock, NEW u \in Threads, act'[u].at \in Holding
        PROVE  lock'["logger"] = u \/ u \in robbed'["logger"]
    <3>1. u # t /\ act[u].at \in Holding
      BY <1>4, <2>2, <2>6
    <3> QED
      BY <1>3, <2>1, <2>6, <3>1, Apart DEF LoggerInv, Holder
  <2>7. robbed'["logger"] # {} => disturbed'
    <3>1. ASSUME NEW u \in Holder("logger") \ {t}
          PROVE  disturbed
      <4>1. lock["logger"] = u /\ u \in Threads
        BY DEF Holder
      <4>2. build.useLock /\ t \in robbed["logger"]
        BY <1>1, <2>1, <4>1, GuardsAssumption DEF LoggerInv
      <4> QED
        BY <2>1, <4>2 DEF LoggerInv
    <3>2. \A u \in robbed'["logger"] : u \in robbed["logger"] \/ u \in Holder("logger") \ {t}
      BY <1>3
    <3> QED
      BY <1>1, <2>1, <3>1, <3>2 DEF LoggerInv
  <2>8. build.useLock /\ ~disturbed => \A u \in Threads : act'[u].at \notin Holding
    BY <1>1, <1>4, <2>2, Alone
  <2> QED
    BY <1>1, <2>1, <2>2, <2>3, <2>5, <2>6, <2>7, <2>8 DEF LoggerInv, LineWhole, WritesInside
<1> QED
  BY <1>4, <1>5, <1>6, <1>7, <1>8 DEF IInv

-----------------------------------------------------------------------------
(* The invariant.                                                          *)

LEMMA InitHolds == Init => IInv
<1> SUFFICES ASSUME Init PROVE IInv
  OBVIOUS
<1> USE DEF Init, GuardsInit, HandlersInit
<1>1. \A t \in Threads : act[t].at = "idle" /\ ActOK(act[t])
  BY StillOK
<1>2. ActInv
  BY <1>1 DEF ActInv
<1>3. HandlerInv
  BY <1>1, ErrorHandlersAssumption DEF HandlerInv, Slots
<1>4. UserLockInv
  BY <1>1, GuardsAssumption DEF UserLockInv, Locks
<1>5. ObjectInv
  BY <1>1 DEF ObjectInv
<1>6. LoggerInv
  <2>1. LineSize - 1 \in 0 .. LineSize - 1
    BY SyncLoggerAssumption
  <2> QED
    BY <1>1, <2>1, GuardsAssumption, Apart
       DEF LoggerInv, LineWhole, WritesInside, NoLine, Locks
<1> QED
  BY <1>2, <1>3, <1>4, <1>5, <1>6 DEF IInv

LEMMA NextKeeps == IInv /\ [Next]_vars => IInv'
<1> SUFFICES ASSUME IInv, [Next]_vars PROVE IInv'
  OBVIOUS
<1>1. CASE HandlersNext /\ UNCHANGED guardVars /\ UNCHANGED loggerVars
  <2>1. CASE \E s \in Slots, f \in Functions \cup {Null} : Register(s, f) /\ UNCHANGED act
    BY <1>1, <2>1, Registers
  <2>2. CASE \E t \in Threads :
               /\ \/ Ready(t) /\ \E s \in {"fatal", "assert"} : Fails(t, s)
                  \/ Handles(t) \/ Terminates(t)
               /\ UNCHANGED handler
    BY <1>1, <2>2, ThreadFails, HandlerRuns DEF Slots
  <2> QED
    BY <1>1, <2>1, <2>2 DEF HandlersNext
<1>2. ASSUME NEW t \in Threads, UNCHANGED <<handler, loggerVars>>,
             \/ \E mode \in Modes, timeout \in {"finite", "forever"} : OpenGuard(t, mode, timeout)
             \/ \E mode \in Modes, ok \in BOOLEAN : OpenInitGuard(t, mode, ok)
             \/ GuardLocks(t) \/ GuardRefused(t) \/ CloseGuard(t) \/ CloseInitGuard(t)
      PROVE  IInv'
  BY <1>2, OpensGuard, OpensInitGuard, EntersSection, IsRefused, LeavesSection,
     ClosesInitGuard
<1>3. ASSUME NEW t \in Threads,
             \/ \E ok \in BOOLEAN : LogInit(t, ok)
             \/ \E prefix \in PrefixLengths, text \in TextLengths : Log(t, prefix, text)
             \/ LogDeInit(t) \/ LogLocks(t) \/ LogPrint(t) \/ LogEnds(t)
      PROVE  IInv'
  BY <1>3, InitsLog, StartsLog, DeInitsLog, LocksLog, Prints, EndsLog
<1>4. ASSUME NEW t \in Threads, LogPrefix(t) \/ LogText(t)
      PROVE  IInv'
  BY <1>4, WritesPrefix, WritesText
<1>5. CASE UNCHANGED vars
  BY <1>5 DEF vars, guardVars, loggerVars, IInv, ActInv, HandlerInv, UserLockInv,
              ObjectInv, LoggerInv, LineWhole, WritesInside
<1> QED
  BY <1>1, <1>2, <1>3, <1>4, <1>5 DEF Next, GuardsNext

THEOREM Invariance == Spec => []IInv
<1> QED
  BY InitHolds, NextKeeps, PTL DEF Spec

\* The variables keep their types: a handler is a function, never the default
\* one but for terminate(), an object outlives no guard, a build without the
\* lock has no mutex, and a line ends inside its buffer.
THEOREM TypeCorrect == Spec => []TypeOK
<1>1. IInv => TypeOK
  BY DEF IInv, HandlerInv, UserLockInv, ObjectInv, LoggerInv, TypeOK
<1> QED
  BY <1>1, Invariance, PTL

\* Whatever is registered while a thread fails, the pointer it tested is still
\* a function when fatalHandler() and terminate() read it again to call it.
THEOREM NoNullIsCalled == Spec => []NeverCallsNull
<1>1. IInv => NeverCallsNull
  BY DEF IInv, HandlerInv, NeverCallsNull
<1> QED
  BY <1>1, Invariance, PTL

\* Whoever is inside a section holds its mutex, unless it was taken from that
\* very thread: from a user only by a manual guard that was refused, from a
\* log call only by logDeInit() or by a second logInit() of a static build,
\* and printed lines are whole otherwise.  No way out leaves a mutex locked, and
\* InitGuard undoes an init() that was not done only when a manual one failed.
THEOREM SectionsAreExclusive == Spec => []SectionsExclusive
<1>1. IInv => SectionsExclusive
  <2> SUFFICES ASSUME IInv PROVE SectionsExclusive
    OBVIOUS
  <2>1. UserLockInv /\ ObjectInv /\ LoggerInv
    BY DEF IInv
  <2>2. Section("user") = {t \in Threads : act[t].at = "inside"}
    BY DEF Section, Inside
  <2>3. Section("logger") = IF build.useLock THEN {t \in Threads : act[t].at \in Holding} ELSE {}
    BY DEF Section, Logging, Holding
  <2>4. \A l \in Locks : \A t \in Section(l) : lock[l] = t \/ t \in robbed[l]
    BY <2>1, <2>2, <2>3 DEF UserLockInv, LoggerInv, Locks
  <2>5. NoLockLeftBehind
    BY <2>1, <2>2, <2>3, GuardsAssumption DEF UserLockInv, LoggerInv, NoLockLeftBehind, Locks
  <2>6. /\ robbed["user"] # {} => refused
        /\ robbed["logger"] # {} => disturbed
        /\ unpaired => failed
        /\ build.useLock /\ ~disturbed => LineWhole
    BY <2>1 DEF UserLockInv, ObjectInv, LoggerInv
  <2> QED
    BY <2>4, <2>5, <2>6 DEF SectionsExclusive
<1> QED
  BY <1>1, Invariance, PTL

\* As long as no manual guard is refused its lock, at most one thread is inside
\* the user's section: what LockGuard promises of its throwing mode.
THEOREM GuardsAreExclusive == Spec => [](~refused => OneInside)
<1>1. ASSUME IInv, ~refused
      PROVE  OneInside
  <2>1. \A t \in Inside : lock["user"] = t
    BY <1>1 DEF IInv, UserLockInv, Inside
  <2>2. CASE Inside = {}
    BY <2>2, FS_EmptySet DEF OneInside
  <2>3. CASE Inside # {}
    <3>1. PICK t : t \in Inside
      BY <2>3
    <3>2. Inside = {t}
      BY <2>1, <3>1
    <3>3. Cardinality(Inside) = 1
      BY <3>2, FS_Singleton
    <3> QED
      BY <3>3 DEF OneInside
  <2> QED
    BY <2>2, <2>3
<1>2. IInv => (~refused => OneInside)
  BY <1>1
<1> QED
  BY <1>2, Invariance, PTL

\* Whatever the lengths, no text is written past the end of the line buffer but
\* behind a prefix that is longer than the whole buffer.
THEOREM TextsStayInside == Spec => []WritesInside
<1>1. IInv => WritesInside
  BY DEF IInv, LoggerInv
<1> QED
  BY <1>1, Invariance, PTL
=============================================================================
