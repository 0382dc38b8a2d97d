----------------------------- MODULE SyncLogger -----------------------------
(***************************************************************************)
(* The synchronous logger (logger/sync/sync.cpp): any thread formats its   *)
(* line into one static buffer and prints it, under a mutex if the build   *)
(* has EMDEVIF_LOGGER_SYNC_USE_LOCK.  The same threads use guards, fail    *)
(* and register handlers as modules Guards and ErrorHandlers have it.      *)
(*                                                                         *)
(* A text is its length; of the buffer the model keeps which thread wrote  *)
(* the prefix and the message in it.  A dereference of a null pointer or   *)
(* of a null mutex ends the thread; a write beyond the buffer may end it.  *)
(***************************************************************************)
EXTENDS Guards

CONSTANTS LineSize,        \* logMsgBufferLength()
          SeparatorLength, \* of "\n", "\r" or "\r\n"
          PrefixLengths,   \* lengths of time and level to try
          TextLengths,     \* lengths of a message to try
          SizeMax          \* how many values a size_t has

ASSUME SyncLoggerAssumption ==
  /\ LineSize \in Nat \ {0} /\ SeparatorLength \in {1, 2}
  /\ SizeMax \in Nat /\ LineSize < SizeMax
  /\ PrefixLengths \subseteq 0 .. SizeMax - 1 /\ TextLengths \subseteq Nat

VARIABLES build,   \* the macros USE_LOCK and DYNAMIC_CREATE
          impl,    \* vsnprintf_impl_ is set
          buffer,  \* who wrote the prefix and the text in log_msg_buffer_
          printed, \* the line printed last (history variable)
          overrun, \* prefixes of the calls that wrote past the end of the
                   \* buffer (history variable)
          disturbed \* the mutex was deleted or made again during a log call
                    \* (history variable)

loggerVars == <<build, impl, buffer, printed, overrun, disturbed>>
vars == <<act, handler, guardVars, loggerVars>>

Nobody == "nobody"
NoLine == [prefix |-> Nobody, text |-> Nobody, end |-> LineSize - 1]

LogStages == {"logLock", "logPrefix", "logText", "logPrint", "logEnd"}

\* logDeInit() of a dynamic build names the mutex, and compiles only with it.
Builds == {b \in [useLock : BOOLEAN, dynamic : BOOLEAN] : b.dynamic => b.useLock}

Logging == {t \in Threads : act[t].at \in LogStages}

Init ==
  /\ GuardsInit
  /\ build \in Builds
  /\ impl = FALSE
  /\ buffer = [prefix |-> Nobody, text |-> Nobody]
  /\ printed = NoLine /\ overrun = {} /\ disturbed = FALSE

\* The mutex is deleted or made again while log calls may be running.
Disturbs(state) ==
  /\ Reset("logger", state)
  /\ disturbed' = (disturbed \/ Logging # {})

\* logInit() makes a mutex and move-assigns it, which is fatal when the logger
\* has one.  A dynamic build makes a second one, which may fail, unseen; a
\* static build makes the one that may be in use anew.
LogInit(t, ok) ==
  /\ Ready(t)
  /\ impl' = TRUE
  /\ IF build.useLock /\ (~build.dynamic \/ (lock["logger"] = "none" /\ ok))
     THEN Disturbs("free")
     ELSE UNCHANGED <<lock, robbed, disturbed>>
  /\ IF lock["logger"] # "none" THEN Fails(t, "fatal") ELSE UNCHANGED act
  /\ UNCHANGED <<handler, object, refused, failed, unpaired, build, buffer, printed, overrun>>

\* logDeInit() is for dynamic builds; it does not wait for anybody.
LogDeInit(t) ==
  /\ Ready(t)
  /\ IF build.dynamic
     THEN Disturbs("none") /\ impl' = FALSE /\ UNCHANGED act
     ELSE Fails(t, "fatal") /\ UNCHANGED <<lock, robbed, impl, disturbed>>
  /\ UNCHANGED <<handler, object, refused, failed, unpaired, build, buffer, printed, overrun>>

\* logImpl(level, format, args)
Log(t, prefix, text) ==
  /\ Ready(t)
  /\ Go(t, [at |-> IF build.useLock THEN "logLock" ELSE "logPrefix",
            prefix |-> prefix, text |-> text])
  /\ UNCHANGED <<handler, guardVars, loggerVars>>

\* lock().terminateIfNotSucceed() waits without a time limit.
LogLocks(t) ==
  /\ act[t].at = "logLock"
  /\ \/ Take(t, "logger") /\ Go(t, [act[t] EXCEPT !.at = "logPrefix"])
     \/ lock["logger"] = "none" /\ Go(t, Dead) /\ UNCHANGED <<lock, robbed>>
  /\ UNCHANGED <<handler, object, refused, failed, unpaired, loggerVars>>

\* Faulty form of PrintfFails: an error of vsnprintf() ends the call past the guard.
PrintfForgets(t) == Go(t, Idle)

\* vsnprintf_impl_() answers with an error, and the call is over.
PrintfFails(t) == Go(t, [act[t] EXCEPT !.at = "logEnd"])

\* A prefix that fills the buffer leaves nothing of an earlier text.
LogPrefix(t) ==
  /\ act[t].at = "logPrefix"
  /\ \/ ~impl /\ Go(t, Dead) /\ UNCHANGED buffer
     \/ impl /\ PrintfFails(t) /\ UNCHANGED buffer
     \/ /\ impl /\ Go(t, [act[t] EXCEPT !.at = "logText"])
        /\ buffer' = [prefix |-> t,
                      text |-> IF act[t].prefix < LineSize THEN buffer.text ELSE t]
  /\ UNCHANGED <<handler, guardVars, build, impl, printed, overrun, disturbed>>

\* Faulty form of Room: the whole buffer is taken for free.
RoomWhole(prefix) == LineSize

\* The room for the text is the difference as an unsigned number.
Room(prefix) ==
  IF prefix <= LineSize THEN LineSize - prefix ELSE SizeMax + LineSize - prefix

\* vsnprintf() writes as much of a text and its NUL as there is room for.
TextEnd(prefix, text) ==
  prefix + (IF text < Room(prefix) THEN text + 1 ELSE Room(prefix))

\* Past the end of the buffer anything may be overwritten, and the call goes on.
LogText(t) ==
  /\ act[t].at = "logText"
  /\ \/ ~impl /\ Go(t, Dead) /\ UNCHANGED <<buffer, overrun>>
     \/ impl /\ PrintfFails(t) /\ UNCHANGED <<buffer, overrun>>
     \/ /\ impl
        /\ buffer' = IF act[t].prefix < LineSize THEN [buffer EXCEPT !.text = t] ELSE buffer
        /\ IF TextEnd(act[t].prefix, act[t].text) > LineSize
           THEN /\ overrun' = overrun \cup {act[t].prefix}
                /\ Go(t, [act[t] EXCEPT !.at = "logPrint"]) \/ Go(t, Dead)
           ELSE Go(t, [act[t] EXCEPT !.at = "logPrint"]) /\ UNCHANGED overrun
  /\ UNCHANGED <<handler, guardVars, build, impl, printed, disturbed>>

\* Faulty form of LineEnd: room for the separator but not for the final NUL.
LineEndPastBuffer(length) ==
  IF length + SeparatorLength <= LineSize THEN length + SeparatorLength ELSE LineSize - 1

\* Where the line ends: behind the separator, or in the last place of the
\* buffer when there is no room for it.
LineEnd(length) ==
  IF length + SeparatorLength < LineSize THEN length + SeparatorLength ELSE LineSize - 1

LogPrint(t) ==
  /\ act[t].at = "logPrint"
  /\ printed' = [prefix |-> buffer.prefix, text |-> buffer.text,
                 end |-> LineEnd(act[t].prefix + act[t].text)]
  /\ Go(t, [act[t] EXCEPT !.at = "logEnd"])
  /\ UNCHANGED <<handler, guardVars, build, impl, buffer, overrun, disturbed>>

\* The guard's destructor.
LogEnds(t) ==
  /\ act[t].at = "logEnd"
  /\ IF build.useLock THEN Unlock(t, "logger", Idle)
                      ELSE Go(t, Idle) /\ UNCHANGED <<lock, robbed>>
  /\ UNCHANGED <<handler, object, refused, failed, unpaired, loggerVars>>

Next ==
  \/ GuardsNext /\ UNCHANGED loggerVars
  \/ \E t \in Threads :
       \/ \E ok \in BOOLEAN : LogInit(t, ok)
       \/ \E prefix \in PrefixLengths, text \in TextLengths : Log(t, prefix, text)
       \/ LogDeInit(t) \/ LogLocks(t) \/ LogPrefix(t) \/ LogText(t) \/ LogPrint(t)
       \/ LogEnds(t)

Spec == Init /\ [][Next]_vars
-----------------------------------------------------------------------------
\* A text is written past the end of the line buffer only where the prefix is
\* longer than the whole buffer and the room for the text wraps to almost all
\* of memory: not at a prefix that just fills it, nor by a long text.
WritesInside == \A prefix \in overrun : prefix > LineSize

\* Types, and that lines and texts end inside the buffer.
TypeOK ==
  /\ handler \in [Slots -> Functions \cup {Null, "default"}]
  /\ \A s \in Slots : handler[s] = "default" => s = "terminate"
  /\ lock \in [Locks -> Threads \cup {"free", "none"}]
  /\ robbed \in [Locks -> SUBSET Threads]
  /\ object \in [Threads -> BOOLEAN]
  /\ buffer \in [{"prefix", "text"} -> Threads \cup {Nobody}]
  /\ printed.end \in 0 .. LineSize - 1
  /\ WritesInside
  /\ \A t \in Threads : object[t] => act[t].at = "guarded"
  /\ ~build.useLock => lock["logger"] = "none"

\* The threads in the section that a mutex guards.
Section(l) ==
  IF l = "user" THEN Inside
  ELSE IF build.useLock THEN {t \in Logging : act[t].at # "logLock"} ELSE {}

\* A mutex is held by a thread inside its section, on every way out of it too,
\* unless that thread has stopped there.
NoLockLeftBehind ==
  \A l \in Locks, t \in Threads : lock[l] = t => t \in Section(l) \/ act[t].at = "dead"

\* The parts of a printed line were written by one thread.
LineWhole == printed.prefix = printed.text

\* LockGuard keeps two threads out of one section: whoever is inside holds the
\* mutex, unless it was taken from that very thread while it was inside.  Only
\* a manual guard that was refused its lock and unlocks it all the same does
\* that to a user, and only logDeInit(), or a second logInit() of a static
\* build, during a log call to the logger, whose lines are whole otherwise.
\* No way out, thrown, early or after an error, leaves a mutex locked; and
\* InitGuard runs deInit() on an object that is not initialised only after a
\* manual init() has failed.
SectionsExclusive ==
  /\ \A l \in Locks : \A t \in Section(l) : lock[l] = t \/ t \in robbed[l]
  /\ robbed["user"] # {} => refused
  /\ robbed["logger"] # {} => disturbed
  /\ NoLockLeftBehind
  /\ unpaired => failed
  /\ build.useLock /\ ~disturbed => LineWhole

\* At most one thread is inside, which is what LockGuard is for
\* (lock_guard.hpp:41); a manual guard that was refused its lock breaks it.
OneInside == Cardinality(Inside) <= 1

=============================================================================
