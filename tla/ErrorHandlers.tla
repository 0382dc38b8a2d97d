--------------------------- MODULE ErrorHandlers ---------------------------
(***************************************************************************)
(* The error handlers of core (error_handler.cpp, fatal_handler.hpp): three*)
(* function pointers that any thread may register at any time, and the way *)
(* of a thread through fatalHandler() or a failed assertion to             *)
(* terminate(), which does not return.  Other threads go on meanwhile, and *)
(* may register another handler between the test of a pointer and its call.*)
(***************************************************************************)
EXTENDS Naturals, FiniteSets

CONSTANTS Threads,   \* the threads of the program
          Functions, \* functions that may be registered
          Null       \* nullptr

ASSUME ErrorHandlersAssumption ==
  /\ IsFiniteSet(Threads)
  /\ Null \notin Functions \cup {"default"} /\ "default" \notin Functions

VARIABLES act,    \* what each thread is doing
          handler \* fatalHandlerCallback, assertFailedHandler, terminateFunction

Slots == {"fatal", "assert", "terminate"}

Idle == [at |-> "idle"]
Dead == [at |-> "dead"]

Ready(t) == act[t] = Idle

Go(t, to) == act' = [act EXCEPT ![t] = to]

HandlersInit ==
  /\ act = [t \in Threads |-> Idle]
  /\ handler = [s \in Slots |-> IF s = "terminate" THEN "default" ELSE Null]

\* Faulty form of Register: nullptr is stored like any other function.
RegisterAny(s, f) == handler' = [handler EXCEPT ![s] = f]

\* registerFatalHandler(), registerAssertFailedHandler() and
\* registerTerminateFunction() ignore nullptr.
Register(s, f) ==
  handler' = IF f = Null THEN handler ELSE [handler EXCEPT ![s] = f]

\* fatalHandler() (or emdevif_assert() of a false condition) tests its
\* pointer ...
Fails(t, s) ==
  Go(t, IF handler[s] # Null THEN [at |-> "handling", slot |-> s]
                             ELSE [at |-> "terminating"])

\* ... and reads it again to call it; when the handler returns, terminate() is
\* called, which loops when the function it calls returns.
Handles(t) == act[t].at = "handling" /\ Go(t, [at |-> "terminating"])

Terminates(t) == act[t].at = "terminating" /\ Go(t, Dead)

HandlersNext ==
  \/ \E s \in Slots, f \in Functions \cup {Null} : Register(s, f) /\ UNCHANGED act
  \/ \E t \in Threads :
       /\ \/ Ready(t) /\ \E s \in {"fatal", "assert"} : Fails(t, s)
          \/ Handles(t) \/ Terminates(t)
       /\ UNCHANGED handler

\* Whoever registers what in the meantime, a thread that fails never calls a
\* null pointer on its way to terminate().
NeverCallsNull ==
  \A t \in Threads :
    /\ act[t].at = "handling" => handler[act[t].slot] # Null
    /\ act[t].at = "terminating" => handler["terminate"] # Null
=============================================================================
