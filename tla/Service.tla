-------------------------------- MODULE Service --------------------------------
(***************************************************************************)
(* The life of the API process, cmd/api/main.go: startup, serving, a       *)
(* signal, the bounded graceful shutdown and the deferred calls, together  *)
(* with the goroutine that serves, the handlers and the pool, whose size   *)
(* is what Config made of DB_MAX_CONNS.                                    *)
(*                                                                         *)
(* A request is named by its connection.  net/http is external: it counts  *)
(* a connection as active once a request's header is read, a moment after  *)
(* the handler's goroutine has read it.                                    *)
(***************************************************************************)
EXTENDS Config, FiniteSets

CONSTANTS Requests,
          MaxSignals \* bound on the signals that arrive

ASSUME ServiceAssumption == MaxSignals \in Nat

VARIABLES phase,    \* main's goroutine
          exit,     \* what run is going to answer: 0, or 1 for an error
          server,   \* the goroutine of ListenAndServe
          errors,   \* the buffered channel serveErrors
          stopped,  \* is stopContext done?
          signals,  \* how many have arrived
          request,  \* by request: its step
          cut,      \* requests whose connection is closed under them
          counted,  \* requests that became active, on a connection that was open
          held,     \* requests that hold a connection of the pool
          pool      \* "none", "open", or "closed" to those who acquire

vars == <<phase, exit, server, errors, stopped, signals, request, cut, counted, held, pool,
          configVars>>
mainVars == <<phase, exit, stopped, signals>>
serveVars == <<server, errors>>
handlerVars == <<request, cut, counted, held>>

Init ==
    /\ phase = "loading" /\ exit = 0
    /\ server = "none" /\ errors = {}
    /\ stopped = FALSE /\ signals = 0
    /\ request = [r \in Requests |-> "none"]
    /\ cut = {} /\ counted = {} /\ held = {}
    /\ pool = "none"
    /\ LoadInit

\* The process is gone.
Gone == phase \in {"exited", "killed"}

-----------------------------------------------------------------------------
(* main and run.                                                           *)

\* config.Load, one variable after another.
LoadStep ==
    /\ phase = "loading" /\ Configure
    /\ UNCHANGED <<mainVars, serveVars, handlerVars, pool>>

\* It answers a configuration or an error.
Load ==
    /\ phase = "loading"
    /\ \/ result = "accepted" /\ phase' = "opening" /\ UNCHANGED exit
       \/ result = "refused" /\ phase' = "exited" /\ exit' = 1
    /\ UNCHANGED <<serveVars, stopped, signals, handlerVars, pool, configVars>>

\* store.Open closes its own pool when the server or the schema is not the one
\* expected, or 15 seconds are over.
Open ==
    /\ phase = "opening"
    /\ \/ phase' = "opened" /\ pool' = "open" /\ UNCHANGED exit
       \/ phase' = "exited" /\ exit' = 1 /\ UNCHANGED pool
    /\ UNCHANGED <<serveVars, stopped, signals, handlerVars, configVars>>

\* signal.NotifyContext, and the goroutine that serves.
Serve ==
    /\ phase = "opened"
    /\ phase' = "selecting" /\ server' = "starting"
    /\ UNCHANGED <<exit, errors, stopped, signals, handlerVars, pool, configVars>>

SelectError ==
    /\ phase = "selecting" /\ errors # {}
    /\ phase' = "closing"
    /\ exit' = IF errors = {"ErrServerClosed"} THEN 0 ELSE 1
    /\ UNCHANGED <<serveVars, stopped, signals, handlerVars, pool, configVars>>

\* Mutant of SelectStop: the pool is closed first.
ClosePoolFirst ==
    /\ phase = "selecting" /\ stopped
    /\ phase' = "draining" /\ pool' = "closed"
    /\ UNCHANGED <<exit, serveVars, stopped, signals, handlerVars, configVars>>

\* server.Shutdown closes the listener; Listening says so.
SelectStop ==
    /\ phase = "selecting" /\ stopped
    /\ phase' = "draining"
    /\ UNCHANGED <<exit, serveVars, stopped, signals, handlerVars, pool, configVars>>

ShuttingDown == phase \in {"draining", "closing", "waiting"} /\ stopped

Over == {"answered", "lost", "refused"}
Active == {r \in counted : request[r] \notin Over}
Idle == {r \in Requests \ cut : request[r] \in {"accepted", "read"}}

\* Shutdown closes connections without a whole header, and those whose header
\* was read but that are not counted yet.
CloseIdle(r) ==
    /\ phase = "draining" /\ r \in Idle
    /\ cut' = cut \cup {r}
    /\ UNCHANGED <<mainVars, serveVars, request, counted, held, pool, configVars>>

\* Shutdown returns when no connection is left.
Drained ==
    /\ phase = "draining" /\ Active = {} /\ Idle = {}
    /\ phase' = "closing"
    /\ UNCHANGED <<exit, serveVars, stopped, signals, handlerVars, pool, configVars>>

\* Mutant of ShutdownTimeout: without a bound, Shutdown has to see the last one off.
ShutdownUnbounded ==
    /\ phase = "draining" /\ Active = {} /\ Idle = {}
    /\ phase' = "closing" /\ exit' = 1
    /\ UNCHANGED <<serveVars, stopped, signals, handlerVars, pool, configVars>>

\* SHUTDOWN_TIMEOUT: server.Close closes every connection.  Shutdown polls, so
\* the deadline may pass when nothing is active any more.
ShutdownTimeout ==
    /\ phase = "draining"
    /\ phase' = "closing" /\ exit' = 1
    /\ cut' = cut \cup Active \cup Idle
    /\ UNCHANGED <<serveVars, stopped, signals, request, counted, held, pool, configVars>>

\* The deferred calls: signals are no longer caught, and the pool is closed,
\* which makes later acquires fail.
ClosePool ==
    /\ phase = "closing"
    /\ phase' = "waiting" /\ pool' = "closed"
    /\ UNCHANGED <<exit, serveVars, stopped, signals, handlerVars, configVars>>

\* Mutant of PoolClosed: the process does not wait for acquired connections.
PoolLeft ==
    /\ phase = "waiting"
    /\ phase' = "exited"
    /\ UNCHANGED <<exit, serveVars, stopped, signals, handlerVars, pool, configVars>>

\* pool.Close returns when every acquired connection is back.
PoolClosed ==
    /\ phase = "waiting" /\ held = {}
    /\ phase' = "exited"
    /\ UNCHANGED <<exit, serveVars, stopped, signals, handlerVars, pool, configVars>>

\* SIGTERM: caught from NotifyContext to stop, where only the first one counts;
\* before and after, it ends the process.
Signal ==
    /\ ~Gone /\ signals < MaxSignals
    /\ signals' = signals + 1
    /\ IF phase \in {"selecting", "draining"}
       THEN stopped' = TRUE /\ UNCHANGED phase
       ELSE phase' = "killed" /\ UNCHANGED stopped
    /\ UNCHANGED <<exit, serveVars, handlerVars, pool, configVars>>

-----------------------------------------------------------------------------
(* The goroutine of ListenAndServe.                                        *)

\* The port may be taken; a server that is shut down already does not listen.
Listen ==
    /\ ~Gone /\ server = "starting"
    /\ \/ ~ShuttingDown /\ server' = "listening" /\ UNCHANGED errors
       \/ ~ShuttingDown /\ server' = "done" /\ errors' = errors \cup {"listen"}
       \/ ShuttingDown /\ server' = "done" /\ errors' = errors \cup {"ErrServerClosed"}
    /\ UNCHANGED <<mainVars, handlerVars, pool, configVars>>

\* Accepting fails, or the server is shut down.
ServeReturns ==
    /\ ~Gone /\ server = "listening"
    /\ server' = "done"
    /\ errors' = errors \cup {IF ShuttingDown THEN "ErrServerClosed" ELSE "accept"}
    /\ UNCHANGED <<mainVars, handlerVars, pool, configVars>>

Listening == server = "listening" /\ ~ShuttingDown

-----------------------------------------------------------------------------
(* Requests and their handlers.                                            *)

Goto(r, step) == request' = [request EXCEPT ![r] = step]

Accept(r) ==
    /\ ~Gone /\ Listening /\ request[r] = "none"
    /\ Goto(r, "accepted")
    /\ UNCHANGED <<mainVars, serveVars, cut, counted, held, pool, configVars>>

ReadHeader(r) ==
    /\ ~Gone /\ request[r] = "accepted" /\ r \notin cut
    /\ Goto(r, "read")
    /\ UNCHANGED <<mainVars, serveVars, cut, counted, held, pool, configVars>>

\* The handler starts, and the connection becomes active if it is still open.
Activate(r) ==
    /\ ~Gone /\ request[r] = "read"
    /\ Goto(r, "handling") /\ counted' = counted \cup ({r} \ cut)
    /\ UNCHANGED <<mainVars, serveVars, cut, held, pool, configVars>>

\* A handler reads a body, refuses, or comes to its store call.
Refuse(r) ==
    /\ ~Gone /\ request[r] = "handling"
    /\ Goto(r, "answering")
    /\ UNCHANGED <<mainVars, serveVars, cut, counted, held, pool, configVars>>

CallStore(r) ==
    /\ ~Gone /\ request[r] = "handling"
    /\ Goto(r, "calling")
    /\ UNCHANGED <<mainVars, serveVars, cut, counted, held, pool, configVars>>

Acquire(r) ==
    /\ ~Gone /\ request[r] = "calling" /\ pool = "open" /\ Cardinality(held) < config.DB_MAX_CONNS
    /\ Goto(r, "storing") /\ held' = held \cup {r}
    /\ UNCHANGED <<mainVars, serveVars, cut, counted, pool, configVars>>

\* A pool that is closed answers at once: 503.
PoolRefuses(r) ==
    /\ ~Gone /\ request[r] = "calling" /\ pool = "closed"
    /\ Goto(r, "turned away")
    /\ UNCHANGED <<mainVars, serveVars, cut, counted, held, pool, configVars>>

\* The store call ends, at the latest with DB_TIMEOUT, or early because the
\* connection is closed and the request's context with it; so does the wait for
\* a connection of the pool.
Return(r) ==
    /\ ~Gone /\ request[r] \in {"storing", "calling"}
    /\ Goto(r, "answering") /\ held' = held \ {r}
    /\ UNCHANGED <<mainVars, serveVars, cut, counted, pool, configVars>>

\* The response is written, to a connection that may be closed.
Respond(r) ==
    /\ ~Gone /\ request[r] \in {"answering", "turned away"}
    /\ Goto(r, IF r \in cut THEN "lost" ELSE IF request[r] = "answering" THEN "answered" ELSE "refused")
    /\ UNCHANGED <<mainVars, serveVars, cut, counted, held, pool, configVars>>

Handler(r) ==
    \/ Accept(r) \/ ReadHeader(r) \/ Activate(r) \/ Refuse(r) \/ CallStore(r)
    \/ Acquire(r) \/ PoolRefuses(r) \/ Return(r) \/ Respond(r)

-----------------------------------------------------------------------------
Main ==
    \/ LoadStep \/ Load \/ Open \/ Serve \/ SelectError \/ SelectStop \/ Drained \/ ShutdownTimeout
    \/ ClosePool \/ PoolClosed \/ \E r \in Requests : CloseIdle(r)

Exited == Gone /\ UNCHANGED vars

Next == Main \/ Signal \/ Listen \/ ServeReturns \/ (\E r \in Requests : Handler(r)) \/ Exited

Spec == Init /\ [][Next]_vars

\* main runs, and the shutdown deadline passes; a store call ends, because its
\* context has a deadline.  Nothing is assumed of clients, who may send a body
\* or read a response as slowly as they like.
FairSpec == Spec /\ WF_vars(Main) /\ \A r \in Requests : WF_vars(Return(r))

-----------------------------------------------------------------------------
\* A process that came to its pool is configured as it was asked, with nothing
\* changed on the way, and as its components need it.
OpenedAsAsked == pool # "none" => AsAsked /\ ReliedOn

\* A process that ends by itself has every connection of the pool back: no
\* handler is inside a transaction, however the shutdown went.
NoTransactionCut == phase = "exited" => held = {}

\* Exit status 0 promises that every request the server counted was answered:
\* none is cut off, left running, or turned away by a pool that closed under it.
\* (One whose header was read as its connection was closed is not counted.)
CleanExitAnswersAll ==
    phase = "exited" /\ exit = 0 => \A r \in counted : request[r] = "answered"

\* "Handles SIGTERM gracefully": the process ends, whatever clients do.
SignalEnds == stopped ~> Gone
=============================================================================
