----------------------------- MODULE ServiceProofs -----------------------------
(***************************************************************************)
(* What the end of the API process leaves behind, for any requests and any *)
(* environment.  Drained is where it is decided: before it the pool is     *)
(* open and no counted request is cut; after it, with exit status 0, every *)
(* counted request is answered and no other can be counted.                *)
(***************************************************************************)
EXTENDS Service, SequenceTheorems, TLAPS

Starting == {"loading", "opening", "opened", "selecting"}
Before == Starting \cup {"draining"}
Ending == {"closing", "waiting", "exited"}
Steps == {"none", "accepted", "read", "handling", "calling", "storing", "turned away",
          "answering"} \cup Over

TypeOK ==
    /\ phase \in Before \cup Ending \cup {"killed"} /\ exit \in {0, 1}
    /\ request \in [Requests -> Steps]
    /\ counted \subseteq Requests /\ held \subseteq Requests /\ cut \subseteq Requests
    /\ stopped \in BOOLEAN /\ pool \in {"none", "open", "closed"}

\* Nobody holds a connection before there are any, or when they are all back.
NobodyHolds ==
    /\ phase \in {"loading", "opening"} => pool = "none"
    /\ phase \in {"loading", "opening", "exited"} => held = {}

\* Until Shutdown has returned.
NothingLostYet ==
    phase \in Before =>
        /\ pool # "closed" /\ cut \cap counted = {}
        /\ \A r \in Requests : request[r] \notin {"turned away", "refused"}

\* The server is closed by nobody but main.
NotClosedYet ==
    /\ phase \in Starting => "ErrServerClosed" \notin errors
    /\ phase = "draining" => stopped

\* A counted request has left the steps before its handler; only one that is
\* cut is lost.
CountedLate ==
    /\ \A r \in counted : request[r] \notin {"none", "accepted", "read"}
    /\ \A r \in Requests : request[r] = "lost" => r \in cut

\* After a clean Shutdown.
DrainedClean ==
    phase \in Ending /\ exit = 0 =>
        /\ stopped
        /\ \A r \in counted : request[r] = "answered"
        /\ \A r \in Requests : request[r] \in {"accepted", "read"} => r \in cut

IInv == TypeOK /\ NobodyHolds /\ NothingLostYet /\ NotClosedYet /\ CountedLate /\ DrainedClean

\* main.go starts in a state of the invariant.
LEMMA Initially == Init => IInv
BY DEF Init, IInv, TypeOK, NobodyHolds, NothingLostYet, NotClosedYet, CountedLate, DrainedClean,
       Before, Starting, Ending, Steps, Over

\* Every step of main, of a signal, of the serving goroutine and of a handler
\* keeps the invariant.
LEMMA Inductive == IInv /\ [Next]_vars => IInv'
<1>0. SUFFICES ASSUME IInv, [Next]_vars PROVE IInv'
  OBVIOUS
<1> USE DEF IInv, TypeOK, NobodyHolds, NothingLostYet, NotClosedYet, CountedLate, DrainedClean,
            Before, Starting, Ending, Steps, Over, mainVars, serveVars, handlerVars
<1>0a. CASE LoadStep
  BY <1>0, <1>0a DEF LoadStep
<1>1. CASE Load
  <2>1. TypeOK' /\ NobodyHolds' /\ NothingLostYet' /\ NotClosedYet' /\ CountedLate'
    BY <1>0, <1>1 DEF Load
  <2>2. phase' = "opening" \/ exit' = 1
    BY <1>0, <1>1 DEF Load
  <2>3. DrainedClean'
    BY <2>2
  <2> QED
    BY <2>1, <2>3
<1>2. CASE Open
  <2>1. TypeOK' /\ NobodyHolds' /\ NothingLostYet' /\ NotClosedYet' /\ CountedLate'
    BY <1>0, <1>2 DEF Open
  <2>2. phase' = "opened" \/ exit' = 1
    BY <1>0, <1>2 DEF Open
  <2>3. DrainedClean'
    BY <2>2
  <2> QED
    BY <2>1, <2>3
<1>3. CASE Serve
  BY <1>0, <1>3 DEF Serve
<1>4. CASE SelectError
  <2>1. TypeOK' /\ NobodyHolds' /\ NothingLostYet' /\ NotClosedYet' /\ CountedLate'
    BY <1>0, <1>4 DEF SelectError
  <2>2. phase' = "closing" /\ exit' = 1
    BY <1>0, <1>4 DEF SelectError
  <2>3. DrainedClean'
    BY <2>2
  <2> QED
    BY <2>1, <2>3
<1>5. CASE SelectStop
  BY <1>0, <1>5 DEF SelectStop
<1>6. CASE Drained
  <2>1. \A r \in counted : request[r] = "answered"
    BY <1>0, <1>6 DEF Drained, Active, Over
  <2>2. \A r \in Requests : request[r] \in {"accepted", "read"} => r \in cut
    BY <1>0, <1>6 DEF Drained, Idle
  <2> QED
    BY <1>0, <1>6, <2>1, <2>2 DEF Drained
<1>7. CASE ShutdownTimeout
  <2>1. TypeOK' /\ NobodyHolds' /\ NothingLostYet' /\ NotClosedYet' /\ CountedLate'
    BY <1>0, <1>7 DEF ShutdownTimeout, Active, Idle
  <2>2. phase' = "closing" /\ exit' = 1
    BY <1>0, <1>7 DEF ShutdownTimeout
  <2>3. DrainedClean'
    BY <2>2
  <2> QED
    BY <2>1, <2>3
<1>8. CASE ClosePool
  BY <1>0, <1>8 DEF ClosePool
<1>9. CASE PoolClosed
  BY <1>0, <1>9 DEF PoolClosed
<1>10. ASSUME NEW r \in Requests, CloseIdle(r) PROVE IInv'
  BY <1>0, <1>10 DEF CloseIdle, Idle
<1>11. CASE Signal
  BY <1>0, <1>11 DEF Signal, Gone
<1>12. CASE Listen
  BY <1>0, <1>12 DEF Listen, ShuttingDown, Gone
<1>13. CASE ServeReturns
  BY <1>0, <1>13 DEF ServeReturns, ShuttingDown, Gone
<1>14. ASSUME NEW r \in Requests, Handler(r) PROVE IInv'
  <2> USE DEF Goto, Gone
  <2>1. CASE Accept(r)
    BY <1>0, <2>1 DEF Accept, Listening, ShuttingDown
  <2>2. CASE ReadHeader(r)
    BY <1>0, <2>2 DEF ReadHeader
  <2>3. CASE Activate(r)
    BY <1>0, <2>3 DEF Activate
  <2>4. CASE Refuse(r)
    BY <1>0, <2>4 DEF Refuse
  <2>5. CASE CallStore(r)
    BY <1>0, <2>5 DEF CallStore
  <2>6. CASE Acquire(r)
    BY <1>0, <2>6 DEF Acquire
  <2>7. CASE PoolRefuses(r)
    BY <1>0, <2>7 DEF PoolRefuses
  <2>8. CASE Return(r)
    BY <1>0, <2>8 DEF Return
  <2>9. CASE Respond(r)
    BY <1>0, <2>9 DEF Respond
  <2> QED
    BY <1>14, <2>1, <2>2, <2>3, <2>4, <2>5, <2>6, <2>7, <2>8, <2>9 DEF Handler
<1>15. CASE Exited
  BY <1>0, <1>15 DEF Exited, vars
<1>16. CASE UNCHANGED vars
  BY <1>0, <1>16 DEF vars
<1> QED
  BY <1>0, <1>0a, <1>1, <1>2, <1>3, <1>4, <1>5, <1>6, <1>7, <1>8, <1>9, <1>10, <1>11, <1>12, <1>13, <1>14,
     <1>15, <1>16 DEF Next, Main

\* The invariant holds in every state of the process.
LEMMA Always == Spec => []IInv
<1> QED
  BY Initially, Inductive, PTL DEF Spec

\* For any requests and any environment: a process that ends by itself cuts
\* no handler off inside a transaction (the deferred database.Close).
THEOREM ConnectionsReturned == Spec => []NoTransactionCut
<1>1. IInv => NoTransactionCut
  BY DEF IInv, NobodyHolds, NoTransactionCut
<1> QED
  BY <1>1, Always, PTL

\* For any requests and any environment: exit status 0 means that every
\* request the server counted was answered (server.Shutdown before database.Close).
THEOREM ExitMeansAnswered == Spec => []CleanExitAnswersAll
<1>1. IInv => CleanExitAnswersAll
  BY DEF IInv, TypeOK, DrainedClean, CleanExitAnswersAll, Ending
<1> QED
  BY <1>1, Always, PTL

-----------------------------------------------------------------------------
(* The configuration: what was read so far is what the environment asks    *)
(* for, and what is not read yet is the rest of Numbers.                   *)

Names == {Numbers[i] : i \in 1..7}
Done == 7 - Len(todo)

ReadSoFar ==
    /\ todo \in Seq(Names) /\ Len(todo) \in 0..7
    /\ \A i \in 1..Len(todo) : todo[i] = Numbers[i + Done]
    /\ \A i \in 1..Done :
          Numbers[i] \in DOMAIN config /\ config[Numbers[i]] = Given(Numbers[i])

Widths ==
    /\ \A i \in 1..Done : Given(Numbers[i]) \in Int
    /\ Done >= 4 => Given("DB_MAX_CONNS") \in -(Max32 + 1)..Max32

ConfigInv ==
    /\ ReadSoFar /\ Widths
    /\ result = "accepted" => AsAsked /\ ReliedOn
    /\ phase \notin {"loading", "exited", "killed"} \/ pool # "none" => result = "accepted"

\* Seven variables, each of a name of its own.
LEMMA NumbersFacts ==
    /\ DOMAIN Numbers = 1..7 /\ Numbers[4] = "DB_MAX_CONNS"
    /\ Numbers[3] = "MAX_CELLS" /\ Numbers[5] = "REQUEST_TIMEOUT" /\ Numbers[6] = "DB_TIMEOUT"
    /\ \A i, j \in 1..7 : Numbers[i] = Numbers[j] => i = j
    /\ Numbers \in Seq(Names) /\ Len(Numbers) = 7
BY DEF Numbers, Names

\* An int32 is not changed by its conversion.
LEMMA NarrowKeeps ==
    ASSUME NEW n \in -(Max32 + 1)..Max32
    PROVE  Narrow(n) = n
<1>1. Max32 \in Nat
  BY ConfigAssumption
<1>2. n + Max32 + 1 \in 0..(2 * (Max32 + 1) - 1)
  BY <1>1
<1>3. \A m \in Nat \ {0} : \A x \in 0..(m - 1) : x % m = x
  OBVIOUS
<1>4. (n + Max32 + 1) % (2 * (Max32 + 1)) = n + Max32 + 1
  BY <1>1, <1>2, <1>3
<1> QED
  BY <1>1, <1>4 DEF Narrow

\* A variable that is read is an integer, as it was given, or its default.
LEMMA ReadValue ==
    ASSUME NEW i \in 1..7, Readable(env[Numbers[i]]),
           Numbers[i] = "DB_MAX_CONNS" => InRange32(env[Numbers[i]])
    PROVE  /\ Given(Numbers[i]) \in Int
           /\ Numbers[i] = "DB_MAX_CONNS" =>
                 /\ Given(Numbers[i]) \in -(Max32 + 1)..Max32
                 /\ Narrow(Given(Numbers[i])) = Given(Numbers[i])
<1>1. Given(Numbers[i]) \in Int
  BY FallbackAssumption, ConfigAssumption, NumbersFacts DEF Given, Readable
<1>2. Numbers[i] = "DB_MAX_CONNS" => Given(Numbers[i]) \in -(Max32 + 1)..Max32
  BY FallbackAssumption, ConfigAssumption DEF Given, InRange32
<1> QED
  BY <1>1, <1>2, NarrowKeeps

\* One variable is read after another, in the order of Load.
LEMMA ReadStep ==
    ASSUME ReadSoFar, Widths, NEW k \in 1..7, Read(Numbers[k])
    PROVE  ReadSoFar' /\ Widths' /\ result' # "accepted"
<1> DEFINE name == Numbers[k]
<1>0. env' = env /\ result = "loading" /\ todo # <<>> /\ Head(todo) = name
  BY DEF Read
<1>h. /\ Tail(todo) \in Seq(Names) /\ Len(Tail(todo)) = Len(todo) - 1
      /\ \A i \in 1..Len(Tail(todo)) : Tail(todo)[i] = todo[i + 1]
  BY <1>0, HeadTailProperties DEF ReadSoFar
<1>1. k = Done + 1 /\ Len(todo) \in 1..7 /\ Done \in 0..6
  <2>1. Len(todo) \in 1..7 /\ Done \in 0..6
    <3>1. Len(todo) \in Nat \ {0}
      BY <1>0, EmptySeq DEF ReadSoFar
    <3>2. \A n \in (Nat \ {0}) \cap (0..7) : n \in 1..7 /\ 7 - n \in 0..6
      OBVIOUS
    <3> QED
      BY <3>1, <3>2 DEF ReadSoFar, Done
  <2>2. Head(todo) = Numbers[1 + Done]
    BY <2>1 DEF ReadSoFar
  <2> QED
    BY <1>0, <2>1, <2>2, NumbersFacts
<1>2. CASE result' = "refused" /\ UNCHANGED <<config, todo>>
  BY <1>0, <1>2 DEF ReadSoFar, Widths, Done, Given
<1>3. CASE /\ Readable(env[name]) /\ (name = "DB_MAX_CONNS" => InRange32(env[name]))
           /\ config' = [n \in DOMAIN config \cup {name} |->
                            IF n # name THEN config[n]
                            ELSE IF name = "DB_MAX_CONNS" THEN Narrow(Given(name)) ELSE Given(name)]
           /\ todo' = Tail(todo) /\ result' = result
  <2>1. /\ Given(name) \in Int
        /\ name = "DB_MAX_CONNS" => Given(name) \in -(Max32 + 1)..Max32 /\ Narrow(Given(name)) = Given(name)
    BY <1>3, ReadValue
  <2>2. config'[name] = Given(name) /\ name \in DOMAIN config'
    BY <1>3, <2>1
  <2>3. \A n \in DOMAIN config : n # name => n \in DOMAIN config' /\ config'[n] = config[n]
    BY <1>3
  <2>4. /\ todo' \in Seq(Names) /\ Len(todo') = Len(todo) - 1
        /\ \A i \in 1..Len(todo') : todo'[i] = todo[i + 1]
    BY <1>h, <1>3
  <2>5. Done' = Done + 1
    BY <1>1, <2>4 DEF Done
  <2>6. \A n : Given(n)' = Given(n)
    BY <1>0 DEF Given
  <2>7. ReadSoFar'
    <3>1. Len(todo') \in 0..7 /\ \A i \in 1..Len(todo') : todo'[i] = Numbers[i + Done']
      <4>1. Len(todo') \in 0..6 /\ Done' = 7 - Len(todo')
        <5>1. \A n \in 1..7 : n - 1 \in 0..6
          OBVIOUS
        <5> QED
          BY <1>1, <2>4, <5>1 DEF Done
      <4>2. ASSUME NEW i \in 1..Len(todo') PROVE todo'[i] = Numbers[i + Done']
        <5>1. i + 1 \in 1..Len(todo) /\ i + Done' = i + 1 + Done
          BY <1>1, <2>4, <2>5, <4>1
        <5>2. todo[i + 1] = Numbers[i + 1 + Done]
          BY <5>1 DEF ReadSoFar
        <5> QED
          BY <2>4, <5>1, <5>2
      <4> QED
        BY <4>1, <4>2
    <3>2. ASSUME NEW i \in 1..Done' PROVE Numbers[i] \in DOMAIN config' /\ config'[Numbers[i]] = Given(Numbers[i])
      <4>1. CASE i = k
        BY <2>2, <4>1
      <4>2. CASE i # k
        <5>1. i \in 1..Done /\ i \in 1..7 /\ Numbers[i] # name
          BY <1>1, <2>5, <4>2, NumbersFacts
        <5> QED
          BY <2>3, <5>1 DEF ReadSoFar
      <4> QED
        BY <4>1, <4>2
    <3> QED
      BY <2>4, <2>6, <3>1, <3>2 DEF ReadSoFar
  <2>8. Widths'
    <3>1. \A i \in 1..Done' : Given(Numbers[i]) \in Int
      BY <1>1, <2>1, <2>5 DEF Widths
    <3>2. Done' >= 4 => Given("DB_MAX_CONNS") \in -(Max32 + 1)..Max32
      BY <1>1, <2>1, <2>5, NumbersFacts DEF Widths
    <3> QED
      BY <2>6, <3>1, <3>2 DEF Widths
  <2> QED
    BY <1>0, <1>3, <2>7, <2>8
<1> QED
  BY <1>2, <1>3 DEF Read

\* A configuration is accepted when every variable is read and all is valid.
LEMMA ValidateStep ==
    ASSUME ReadSoFar, Widths, Validate
    PROVE  ReadSoFar' /\ Widths' /\ (result' = "accepted" => AsAsked' /\ ReliedOn')
<1>1. UNCHANGED <<env, todo, config>> /\ todo = <<>>
  BY DEF Validate
<1>2. ReadSoFar' /\ Widths'
  BY <1>1 DEF ReadSoFar, Widths, Done, Given
<1>3. Done = 7
  BY <1>1 DEF Done
<1>4. AsAsked
  BY <1>3, NumbersFacts DEF AsAsked, ReadSoFar
<1>5. /\ config.MAX_CELLS = Given("MAX_CELLS") /\ config.DB_MAX_CONNS = Given("DB_MAX_CONNS")
      /\ config.REQUEST_TIMEOUT = Given("REQUEST_TIMEOUT") /\ config.DB_TIMEOUT = Given("DB_TIMEOUT")
      /\ Given("REQUEST_TIMEOUT") \in Int /\ Given("DB_TIMEOUT") \in Int
      /\ Given("DB_MAX_CONNS") \in -(Max32 + 1)..Max32
  BY <1>3, NumbersFacts DEF ReadSoFar, Widths
<1>6. Valid => ReliedOn
  <2>1. ASSUME NEW n \in Int, NEW m \in Int, n > 0, n < m PROVE n \in 1..(m - 1)
    BY <2>1
  <2>2. Valid => config.DB_TIMEOUT \in 1..(config.REQUEST_TIMEOUT - 1)
    BY <1>5, <2>1 DEF Valid, TimeoutsNest
  <2>3. Valid => config.DB_MAX_CONNS \in 1..Max32
    <3>1. ASSUME NEW n \in -(Max32 + 1)..Max32, n >= 1 PROVE n \in 1..Max32
      BY <3>1, ConfigAssumption
    <3> QED
      BY <1>5, <3>1 DEF Valid
  <2> QED
    BY <2>2, <2>3 DEF Valid, ReliedOn
<1> QED
  BY <1>1, <1>2, <1>4, <1>6 DEF Validate, AsAsked, ReliedOn, Given

LEMMA ConfigInitially == Init => ConfigInv
<1> SUFFICES ASSUME Init PROVE ConfigInv
  OBVIOUS
<1>1. todo = Numbers /\ result = "loading" /\ phase = "loading" /\ pool = "none"
  BY DEF Init, LoadInit
<1>2. Done = 0
  BY <1>1, NumbersFacts DEF Done
<1> QED
  BY <1>1, <1>2, NumbersFacts DEF ConfigInv, ReadSoFar, Widths

\* Only Load's own steps touch the configuration, and only an accepted one
\* leads to a pool.
LEMMA ConfigInductive == ConfigInv /\ [Next]_vars => ConfigInv'
<1> SUFFICES ASSUME ConfigInv, [Next]_vars PROVE ConfigInv'
  OBVIOUS
<1>1. CASE LoadStep
  <2>1. ReadSoFar' /\ Widths' /\ (result' = "accepted" => AsAsked' /\ ReliedOn')
    BY <1>1, ReadStep, ValidateStep, NumbersFacts DEF ConfigInv, LoadStep, Configure
  <2>2. phase' = "loading" /\ pool' = pool
    BY <1>1 DEF LoadStep, mainVars
  <2>3. pool = "none" \/ result' = "accepted"
    BY <1>1 DEF ConfigInv, LoadStep, Configure, Read, Validate
  <2> QED
    BY <2>1, <2>2, <2>3 DEF ConfigInv
<1>2. CASE UNCHANGED configVars /\ (phase' \notin {"loading", "exited", "killed"} \/ pool' # "none"
                                        => result = "accepted")
  BY <1>2 DEF ConfigInv, configVars, ReadSoFar, Widths, Done, Given, AsAsked, ReliedOn
<1>3. CASE Load \/ Open \/ Serve \/ SelectError \/ SelectStop \/ Drained
  BY <1>2, <1>3 DEF ConfigInv, Load, Open, Serve, SelectError, SelectStop, Drained
<1>4. CASE ShutdownTimeout \/ ClosePool \/ PoolClosed \/ Signal \/ \E r \in Requests : CloseIdle(r)
  BY <1>2, <1>4 DEF ConfigInv, ShutdownTimeout, ClosePool, PoolClosed, Signal, CloseIdle, mainVars, Gone
<1>5. CASE Listen \/ ServeReturns \/ Exited \/ UNCHANGED vars
  BY <1>2, <1>5 DEF ConfigInv, Listen, ServeReturns, Exited, vars, mainVars
<1>6. ASSUME NEW r \in Requests, Handler(r) PROVE ConfigInv'
  BY <1>2, <1>6 DEF ConfigInv, Handler, Accept, ReadHeader, Activate, Refuse, CallStore, Acquire,
     PoolRefuses, Return, Respond, mainVars
<1> QED
  BY <1>1, <1>3, <1>4, <1>5, <1>6 DEF Next, Main

\* For any environment and any widths of integers: a process that came to its
\* pool runs with what it was asked for, variable by variable, although numbers
\* are narrowed on the way, and with what its components rely on (config.Load).
THEOREM StartsAsAsked == Spec => []OpenedAsAsked
<1>1. ConfigInv => OpenedAsAsked
  BY DEF ConfigInv, OpenedAsAsked
<1> QED
  BY <1>1, ConfigInitially, ConfigInductive, PTL DEF Spec
=============================================================================
