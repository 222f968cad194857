--------------------------------- MODULE Config ---------------------------------
(***************************************************************************)
(* config.Load of internal/config/config.go: the environment is read one   *)
(* variable after another, the first that is malformed ends the start, and *)
(* what was read is validated as a whole.  Integers keep their widths, as  *)
(* the constants Max32 and Max64.  Service starts with these steps.        *)
(***************************************************************************)
EXTENDS Integers, Sequences

CONSTANTS Environment, \* the environments: records of what each variable holds
          Unset, Malformed,
          Max32, Max64,  \* the largest int32 and int64
          MinTokenBytes, SchemaMaxCells, MaxPort,
          Fallback       \* the defaults, by variable

ASSUME ConfigAssumption ==
    /\ Max32 \in Nat /\ Max64 \in Nat /\ Max32 < Max64
    /\ SchemaMaxCells \in Nat /\ MaxPort \in Nat

VARIABLES env, todo, config, result

configVars == <<env, todo, config, result>>

\* A token is <<its name, its length in bytes>>.
Numbers == <<"PORT", "MAX_REQUEST_BYTES", "MAX_CELLS", "DB_MAX_CONNS",
             "REQUEST_TIMEOUT", "DB_TIMEOUT", "SHUTDOWN_TIMEOUT">>

\* A default is a value of its field's type, and that of DB_MAX_CONNS an int32.
ASSUME FallbackAssumption ==
    /\ \A i \in DOMAIN Numbers : Fallback[Numbers[i]] \in Int
    /\ Fallback.DB_MAX_CONNS \in -(Max32 + 1)..Max32

LoadInit ==
    /\ env \in Environment
    /\ todo = Numbers
    /\ config = [url |-> env.url, rw |-> env.rw, ro |-> env.ro] \* os.Getenv
    /\ result = "loading"

-----------------------------------------------------------------------------
\* int32(n)
Narrow(n) == ((n + Max32 + 1) % (2 * (Max32 + 1))) - (Max32 + 1)

\* strconv.Atoi, strconv.ParseInt and time.ParseDuration refuse what does not
\* fit 64 bits.
Readable(v) == v # Malformed /\ (v = Unset \/ v \in -(Max64 + 1)..Max64)

\* Mutant of InRange32: the conversion is left to itself.
AnyRange(v) == v = Unset \/ v \in Int

InRange32(v) == v = Unset \/ v \in 0..Max32

Given(name) == IF env[name] = Unset THEN Fallback[name] ELSE env[name]

\* envInt, envInt64, envDuration and envInt32, in the order of Load.
Read(name) ==
    /\ result = "loading" /\ todo # <<>> /\ Head(todo) = name
    /\ IF Readable(env[name]) /\ (name = "DB_MAX_CONNS" => InRange32(env[name]))
       THEN /\ config' = [n \in DOMAIN config \cup {name} |->
                            IF n # name THEN config[n]
                            ELSE IF name = "DB_MAX_CONNS" THEN Narrow(Given(name)) ELSE Given(name)]
            /\ todo' = Tail(todo) /\ UNCHANGED result
       ELSE result' = "refused" /\ UNCHANGED <<config, todo>>
    /\ UNCHANGED env

\* Mutant of TimeoutsNest: a database call may take as long as the request.
TimeoutsMeet == config.DB_TIMEOUT > 0 /\ config.DB_TIMEOUT <= config.REQUEST_TIMEOUT

TimeoutsNest == config.DB_TIMEOUT > 0 /\ config.DB_TIMEOUT < config.REQUEST_TIMEOUT

Valid ==
    /\ config.url # "" /\ config.rw[2] >= MinTokenBytes /\ config.ro[2] >= MinTokenBytes
    /\ config.rw # config.ro
    /\ config.PORT \in 1..MaxPort /\ config.MAX_REQUEST_BYTES >= 1
    /\ config.MAX_CELLS \in 1..SchemaMaxCells /\ config.DB_MAX_CONNS >= 1
    /\ config.REQUEST_TIMEOUT > 0 /\ TimeoutsNest /\ config.SHUTDOWN_TIMEOUT > 0

Validate ==
    /\ result = "loading" /\ todo = <<>>
    /\ result' = IF Valid THEN "accepted" ELSE "refused"
    /\ UNCHANGED <<env, todo, config>>

Configure == (\E i \in DOMAIN Numbers : Read(Numbers[i])) \/ Validate

-----------------------------------------------------------------------------
\* The limit of the reader of readBody, MAX_REQUEST_BYTES + 1 in 64 bits, and
\* how much of a body of n bytes it lets through.
ReaderLimit ==
    LET n == config.MAX_REQUEST_BYTES IN IF n = Max64 THEN -(Max64 + 1) ELSE n + 1
BytesRead(n) == IF ReaderLimit <= 0 THEN 0 ELSE IF n < ReaderLimit THEN n ELSE ReaderLimit

\* What the environment asks for, in each variable, or a default where it says
\* nothing.
AsAsked == \A i \in DOMAIN Numbers : config[Numbers[i]] = Given(Numbers[i])

\* What the other components rely on: cubes fit the schema, the pool has a
\* connection, a store call that takes too long ends while its request may
\* still be answered, and the tokens tell who may write.
ReliedOn ==
    /\ config.MAX_CELLS \in 1..SchemaMaxCells /\ config.DB_MAX_CONNS \in 1..Max32
    /\ config.DB_TIMEOUT \in 1..(config.REQUEST_TIMEOUT - 1)
    /\ config.rw # config.ro

\* "Request body exceeds configured limit" is the only reason not to read a
\* body: one within an accepted limit is read whole.
BodiesWithinLimitAreRead ==
    result = "accepted" => \A n \in 1..config.MAX_REQUEST_BYTES : BytesRead(n) = n
=============================================================================
