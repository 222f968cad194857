------------------------------- MODULE Migration -------------------------------
(***************************************************************************)
(* internal/migrations: deployment jobs that migrate one database under a  *)
(* session advisory lock, and the version check an API runs at startup.    *)
(* Jobs belong to releases: a release embeds the migrations 1..Files.  A   *)
(* job may give up (its ten minutes are over) or die at any step; what its *)
(* session still does at the server is the server's choice.                *)
(*                                                                         *)
(* The migrator of tern is external.  Its own advisory lock is left out:   *)
(* the lock of Run is what is shown to be enough.                          *)
(***************************************************************************)
EXTENDS Integers, FiniteSets

CONSTANTS Jobs, Apis, NoJob,
          Files,    \* by job: the embedded migrations of its release
          Target,   \* by job: Files of it (Run), or an explicit version (MigrateTo)
          Expected  \* by API: ExpectedVersion of its release

NoTable == -1  \* the version table is missing
Nothing == -1  \* no migration is applied and uncommitted

ASSUME MigrationAssumption ==
    /\ NoJob \notin Jobs
    /\ Files \in [Jobs -> Nat] /\ Target \in [Jobs -> Nat] /\ Expected \in [Apis -> Nat]

VARIABLES supported, \* is the server PostgreSQL 18 with UTF-8?
          version, \* committed row of public.schema_version, or NoTable
          schema,  \* migrations whose objects exist, committed
          holder,  \* the job whose session holds the advisory lock
          session, \* by job: what its session does at the server
          pending, \* by job: version an open transaction will set, or Nothing
          pc, at,  \* by job: its step and currentVersion of MigrateTo
          outcome, \* by job: what Run answers
          api      \* by API: its step

database == <<supported, version, schema, pending>>
vars == <<supported, version, schema, holder, session, pending, pc, at, outcome, api>>

Init ==
    /\ supported \in BOOLEAN
    /\ version = NoTable /\ schema = {} /\ holder = NoJob
    /\ session = [j \in Jobs |-> "none"]
    /\ pending = [j \in Jobs |-> Nothing]
    /\ pc = [j \in Jobs |-> "start"]
    /\ at = [j \in Jobs |-> 0]
    /\ outcome = [j \in Jobs |-> "none"]
    /\ api = [a \in Apis |-> "down"]

Goto(j, step) == pc' = [pc EXCEPT ![j] = step]
Session(j, state) == session' = [session EXCEPT ![j] = state]

\* Run answers; what is deferred is still to be done.
Answer(j, result, step) == outcome' = [outcome EXCEPT ![j] = result] /\ Goto(j, step)

-----------------------------------------------------------------------------
(* Run and MigrateTo.                                                      *)

Connect(j) ==
    /\ pc[j] = "start"
    /\ Session(j, "idle") /\ Goto(j, "checking")
    /\ UNCHANGED <<database, holder, at, outcome, api>>

CheckServer(j) ==
    /\ pc[j] = "checking"
    /\ IF supported THEN Goto(j, "locking") /\ UNCHANGED outcome
                    ELSE Answer(j, "failed", "closing")
    /\ UNCHANGED <<database, holder, session, at, api>>

AskLock(j) ==
    /\ pc[j] = "locking"
    /\ Session(j, "waiting") /\ Goto(j, "waiting")
    /\ UNCHANGED <<database, holder, at, outcome, api>>

\* Mutant of Grant: a lock that ends with its statement (pg_advisory_xact_lock).
GrantStatement(j) ==
    /\ session[j] = "waiting" /\ holder = NoJob
    /\ Session(j, "idle")
    /\ UNCHANGED <<database, holder, pc, at, outcome, api>>

\* The server grants a lock whether or not somebody waits for the answer.
Grant(j) ==
    /\ session[j] = "waiting" /\ holder = NoJob
    /\ holder' = j /\ Session(j, "idle")
    /\ UNCHANGED <<database, pc, at, outcome, api>>

\* migrate.NewMigrator creates the version table, with version 0.
NewMigrator(j) ==
    /\ pc[j] = "waiting" /\ session[j] = "idle"
    /\ version' = IF version = NoTable THEN 0 ELSE version
    /\ Goto(j, "reading")
    /\ UNCHANGED <<supported, schema, pending, holder, session, at, outcome, api>>

\* Mutant of InRange: a newer database is migrated to what this release knows.
AnyVersion(j) == Target[j] \in 0..Files[j]

InRange(j) == version \in 0..Files[j] /\ Target[j] \in 0..Files[j]

\* The migrator reads the version once; releases older than the database fail.
ReadVersion(j) ==
    /\ pc[j] = "reading"
    /\ at' = [at EXCEPT ![j] = version]
    /\ IF InRange(j) THEN Goto(j, "migrating") /\ UNCHANGED outcome
                     ELSE Answer(j, "failed", "unlocking")
    /\ UNCHANGED <<database, holder, session, api>>

\* The version after the next migration, and the migration it runs: up or down.
Following(j) == IF at[j] < Target[j] THEN at[j] + 1 ELSE at[j] - 1
Conflict(j) ==
    IF at[j] < Target[j] THEN at[j] + 1 \in schema ELSE at[j] \notin schema

\* A migration's statements, in a transaction.  Objects another transaction is
\* about to create make it wait; objects that exist make it fail.
Apply(j) ==
    /\ pc[j] = "migrating" /\ at[j] # Target[j]
    /\ \A k \in Jobs : pending[k] # Following(j)
    /\ IF Conflict(j)
       THEN Answer(j, "conflict", "unlocking") /\ UNCHANGED pending
       ELSE pending' = [pending EXCEPT ![j] = Following(j)] /\ Goto(j, "applied") /\ UNCHANGED outcome
    /\ UNCHANGED <<supported, version, schema, holder, session, at, api>>

SendCommit(j) ==
    /\ pc[j] = "applied"
    /\ Session(j, "committing") /\ Goto(j, "committing")
    /\ UNCHANGED <<database, holder, at, outcome, api>>

\* Mutant of ServerCommit: the version is not written in the migration's transaction.
CommitObjects(j) ==
    /\ session[j] = "committing"
    /\ schema' = schema \cup {pending[j]}
    /\ pending' = [pending EXCEPT ![j] = Nothing]
    /\ Session(j, "idle")
    /\ UNCHANGED <<supported, version, holder, pc, at, outcome, api>>

\* Objects and version are committed together.
ServerCommit(j) ==
    /\ session[j] = "committing"
    /\ version' = pending[j]
    /\ schema' = IF pending[j] > at[j] THEN schema \cup {pending[j]} ELSE schema \ {at[j]}
    /\ pending' = [pending EXCEPT ![j] = Nothing]
    /\ Session(j, "idle")
    /\ UNCHANGED <<supported, holder, pc, at, outcome, api>>

Committed(j) ==
    /\ pc[j] = "committing" /\ session[j] = "idle"
    /\ at' = [at EXCEPT ![j] = Following(j)]
    /\ Goto(j, "migrating")
    /\ UNCHANGED <<database, holder, session, outcome, api>>

Migrated(j) ==
    /\ pc[j] = "migrating" /\ at[j] = Target[j]
    /\ Answer(j, "migrated", "unlocking")
    /\ UNCHANGED <<database, holder, session, at, api>>

\* The deferred functions: an open transaction is rolled back, the lock is
\* released, the connection is closed.
Unlock(j) ==
    /\ pc[j] = "unlocking"
    /\ holder' = IF holder = j THEN NoJob ELSE holder
    /\ pending' = [pending EXCEPT ![j] = Nothing]
    /\ Goto(j, "closing")
    /\ UNCHANGED <<supported, version, schema, session, at, outcome, api>>

Close(j) ==
    /\ pc[j] = "closing"
    /\ Session(j, "none") /\ Goto(j, "done")
    /\ UNCHANGED <<database, holder, at, outcome, api>>

-----------------------------------------------------------------------------
(* Jobs that give up or die, and the server.                               *)

GiveUp(j) ==
    /\ pc[j] \notin {"done", "gone"}
    /\ Answer(j, "failed", "gone")
    /\ UNCHANGED <<database, holder, session, at, api>>

\* Mutant of EndSession: what is waited for is not forgotten, what is held is kept.
EndWaiting(j) ==
    /\ pc[j] = "gone" /\ session[j] # "none"
    /\ Session(j, "none")
    /\ pending' = [pending EXCEPT ![j] = Nothing]
    /\ UNCHANGED <<supported, version, schema, holder, pc, at, outcome, api>>

\* The server finds the client gone, between statements or during one.
EndSession(j) ==
    /\ pc[j] = "gone" /\ session[j] # "none"
    /\ Session(j, "none")
    /\ pending' = [pending EXCEPT ![j] = Nothing]
    /\ holder' = IF holder = j THEN NoJob ELSE holder
    /\ UNCHANGED <<supported, version, schema, pc, at, outcome, api>>

-----------------------------------------------------------------------------
(* store.Open: CheckServer and CheckVersion of an API that starts.         *)

Start(a, step) == api' = [api EXCEPT ![a] = step] /\ UNCHANGED <<database, holder, session, pc, at, outcome>>

ApiCheckServer(a) == api[a] = "down" /\ Start(a, IF supported THEN "inspecting" ELSE "refused")

FindTable(a) ==
    api[a] = "inspecting" /\ Start(a, IF version = NoTable THEN "refused" ELSE "reading")

\* Mutant of Accepted: a schema that is older is good enough.
AcceptedUpTo(a) == version <= Expected[a]

Accepted(a) == version = Expected[a]

CheckVersion(a) == api[a] = "reading" /\ Start(a, IF Accepted(a) THEN "serving" ELSE "refused")

Stop(a) == api[a] \in {"serving", "refused"} /\ Start(a, "down")

-----------------------------------------------------------------------------
Step(j) ==
    \/ Connect(j) \/ CheckServer(j) \/ AskLock(j) \/ NewMigrator(j) \/ ReadVersion(j)
    \/ Apply(j) \/ SendCommit(j) \/ Committed(j) \/ Migrated(j) \/ Unlock(j) \/ Close(j)

Api(a) == ApiCheckServer(a) \/ FindTable(a) \/ CheckVersion(a) \/ Stop(a)

Next ==
    \/ \E j \in Jobs : Step(j) \/ Grant(j) \/ ServerCommit(j) \/ GiveUp(j) \/ EndSession(j)
    \/ \E a \in Apis : Api(a)

Spec == Init /\ [][Next]_vars

\* Jobs run, and the server answers statements and notices that a client of
\* an idle session is gone; nobody has to give up.
FairSpec ==
    /\ Spec
    /\ \A j \in Jobs :
        /\ WF_vars(Step(j)) /\ WF_vars(Grant(j)) /\ WF_vars(ServerCommit(j))
        /\ WF_vars(session[j] = "idle" /\ EndSession(j))

-----------------------------------------------------------------------------
\* "A concurrent deployment job waits rather than racing the migrator": no
\* migration meets objects of another job, or misses objects it is to drop,
\* whoever gave up with what under way.
NoConflict == \A j \in Jobs : outcome[j] # "conflict"

\* "Migrations are transactional": the recorded version is what exists, also
\* after a job died between a migration and its version.
SchemaMatchesVersion == schema = 1..version

\* MigrateTo, for the tests, is excluded from production: no job of it has begun.
Production == \A j \in Jobs : Target[j] = Files[j] \/ pc[j] = "start"

\* "Run /app/migrate and require success", then roll out: once a job succeeded,
\* the objects of its release exist, whatever other jobs do later.
SuccessMeansSchema ==
    Production => \A j \in Jobs : outcome[j] = "migrated" => 1..Target[j] \subseteq schema

\* The version is checked once; what an API found then is there as long as it
\* serves.
ServedSchemaStays ==
    Production => \A a \in Apis : api[a] = "serving" => 1..Expected[a] \subseteq schema

\* "Migrations are forward-only in production": no step lowers the version or
\* drops objects.
ForwardOnly == [][Production' => version <= version' /\ schema \subseteq schema']_vars

\* A job ends, and the lock with it, although jobs before it died holding the
\* lock or waiting for it.
JobsEnd == <>[](holder = NoJob /\ \A j \in Jobs : pc[j] \in {"done", "gone"})
=============================================================================
