---------------------------- MODULE MigrationProofs ----------------------------
(***************************************************************************)
(* Proofs about Migration, for any jobs of any releases: migrations never  *)
(* meet each other's objects, objects and version agree, and jobs of Run   *)
(* only move forward.  The argument is ownership: everything a job does    *)
(* after it waited, and everything its session may still do when it is     *)
(* gone, happens while that session holds the advisory lock.               *)
(***************************************************************************)
EXTENDS Migration, TLAPS

Busy == {"reading", "migrating", "applied", "committing", "unlocking"}
Steps == Busy \cup {"start", "checking", "locking", "waiting", "closing", "done", "gone"}

TypeOK ==
    /\ version \in Nat \cup {NoTable}
    /\ holder \in Jobs \cup {NoJob}
    /\ session \in [Jobs -> {"none", "idle", "waiting", "committing"}]
    /\ pending \in [Jobs -> Nat \cup {Nothing}]
    /\ pc \in [Jobs -> Steps]
    /\ at \in [Jobs -> Nat]
    /\ outcome \in [Jobs -> {"none", "migrated", "failed", "conflict"}]

\* What the session of a job does is what the job has asked for.
SessionFits(j) ==
    /\ pc[j] \in {"start", "done"} => session[j] = "none"
    /\ pc[j] \in {"checking", "locking", "reading", "migrating", "applied", "unlocking", "closing"}
           => session[j] = "idle"
    /\ session[j] = "waiting" => pc[j] \in {"waiting", "gone"}
    /\ session[j] = "committing" => pc[j] \in {"committing", "gone"} /\ pending[j] # Nothing
    /\ pc[j] = "waiting" => session[j] \in {"waiting", "idle"}
    /\ pc[j] = "committing" => session[j] \in {"committing", "idle"}

\* The lock covers a job from its grant to Unlock, and nothing before or after.
LockFits(j) ==
    /\ pc[j] \in Busy => holder = j
    /\ pc[j] = "waiting" /\ session[j] = "idle" => holder = j
    /\ session[j] \in {"none", "waiting"} => holder # j
    /\ pc[j] \in {"start", "checking", "locking", "closing", "done"} => holder # j

\* A job that migrates knows the version, and what it may still commit is the
\* version that follows.
VersionFits(j) ==
    /\ pc[j] \in Busy => version \in Nat
    /\ pc[j] \in {"migrating", "applied", "committing"} =>
           at[j] \in 0..Files[j] /\ Target[j] \in 0..Files[j]
    /\ pc[j] \in {"migrating", "applied"} => at[j] = version
    /\ pc[j] = "applied" => pending[j] # Nothing
    /\ pc[j] = "committing" /\ session[j] = "idle" =>
           at[j] # Target[j] /\ pending[j] = Nothing /\ version = Following(j)
    /\ pending[j] # Nothing =>
           /\ holder = j
           /\ version \in Nat /\ at[j] = version /\ at[j] # Target[j] /\ pending[j] = Following(j)
           /\ at[j] \in 0..Files[j] /\ Target[j] \in 0..Files[j]
           /\ pc[j] \in {"applied", "gone"} \/ session[j] = "committing"

IInv ==
    /\ TypeOK /\ SchemaMatchesVersion /\ NoConflict
    /\ \A j \in Jobs : SessionFits(j) /\ LockFits(j) /\ VersionFits(j)

\* The version a migration leads to.
LEMMA FollowingRange ==
    ASSUME NEW j \in Jobs, TypeOK, at[j] # Target[j], NEW n \in Nat,
           at[j] \in 0..n, Target[j] \in 0..n
    PROVE  Following(j) \in 0..n /\ Following(j) # at[j]
BY MigrationAssumption DEF TypeOK, Following

LEMMA InitIInv == Init => IInv
BY MigrationAssumption DEF Init, IInv, TypeOK, SchemaMatchesVersion, NoConflict, SessionFits, LockFits,
   VersionFits, Steps, Busy, NoTable, Nothing

LEMMA ConnectStep == ASSUME IInv, NEW j \in Jobs, Connect(j) PROVE IInv'
<1> USE MigrationAssumption DEF IInv, Connect, Goto, Session, database
<1>1. TypeOK' /\ SchemaMatchesVersion' /\ NoConflict'
    BY DEF TypeOK, SchemaMatchesVersion, NoConflict, SessionFits, LockFits, VersionFits, Steps, Busy, NoTable, Nothing
<1>2. ASSUME NEW k \in Jobs PROVE SessionFits(k)' /\ LockFits(k)' /\ VersionFits(k)'
    BY DEF TypeOK, SessionFits, LockFits, VersionFits, Following, Steps, Busy, NoTable, Nothing
<1> QED
    BY <1>1, <1>2

LEMMA CheckServerStep == ASSUME IInv, NEW j \in Jobs, CheckServer(j) PROVE IInv'
<1> USE MigrationAssumption DEF IInv, CheckServer, Goto, Answer, database
<1>1. TypeOK'
    BY DEF TypeOK, Steps, Busy
<1>2. SchemaMatchesVersion' /\ NoConflict'
    BY DEF TypeOK, SchemaMatchesVersion, NoConflict
<1>3. ASSUME NEW k \in Jobs PROVE SessionFits(k)' /\ LockFits(k)' /\ VersionFits(k)'
    BY DEF TypeOK, SessionFits, LockFits, VersionFits, Following, Steps, Busy, NoTable, Nothing
<1> QED
    BY <1>1, <1>2, <1>3

LEMMA AskLockStep == ASSUME IInv, NEW j \in Jobs, AskLock(j) PROVE IInv'
<1> USE MigrationAssumption DEF IInv, AskLock, Goto, Session, database
<1>1. TypeOK' /\ SchemaMatchesVersion' /\ NoConflict'
    BY DEF TypeOK, SchemaMatchesVersion, NoConflict, SessionFits, LockFits, VersionFits, Steps, Busy, NoTable, Nothing
<1>2. ASSUME NEW k \in Jobs PROVE SessionFits(k)' /\ LockFits(k)' /\ VersionFits(k)'
    BY DEF TypeOK, SessionFits, LockFits, VersionFits, Following, Steps, Busy, NoTable, Nothing
<1> QED
    BY <1>1, <1>2

LEMMA NewMigratorStep == ASSUME IInv, NEW j \in Jobs, NewMigrator(j) PROVE IInv'
<1> USE MigrationAssumption DEF IInv, NewMigrator, Goto, database
<1>1. TypeOK' /\ SchemaMatchesVersion' /\ NoConflict'
    BY DEF TypeOK, SchemaMatchesVersion, NoConflict, SessionFits, LockFits, VersionFits, Steps, Busy, NoTable, Nothing
<1>2. ASSUME NEW k \in Jobs PROVE SessionFits(k)' /\ LockFits(k)' /\ VersionFits(k)'
    BY DEF TypeOK, SessionFits, LockFits, VersionFits, Following, Steps, Busy, NoTable, Nothing
<1> QED
    BY <1>1, <1>2

LEMMA ReadVersionStep == ASSUME IInv, NEW j \in Jobs, ReadVersion(j) PROVE IInv'
<1> USE MigrationAssumption DEF IInv, ReadVersion, Goto, Answer, database
<1>1. TypeOK'
  <2>1. version \in Nat
    BY DEF VersionFits, Busy
  <2> QED
    BY <2>1 DEF TypeOK, Steps, Busy
<1>2. SchemaMatchesVersion' /\ NoConflict'
    BY DEF TypeOK, SchemaMatchesVersion, NoConflict
<1>3. ASSUME NEW k \in Jobs PROVE SessionFits(k)' /\ LockFits(k)' /\ VersionFits(k)'
    BY DEF InRange, TypeOK, SessionFits, LockFits, VersionFits, Following, Steps, Busy, NoTable, Nothing
<1> QED
    BY <1>1, <1>2, <1>3

LEMMA ApplyStep == ASSUME IInv, NEW j \in Jobs, Apply(j) PROVE IInv'
<1> USE MigrationAssumption DEF IInv
<1>1. /\ pc[j] = "migrating" /\ at[j] # Target[j] /\ at[j] = version /\ schema = 1..version
      /\ version \in Nat /\ version \in 0..Files[j] /\ Target[j] \in 0..Files[j]
    BY DEF Apply, VersionFits, Busy, SchemaMatchesVersion
<1>2. Following(j) \in 0..Files[j]
    BY <1>1, FollowingRange
\* What is to be created is missing, and what is to be dropped is there.
<1>3. ~Conflict(j)
  <2>1. CASE at[j] < Target[j]
    BY <1>1, <2>1 DEF Conflict
  <2>2. CASE ~(at[j] < Target[j])
    <3>1. at[j] \in 1..version
      BY <1>1, <2>2
    <3> QED
      BY <1>1, <2>2, <3>1 DEF Conflict
  <2> QED
    BY <2>1, <2>2
<1>4. /\ pending' = [pending EXCEPT ![j] = Following(j)] /\ pc' = [pc EXCEPT ![j] = "applied"]
      /\ UNCHANGED <<version, schema, holder, session, at, outcome>>
    BY <1>3 DEF Apply, Goto
<1>5. TypeOK'
    BY <1>2, <1>4 DEF TypeOK, Steps, Busy
<1>6. SchemaMatchesVersion' /\ NoConflict'
    BY <1>4 DEF TypeOK, SchemaMatchesVersion, NoConflict
<1>7. ASSUME NEW k \in Jobs PROVE SessionFits(k)' /\ LockFits(k)' /\ VersionFits(k)'
    BY <1>1, <1>2, <1>4 DEF TypeOK, SessionFits, LockFits, VersionFits, Following, Steps, Busy, NoTable, Nothing
<1> QED
    BY <1>5, <1>6, <1>7

LEMMA SendCommitStep == ASSUME IInv, NEW j \in Jobs, SendCommit(j) PROVE IInv'
<1> USE MigrationAssumption DEF IInv, SendCommit, Goto, Session, database
<1>1. TypeOK' /\ SchemaMatchesVersion' /\ NoConflict'
    BY DEF TypeOK, SchemaMatchesVersion, NoConflict, SessionFits, LockFits, VersionFits, Steps, Busy, NoTable, Nothing
<1>2. ASSUME NEW k \in Jobs PROVE SessionFits(k)' /\ LockFits(k)' /\ VersionFits(k)'
    BY DEF TypeOK, SessionFits, LockFits, VersionFits, Following, Steps, Busy, NoTable, Nothing
<1> QED
    BY <1>1, <1>2

LEMMA CommittedStep == ASSUME IInv, NEW j \in Jobs, Committed(j) PROVE IInv'
<1> USE MigrationAssumption DEF IInv
<1>1. /\ version = Following(j) /\ version \in Nat /\ pending[j] = Nothing /\ session[j] = "idle"
      /\ at' = [at EXCEPT ![j] = version] /\ pc' = [pc EXCEPT ![j] = "migrating"] /\ holder = j
      /\ UNCHANGED <<version, schema, pending, holder, session, outcome>>
    BY DEF Committed, Goto, VersionFits, LockFits, Busy, database
<1>2. version \in 0..Files[j] /\ Target[j] \in 0..Files[j]
    BY <1>1, FollowingRange DEF Committed, VersionFits
<1>3. TypeOK'
    BY <1>1 DEF TypeOK, Steps, Busy
<1>4. SchemaMatchesVersion' /\ NoConflict'
    BY <1>1 DEF TypeOK, SchemaMatchesVersion, NoConflict
<1>5. ASSUME NEW k \in Jobs PROVE SessionFits(k)' /\ LockFits(k)' /\ VersionFits(k)'
    BY <1>1, <1>2 DEF TypeOK, SessionFits, LockFits, VersionFits, Following, Steps, Busy, NoTable, Nothing
<1> QED
    BY <1>3, <1>4, <1>5

LEMMA MigratedStep == ASSUME IInv, NEW j \in Jobs, Migrated(j) PROVE IInv'
<1> USE MigrationAssumption DEF IInv, Migrated, Answer, Goto, database
<1>1. TypeOK' /\ SchemaMatchesVersion' /\ NoConflict'
    BY DEF TypeOK, SchemaMatchesVersion, NoConflict, SessionFits, LockFits, VersionFits, Steps, Busy, NoTable, Nothing
<1>2. ASSUME NEW k \in Jobs PROVE SessionFits(k)' /\ LockFits(k)' /\ VersionFits(k)'
    BY DEF TypeOK, SessionFits, LockFits, VersionFits, Following, Steps, Busy, NoTable, Nothing
<1> QED
    BY <1>1, <1>2

LEMMA UnlockStep == ASSUME IInv, NEW j \in Jobs, Unlock(j) PROVE IInv'
<1> USE MigrationAssumption DEF IInv, Unlock, Goto, database
<1>1. TypeOK' /\ SchemaMatchesVersion' /\ NoConflict'
    BY DEF TypeOK, SchemaMatchesVersion, NoConflict, SessionFits, LockFits, VersionFits, Steps, Busy, NoTable, Nothing
<1>2. ASSUME NEW k \in Jobs PROVE SessionFits(k)' /\ LockFits(k)' /\ VersionFits(k)'
    BY DEF TypeOK, SessionFits, LockFits, VersionFits, Following, Steps, Busy, NoTable, Nothing
<1> QED
    BY <1>1, <1>2

LEMMA CloseStep == ASSUME IInv, NEW j \in Jobs, Close(j) PROVE IInv'
<1> USE MigrationAssumption DEF IInv, Close, Goto, Session, database
<1>1. TypeOK' /\ SchemaMatchesVersion' /\ NoConflict'
    BY DEF TypeOK, SchemaMatchesVersion, NoConflict, SessionFits, LockFits, VersionFits, Steps, Busy, NoTable, Nothing
<1>2. ASSUME NEW k \in Jobs PROVE SessionFits(k)' /\ LockFits(k)' /\ VersionFits(k)'
    BY DEF TypeOK, SessionFits, LockFits, VersionFits, Following, Steps, Busy, NoTable, Nothing
<1> QED
    BY <1>1, <1>2

LEMMA GrantStep == ASSUME IInv, NEW j \in Jobs, Grant(j) PROVE IInv'
<1> USE MigrationAssumption DEF IInv, Grant, Session, database
<1>1. TypeOK' /\ SchemaMatchesVersion' /\ NoConflict'
    BY DEF TypeOK, SchemaMatchesVersion, NoConflict, SessionFits, LockFits, VersionFits, Steps, Busy, NoTable, Nothing
<1>2. ASSUME NEW k \in Jobs PROVE SessionFits(k)' /\ LockFits(k)' /\ VersionFits(k)'
    BY DEF TypeOK, SessionFits, LockFits, VersionFits, Following, Steps, Busy, NoTable, Nothing
<1> QED
    BY <1>1, <1>2

LEMMA ServerCommitStep == ASSUME IInv, NEW j \in Jobs, ServerCommit(j) PROVE IInv'
<1> USE MigrationAssumption DEF IInv
<1>1. /\ session[j] = "committing" /\ holder = j
      /\ pending[j] = Following(j) /\ pending[j] # Nothing
      /\ version \in Nat /\ at[j] = version /\ at[j] # Target[j]
      /\ at[j] \in 0..Files[j] /\ Target[j] \in 0..Files[j]
    BY DEF ServerCommit, SessionFits, VersionFits
<1>2. Following(j) \in 0..Files[j] /\ Following(j) # at[j]
    BY <1>1, FollowingRange
<1>3. /\ version' = Following(j) /\ pending' = [pending EXCEPT ![j] = Nothing]
      /\ session' = [session EXCEPT ![j] = "idle"]
      /\ UNCHANGED <<holder, pc, at, outcome>>
    BY <1>1 DEF ServerCommit, Session
<1>4. TypeOK'
    BY <1>2, <1>3 DEF TypeOK, Nothing
<1>5. SchemaMatchesVersion'
  <2>1. schema' = IF Following(j) > version THEN schema \cup {Following(j)} ELSE schema \ {version}
    BY <1>1 DEF ServerCommit
  <2>2. schema = 1..version
    BY DEF SchemaMatchesVersion
  <2>3. CASE Following(j) = version + 1
    <3>1. schema' = 1..version \cup {version + 1}
      BY <1>1, <2>1, <2>2, <2>3
    <3>2. 1..version \cup {version + 1} = 1..(version + 1)
      BY <1>1
    <3> QED
      BY <1>3, <2>3, <3>1, <3>2 DEF SchemaMatchesVersion
  <2>4. CASE Following(j) = version - 1
    <3>1. schema' = 1..version \ {version}
      BY <1>1, <2>1, <2>2, <2>4
    <3>2. 1..version \ {version} = 1..(version - 1)
      BY <1>1
    <3> QED
      BY <1>3, <2>4, <3>1, <3>2 DEF SchemaMatchesVersion
  <2> QED
    BY <1>1, <2>3, <2>4 DEF Following
<1>6. NoConflict'
    BY <1>3 DEF NoConflict
<1>7. ASSUME NEW k \in Jobs PROVE SessionFits(k)' /\ LockFits(k)' /\ VersionFits(k)'
    BY <1>1, <1>2, <1>3 DEF TypeOK, SessionFits, LockFits, VersionFits, Following, Steps, Busy, NoTable, Nothing
<1> QED
    BY <1>4, <1>5, <1>6, <1>7

LEMMA GiveUpStep == ASSUME IInv, NEW j \in Jobs, GiveUp(j) PROVE IInv'
<1> USE MigrationAssumption DEF IInv, GiveUp, Answer, Goto, database
<1>1. TypeOK' /\ SchemaMatchesVersion' /\ NoConflict'
    BY DEF TypeOK, SchemaMatchesVersion, NoConflict, SessionFits, LockFits, VersionFits, Steps, Busy, NoTable, Nothing
<1>2. ASSUME NEW k \in Jobs PROVE SessionFits(k)' /\ LockFits(k)' /\ VersionFits(k)'
    BY DEF TypeOK, SessionFits, LockFits, VersionFits, Following, Steps, Busy, NoTable, Nothing
<1> QED
    BY <1>1, <1>2

LEMMA EndSessionStep == ASSUME IInv, NEW j \in Jobs, EndSession(j) PROVE IInv'
<1> USE MigrationAssumption DEF IInv, EndSession, Session, database
<1>1. TypeOK' /\ SchemaMatchesVersion' /\ NoConflict'
    BY DEF TypeOK, SchemaMatchesVersion, NoConflict, SessionFits, LockFits, VersionFits, Steps, Busy, NoTable, Nothing
<1>2. ASSUME NEW k \in Jobs PROVE SessionFits(k)' /\ LockFits(k)' /\ VersionFits(k)'
    BY DEF TypeOK, SessionFits, LockFits, VersionFits, Following, Steps, Busy, NoTable, Nothing
<1> QED
    BY <1>1, <1>2

\* An API reads the database and changes nothing of it.
LEMMA ApiStep == ASSUME IInv, NEW a \in Apis, Api(a) PROVE IInv'
<1>1. UNCHANGED <<database, holder, session, pc, at, outcome>>
    BY DEF Api, ApiCheckServer, FindTable, CheckVersion, Stop, Start
<1> QED
    BY <1>1 DEF IInv, TypeOK, SchemaMatchesVersion, NoConflict, SessionFits, LockFits, VersionFits, Following, database

LEMMA NextIInv == IInv /\ [Next]_vars => IInv'
<1> SUFFICES ASSUME IInv, [Next]_vars PROVE IInv'
    OBVIOUS
<1>1. ASSUME NEW j \in Jobs, Step(j) PROVE IInv'
    BY <1>1, ConnectStep, CheckServerStep, AskLockStep, NewMigratorStep, ReadVersionStep, ApplyStep,
       SendCommitStep, CommittedStep, MigratedStep, UnlockStep, CloseStep DEF Step
<1>2. ASSUME NEW j \in Jobs, Grant(j) \/ ServerCommit(j) \/ GiveUp(j) \/ EndSession(j) PROVE IInv'
    BY <1>2, GrantStep, ServerCommitStep, GiveUpStep, EndSessionStep
<1>3. CASE UNCHANGED vars
    BY <1>3 DEF vars, IInv, TypeOK, SchemaMatchesVersion, NoConflict, SessionFits, LockFits, VersionFits, Following
<1> QED
    BY <1>1, <1>2, <1>3, ApiStep DEF Next

LEMMA Invariant == Spec => []IInv
BY InitIInv, NextIInv, PTL DEF Spec

-----------------------------------------------------------------------------
\* Deployment jobs are serialized: no migration finds an object another job
\* created, or misses one it is to drop, for any jobs that die at any step.
THEOREM Serialized == Spec => []NoConflict
BY Invariant, PTL DEF IInv

\* The recorded version is what exists, in every state: a job that died left
\* the version of its last whole migration.
THEOREM Transactional == Spec => []SchemaMatchesVersion
BY Invariant, PTL DEF IInv

\* While no job of MigrateTo has begun, a step never lowers the version.
LEMMA ForwardStep ==
    ASSUME IInv, IInv', [Next]_vars, Production'
    PROVE  version <= version' /\ schema \subseteq schema'
<1> SUFFICES ASSUME version' # version PROVE version <= version'
    BY DEF IInv, TypeOK, SchemaMatchesVersion, NoTable
<1>1. ASSUME NEW j \in Jobs, ServerCommit(j) PROVE version <= version'
  <2>1. Target[j] = Files[j]
    BY <1>1 DEF Production, ServerCommit, IInv, SessionFits
  <2>2. /\ version' = Following(j) /\ version \in Nat /\ at[j] = version /\ at[j] # Target[j]
        /\ at[j] \in 0..Files[j] /\ Files[j] \in Nat
    BY <1>1, MigrationAssumption DEF ServerCommit, IInv, SessionFits, VersionFits
  <2> QED
    BY <2>1, <2>2 DEF Following
<1>2. ASSUME NEW j \in Jobs, NewMigrator(j) PROVE version <= version'
    BY <1>2 DEF NewMigrator, NoTable, IInv, TypeOK
<1>3. ASSUME NEW a \in Apis PROVE ~Api(a)
    BY DEF Api, ApiCheckServer, FindTable, CheckVersion, Stop, Start, database
<1>4. ASSUME NEW j \in Jobs, Step(j) PROVE NewMigrator(j)
    BY <1>4 DEF Step, Connect, CheckServer, AskLock, ReadVersion, Apply, SendCommit, Committed,
       Migrated, Unlock, Close, database
<1>5. ASSUME NEW j \in Jobs PROVE ~Grant(j) /\ ~GiveUp(j) /\ ~EndSession(j)
    BY DEF Grant, GiveUp, EndSession, database
<1> QED
    BY <1>1, <1>2, <1>3, <1>4, <1>5 DEF Next, vars

\* While no job of MigrateTo has begun, no step lowers the version or drops an
\* object: jobs of Run migrate to the last migration they embed.
THEOREM OnlyForward == Spec => ForwardOnly
<1>1. IInv /\ IInv' /\ [Next]_vars => [Production' => version <= version' /\ schema \subseteq schema']_vars
    BY ForwardStep
<1> QED
    BY <1>1, Invariant, PTL DEF Spec, ForwardOnly

-----------------------------------------------------------------------------
(* What a job answered, and what an API checked once, stays true: both are *)
(* lower bounds of the version, which only rises.                          *)

Reached ==
    Production =>
        /\ \A j \in Jobs : outcome[j] = "migrated" => Target[j] <= version
        /\ \A a \in Apis : api[a] = "serving" => Expected[a] <= version

\* Where no job of MigrateTo has begun, none had begun before.
LEMMA ProductionBefore ==
    ASSUME IInv, [Next]_vars, Production'
    PROVE  Production
<1> SUFFICES ASSUME NEW k \in Jobs, pc'[k] = "start" PROVE pc[k] = "start"
    BY DEF Production
<1> USE DEF IInv, TypeOK, Goto, Answer
<1>1. ASSUME NEW j \in Jobs, Step(j) PROVE pc[k] = "start"
    BY <1>1 DEF Step, Connect, CheckServer, AskLock, NewMigrator, ReadVersion, Apply, SendCommit,
       Committed, Migrated, Unlock, Close
<1>2. ASSUME NEW j \in Jobs, Grant(j) \/ ServerCommit(j) \/ GiveUp(j) \/ EndSession(j) PROVE pc[k] = "start"
    BY <1>2 DEF Grant, ServerCommit, GiveUp, EndSession
<1>3. ASSUME NEW a \in Apis, Api(a) PROVE pc[k] = "start"
    BY <1>3 DEF Api, ApiCheckServer, FindTable, CheckVersion, Stop, Start
<1> QED
    BY <1>1, <1>2, <1>3 DEF Next, vars

\* A job answers that it migrated when the version is its target.
LEMMA MigratedAt ==
    ASSUME IInv, IInv', [Next]_vars, NEW k \in Jobs, outcome'[k] = "migrated", outcome[k] # "migrated"
    PROVE  version = Target[k] /\ version' = version
<1> USE DEF IInv, TypeOK, Answer
<1>1. ASSUME NEW j \in Jobs, Step(j) PROVE j = k /\ Migrated(j)
    BY <1>1 DEF Step, Connect, CheckServer, AskLock, NewMigrator, ReadVersion, Apply, SendCommit,
       Committed, Migrated, Unlock, Close
<1>2. ASSUME NEW j \in Jobs PROVE ~Grant(j) /\ ~ServerCommit(j) /\ ~GiveUp(j) /\ ~EndSession(j)
    BY DEF Grant, ServerCommit, GiveUp, EndSession
<1>3. ASSUME NEW a \in Apis PROVE ~Api(a)
    BY DEF Api, ApiCheckServer, FindTable, CheckVersion, Stop, Start
<1>4. Migrated(k)
    BY <1>1, <1>2, <1>3 DEF Next, vars
<1> QED
    BY <1>4 DEF Migrated, VersionFits, database

\* An API starts to serve when the version is the one it expects.
LEMMA ServingAt ==
    ASSUME [Next]_vars, NEW a \in Apis, api'[a] = "serving", api[a] # "serving",
           api \in [Apis -> {"down", "inspecting", "reading", "serving", "refused"}]
    PROVE  version = Expected[a] /\ version' = version
<1>1. ASSUME NEW j \in Jobs PROVE ~Step(j)
    BY DEF Step, Connect, CheckServer, AskLock, NewMigrator, ReadVersion, Apply, SendCommit, Committed,
       Migrated, Unlock, Close
<1>2. ASSUME NEW j \in Jobs PROVE ~Grant(j) /\ ~ServerCommit(j) /\ ~GiveUp(j) /\ ~EndSession(j)
    BY DEF Grant, ServerCommit, GiveUp, EndSession
<1>3. PICK b \in Apis : Api(b)
    BY <1>1, <1>2 DEF Next, vars
<1>4. b = a /\ CheckVersion(a) /\ Accepted(a)
    BY <1>3 DEF Api, ApiCheckServer, FindTable, CheckVersion, Stop, Start
<1> QED
    BY <1>4 DEF Accepted, CheckVersion, Start, database

ApiType == api \in [Apis -> {"down", "inspecting", "reading", "serving", "refused"}]

LEMMA ApiTyped == ApiType /\ [Next]_vars => ApiType'
<1> SUFFICES ASSUME ApiType, [Next]_vars PROVE ApiType'
    OBVIOUS
<1>1. ASSUME NEW a \in Apis, Api(a) PROVE ApiType'
    BY <1>1 DEF ApiType, Api, ApiCheckServer, FindTable, CheckVersion, Stop, Start
<1>2. ASSUME NEW j \in Jobs, Step(j) \/ Grant(j) \/ ServerCommit(j) \/ GiveUp(j) \/ EndSession(j) PROVE api' = api
    BY <1>2 DEF Step, Connect, CheckServer, AskLock, NewMigrator, ReadVersion, Apply, SendCommit, Committed,
       Migrated, Unlock, Close, Grant, ServerCommit, GiveUp, EndSession
<1> QED
    BY <1>1, <1>2 DEF ApiType, Next, vars

LEMMA ReachedStep == IInv /\ IInv' /\ ApiType /\ Reached /\ [Next]_vars => Reached'
<1> SUFFICES ASSUME IInv, IInv', ApiType, Reached, [Next]_vars, Production' PROVE Reached'
    BY DEF Reached
<1>1. Production /\ version <= version' /\ version \in Int /\ version' \in Int
    BY ProductionBefore, ForwardStep DEF IInv, TypeOK, NoTable
<1>2. ASSUME NEW j \in Jobs, outcome'[j] = "migrated" PROVE Target[j] <= version'
    BY <1>1, <1>2, MigratedAt, MigrationAssumption DEF Reached
<1>3. ASSUME NEW a \in Apis, api'[a] = "serving" PROVE Expected[a] <= version'
    BY <1>1, <1>3, ServingAt, MigrationAssumption DEF Reached, ApiType
<1> QED
    BY <1>2, <1>3 DEF Reached

LEMMA ReachedAlways == Spec => []Reached
<1>1. Init => ApiType /\ Reached
    BY DEF Init, ApiType, Reached
<1> QED
    BY <1>1, ApiTyped, ReachedStep, Invariant, PTL DEF Spec

\* "Run /app/migrate and require success", for any releases that are deployed
\* in any order: once a job succeeded, the objects of its release are there,
\* whatever other jobs of Run do, in whatever order they get the lock.
THEOREM SuccessLasts == Spec => []SuccessMeansSchema
<1>1. IInv /\ Reached => SuccessMeansSchema
    BY MigrationAssumption DEF IInv, TypeOK, SchemaMatchesVersion, Reached, SuccessMeansSchema, NoTable
<1> QED
    BY <1>1, Invariant, ReachedAlways, PTL

\* The version is read once, at startup: what it promised an API is there as
\* long as the API serves, although jobs of newer releases go on.
THEOREM ServedLasts == Spec => []ServedSchemaStays
<1>1. IInv /\ Reached => ServedSchemaStays
    BY MigrationAssumption DEF IInv, TypeOK, SchemaMatchesVersion, Reached, ServedSchemaStays, NoTable
<1> QED
    BY <1>1, Invariant, ReachedAlways, PTL
=============================================================================
