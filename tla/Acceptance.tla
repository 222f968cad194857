------------------------------ MODULE Acceptance ------------------------------
(***************************************************************************)
(* The release gate of tools/millioncell/main.go: its nine steps against a *)
(* running API, the goroutine that reads during a replacement, and the     *)
(* replacement it aborts.  What a step submits and expects is translated;  *)
(* the API is one dataset, with replacements that are atomic unless the    *)
(* run gives it a fault the gate is there to find.                         *)
(***************************************************************************)
EXTENDS Cube

CONSTANTS Side,   \* -side
          Faults  \* of an API, "none" among them

\* With -side 1 the driver probes a second cell that does not exist.
ASSUME AcceptanceAssumption ==
    /\ Side \in Nat /\ Side >= 2
    /\ Faults \subseteq {"none",
                         "keep",      \* DELETE answers and deletes nothing
                         "merge",     \* a status that is not sent is kept
                         "truncate",  \* a dense response is cut
                         "order",     \* a query's category order is ignored
                         "tear"}      \* a replacement is visible half done

VARIABLES fault, dataset,
          flight,  \* the streamed replacement the API works on
          pos,     \* the driver's place in Script
          call,    \* its place in a step that is not one request
          before,  \* the dataset forcedRollback found
          late,    \* is its deadline over?
          err,     \* what do returned in atomicVisibility
          stop,    \* is the channel closed?
          reader, readErr,  \* the reading goroutine
          partial, \* did it see a partial dataset?
          exit, reason

vars == <<fault, dataset, flight, pos, call, before, late, err, stop, reader, readErr,
          partial, exit, reason>>
readerVars == <<reader, readErr, partial>>
stepVars == <<before, late, err, stop>>
exitVars == <<exit, reason>>

-----------------------------------------------------------------------------
(* Datasets, requests, and what the API does with them.                    *)

Cells == Side * Side * Side

\* Every body: three dimensions, and at each cell the cell's index.
Dimension(k, keys) ==
    [code |-> [key |-> k], categories |-> [i \in DOMAIN keys |-> [key |-> keys[i]]]]
InOrder == [i \in 1..Side |-> i - 1]
Structure == [k \in 1..3 |-> Dimension(k, InOrder)]
Body(generation, status) ==
    [generation |-> generation, status |-> status, values |-> [i \in 1..Cells |-> i - 1]]

Absent == [generation |-> "none", status |-> "none", values |-> <<>>]
Half == [dataset EXCEPT !.values = SubSeq(@, 1, Cells \div 2)]
Complete(d) == Len(d.values) = Cells

\* The query's dimensions c, b, a: one category, all reversed, all in order.
Subset == <<Dimension(3, <<0>>), Dimension(2, Reverse(InOrder)), Dimension(1, InOrder)>>

\* The steps, as requests in their order with the status each must have.
Script == <<[op |-> "delete", code |-> 204], [op |-> "create", code |-> 201],
            [op |-> "dense", code |-> 200], [op |-> "sparse", code |-> 200],
            [op |-> "query", code |-> 200], [op |-> "replace", code |-> 200],
            [op |-> "status", code |-> 200], [op |-> "atomic visibility", code |-> 200],
            [op |-> "forced rollback", code |-> 0],
            [op |-> "delete", code |-> 204], [op |-> "gone", code |-> 404]>>
Op == Script[pos].op

Code(op) ==
    CASE op = "delete" -> 204
      [] op = "create" -> IF dataset = Absent THEN 201 ELSE 409
      [] op \in {"replace", "atomic visibility"} -> IF dataset = Absent THEN 201 ELSE 200
      [] OTHER -> IF dataset = Absent THEN 404 ELSE 200

Replaced(content) ==
    IF fault = "merge" /\ content.status = "none"
    THEN [content EXCEPT !.status = dataset.status] ELSE content

Effect(op) ==
    CASE op = "delete" /\ fault # "keep" -> Absent
      [] op = "create" /\ dataset = Absent -> Replaced(Body("dense", "a"))
      [] op = "replace" -> Replaced(Body("sparse", "none"))
      [] OTHER -> dataset

Output(op) ==
    CASE op = "dense" /\ fault = "truncate" -> Front(dataset.values)
      [] op = "query" ->
            LET asked == IF fault = "order" THEN [Subset EXCEPT ![2] = Structure[2]] ELSE Subset
                indexes == SelectedIndexes(asked, Structure, Side * Side)
            IN  [n \in 1..(Side * Side) |-> dataset.values[indexes[n - 1] + 1]]
      [] OTHER -> dataset.values

-----------------------------------------------------------------------------
(* What the driver checks.                                                 *)

\* Mutant of Want: b is expected in the stored order.
WantStored(bOut, aOut) == aOut * Side * Side + bOut * Side

\* The stored value at (a, b, 0), for output coordinates with b reversed.
Want(bOut, aOut) == aOut * Side * Side + (Side - 1 - bOut) * Side

Accepts(op, output, status) ==
    CASE op \in {"create", "replace"} -> Len(output) = Cells
      [] op = "sparse" -> Len(output) = Cells /\ output[Cells] = Cells - 1
      [] op = "dense" ->
            /\ Len(output) = Cells /\ status = "a"
            /\ \A i \in {0, 1, Cells \div 2, Cells - 1} : output[i + 1] = i
      [] op = "query" ->
            /\ Len(output) = Side * Side
            /\ \A p \in {<<0, 0>>, <<0, Side - 1>>, <<Side - 1, 0>>, <<Side \div 2, Side \div 2>>} :
                  output[p[1] * Side + p[2] + 1] = Want(p[1], p[2])
      [] op = "status" -> status = "none"
      [] OTHER -> TRUE

Init ==
    /\ fault \in Faults /\ dataset \in {Absent, Body("older", "a")}
    /\ flight = [content |-> Absent, work |-> "none", whole |-> FALSE, open |-> FALSE,
                 saved |-> Absent]
    /\ pos = 1 /\ call = "idle"
    /\ before = Absent /\ late = FALSE /\ err = "none" /\ stop = FALSE
    /\ reader = "none" /\ readErr = "none" /\ partial = FALSE
    /\ exit = "running" /\ reason = "none"

Fail(why) == exit' = "failed" /\ reason' = why
Pass == pos' = pos + 1 /\ call' = "idle"
Running == exit = "running" /\ pos <= Len(Script)

-----------------------------------------------------------------------------
(* Steps of one request at a time.                                         *)

Simple == Running /\ Op \notin {"atomic visibility", "forced rollback"}

\* do: the status first, then the content; reads return what is there.
Do ==
    /\ Simple
    /\ dataset' = Effect(Op)
    /\ IF /\ Code(Op) = Script[pos].code
          /\ IF Op \in {"create", "replace"}
             THEN Accepts(Op, Effect(Op).values, Effect(Op).status)
             ELSE Accepts(Op, Output(Op), dataset.status)
       THEN Pass /\ UNCHANGED exitVars
       ELSE Fail("answer") /\ UNCHANGED <<pos, call>>
    /\ UNCHANGED <<fault, flight, stepVars, readerVars>>

\* No answer in time, or one that the API could not serve.
DoFails ==
    /\ Simple
    /\ Fail("unavailable")
    /\ UNCHANGED <<fault, dataset, flight, pos, call, stepVars, readerVars>>

WriteReport ==
    /\ exit = "running" /\ pos > Len(Script)
    /\ \/ exit' = "passed" /\ UNCHANGED reason
       \/ Fail("report")
    /\ UNCHANGED <<fault, dataset, flight, pos, call, stepVars, readerVars>>

-----------------------------------------------------------------------------
(* Streamed replacements, as the API sees them.                            *)

Launch(content) ==
    flight' = [content |-> content, work |-> "reading", whole |-> FALSE, open |-> TRUE,
               saved |-> Absent]

Receive ==
    /\ flight.work = "reading" /\ flight.whole
    /\ flight' = [flight EXCEPT !.work = "storing"]
    /\ UNCHANGED <<fault, dataset, pos, call, stepVars, readerVars, exitVars>>

Tear ==
    /\ fault = "tear" /\ flight.work = "storing" /\ dataset # Absent
    /\ flight' = [flight EXCEPT !.work = "torn", !.saved = dataset]
    /\ dataset' = Half
    /\ UNCHANGED <<fault, pos, call, stepVars, readerVars, exitVars>>

\* The transaction commits, also one whose client left a moment ago.
Commit ==
    /\ flight.work \in {"storing", "torn"}
    /\ flight' = [flight EXCEPT !.work = "committed"]
    /\ dataset' = Replaced(flight.content)
    /\ UNCHANGED <<fault, pos, call, stepVars, readerVars, exitVars>>

\* The API notices that the connection is closed, or a deadline passes.
RollBack ==
    /\ flight.work \in {"reading", "storing", "torn"} /\ ~flight.open
    /\ flight' = [flight EXCEPT !.work = "undone"]
    /\ dataset' = IF flight.work = "torn" THEN flight.saved ELSE dataset
    /\ UNCHANGED <<fault, pos, call, stepVars, readerVars, exitVars>>

Api == Receive \/ Tear \/ Commit \/ RollBack

-----------------------------------------------------------------------------
(* atomicVisibility: a replacement, and a goroutine that reads meanwhile.  *)

Concurrent == Running /\ Op = "atomic visibility"

Start ==
    /\ Concurrent /\ call = "idle"
    /\ reader' = "checking" /\ call' = "sent"
    /\ Launch(Body("dense", "a"))
    /\ UNCHANGED <<fault, dataset, pos, stepVars, readErr, partial, exitVars>>

\* The goroutine behind the pipe; only an abort stops halfway.
StreamBody ==
    /\ Running /\ flight.work = "reading" /\ flight.open /\ ~flight.whole
    /\ call \in {"sent", "cancelled"}
    /\ flight' = [flight EXCEPT !.whole = TRUE]
    /\ UNCHANGED <<fault, dataset, pos, call, stepVars, readerVars, exitVars>>

\* The only dataset there is was replaced: 200, and its counts.
Answered ==
    /\ Concurrent /\ call = "sent" /\ flight.work = "committed"
    /\ call' = "returned"
    /\ err' = IF Complete(flight.content) THEN "none" ELSE "answer"
    /\ UNCHANGED <<fault, dataset, flight, pos, before, late, stop, readerVars, exitVars>>

Unanswered ==
    /\ Concurrent /\ call = "sent"
    /\ call' = "returned" /\ err' = "unavailable" /\ flight' = [flight EXCEPT !.open = FALSE]
    /\ UNCHANGED <<fault, dataset, pos, before, late, stop, readerVars, exitVars>>

\* Mutant of CloseStop: the channel is closed by a deferred call.
LeaveOpen ==
    /\ Concurrent /\ call = "returned"
    /\ call' = "waiting"
    /\ UNCHANGED <<fault, dataset, flight, pos, stepVars, readerVars, exitVars>>

CloseStop ==
    /\ Concurrent /\ call = "returned"
    /\ stop' = TRUE /\ call' = "waiting"
    /\ UNCHANGED <<fault, dataset, flight, pos, before, late, err, readerVars, exitVars>>

Finish ==
    /\ IF err # "none" THEN Fail(err) /\ UNCHANGED <<pos, call>>
       ELSE IF readErr # "none" THEN Fail(readErr) /\ UNCHANGED <<pos, call>>
       ELSE Pass /\ UNCHANGED exitVars
    /\ UNCHANGED <<fault, dataset, flight, stepVars, readerVars>>

\* Mutant of Join: nobody waits for the reader.
DoNotJoin == Concurrent /\ call = "waiting" /\ Finish

\* group.Wait, and only then readErr.
Join == Concurrent /\ call = "waiting" /\ reader = "done" /\ Finish

ReaderChecks ==
    /\ Running /\ reader = "checking"
    /\ reader' = IF stop THEN "done" ELSE "reading"
    /\ UNCHANGED <<fault, dataset, flight, pos, call, stepVars, readErr, partial, exitVars>>

\* summarize, and the comparison of its counts.
ReaderReads ==
    /\ Running /\ reader = "reading"
    /\ \/ reader' = "done" /\ readErr' = "unavailable" /\ UNCHANGED partial
       \/ Complete(dataset) /\ reader' = "checking" /\ UNCHANGED <<readErr, partial>>
       \/ /\ ~Complete(dataset)
          /\ reader' = "done" /\ readErr' = "answer" /\ partial' = TRUE
    /\ UNCHANGED <<fault, dataset, flight, pos, call, stepVars, exitVars>>

Reader == ReaderChecks \/ ReaderReads

-----------------------------------------------------------------------------
(* forcedRollback: a replacement that is aborted in the middle of its body.*)

Rollback == Running /\ Op = "forced rollback"

Before ==
    /\ Rollback /\ call = "idle"
    /\ IF dataset = Absent
       THEN Fail("answer") /\ UNCHANGED <<call, before, flight>>
       ELSE /\ before' = dataset /\ call' = "sending" /\ Launch(Body("aborted", "none"))
            /\ UNCHANGED exitVars
    /\ UNCHANGED <<fault, dataset, pos, late, err, stop, readerVars>>

\* cancel, by the goroutine that writes; it goes on writing until it fails.
Cancel ==
    /\ Rollback /\ call = "sending"
    /\ call' = "cancelled"
    /\ UNCHANGED <<fault, dataset, flight, pos, stepVars, readerVars, exitVars>>

\* Any error will do: every error of the client is a net.Error.
DoErrs ==
    /\ Rollback /\ call \in {"sending", "cancelled"}
    /\ call' = "polling" /\ flight' = [flight EXCEPT !.open = FALSE]
    /\ UNCHANGED <<fault, dataset, pos, stepVars, readerVars, exitVars>>

\* The response is there before the client looks at its context.
DoReturns ==
    /\ Rollback /\ call \in {"sending", "cancelled"} /\ flight.work = "committed"
    /\ Fail("answer")
    /\ UNCHANGED <<fault, dataset, flight, pos, call, stepVars, readerVars>>

\* The state is back: the step has passed, with the first read that says so.
PollIntact ==
    /\ Rollback /\ call = "polling"
    /\ dataset.generation = before.generation /\ Len(dataset.values) = Len(before.values)
    /\ Pass
    /\ UNCHANGED <<fault, dataset, flight, stepVars, readerVars, exitVars>>

PollChanged ==
    /\ Rollback /\ call = "polling"
    /\ \/ dataset = Absent \/ dataset.generation = "aborted"
       \/ late /\ Len(dataset.values) # Len(before.values)
    /\ Fail("answer")
    /\ UNCHANGED <<fault, dataset, flight, pos, call, stepVars, readerVars>>

\* A summary that is not answered ends this step at either end.
PollFails ==
    /\ Rollback /\ call \in {"idle", "polling"}
    /\ Fail("unavailable")
    /\ UNCHANGED <<fault, dataset, flight, pos, call, stepVars, readerVars>>

\* Thirty seconds.
Deadline ==
    /\ Rollback /\ call = "polling" /\ ~late
    /\ late' = TRUE
    /\ UNCHANGED <<fault, dataset, flight, pos, call, before, err, stop, readerVars, exitVars>>

-----------------------------------------------------------------------------
Driver ==
    \/ Do \/ DoFails \/ WriteReport
    \/ Start \/ Answered \/ Unanswered \/ CloseStop \/ Join
    \/ Before \/ Cancel \/ DoErrs \/ DoReturns \/ PollIntact \/ PollChanged \/ PollFails \/ Deadline

Exited == exit # "running" /\ UNCHANGED vars

Next == Driver \/ Reader \/ StreamBody \/ Api \/ Exited

Spec == Init /\ [][Next]_vars

\* The driver's goroutines run, and its client has a timeout.  Nothing is
\* assumed of the API.
FairSpec == Spec /\ WF_vars(Driver) /\ WF_vars(Reader)

-----------------------------------------------------------------------------
\* A gate that passes has not seen a partial dataset, not even in the read that
\* was on its way when the replacement was answered; and no API passes that
\* loses deletions, keeps an old status, cuts responses or ignores an order.
TrustedReport == exit = "passed" => ~partial /\ fault \in {"none", "tear"}

\* A gate that fails over an answer has a cause: a fault, or an abort that came
\* too late.  It asks nothing else that the API does not promise.
FailsForCause ==
    exit = "failed" /\ reason = "answer" =>
        \/ fault # "none"
        \/ flight.work = "committed" /\ flight.content.generation = "aborted"

\* The gate ends, whatever the API answers or leaves unanswered.
DriverEnds == <>(exit # "running")

\* main.go:593: the API "must cancel its database work and leave the previous
\* state untouched"; the step gives it "a moment to notice" (main.go:650).  Once
\* the step has passed, the aborted replacement is not there.
PreviousStateKept == pos > 9 => dataset.generation # "aborted"
=============================================================================
