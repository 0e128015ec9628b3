------------------------------ MODULE DrnedRun ------------------------------
(***************************************************************************)
(* One run of DrNED's pytest as the transition operations start it:        *)
(* test_template_raw, test_template_single or test_template_set            *)
(* (drned/common/test_template.py) with the fixtures of                    *)
(* drned/drned/fixtures.py and the commands of drned/drned/device.py.      *)
(*                                                                         *)
(* The device and NSO decide how each command ends.  The run is modelled   *)
(* by the lines of its output that the filter in XMNR knows (see           *)
(* EventFilter), by the exceptions that go through the Python code, and by *)
(* the exit status.  XMNR may send SIGINT (KeyboardInterrupt) or kill it.  *)
(***************************************************************************)
EXTENDS Sequences, Integers, FiniteSets

CONSTANTS
  States,      (* names of device states                                    *)
  NoState,     (* None                                                      *)
  PlainFiles   (* states in a file without ".state" in its name             *)

VARIABLES
  job,            \* what is tested: see Job
  rpc,            \* where the run is
  sets,           \* tsets still to be tested; the first is being tested
  ops,            \* the operations on it, or on the single file, still to do
  failed_states,  \* Device.failed_states, a state set named by its first state
  raised,         \* an exception is on its way to pytest
  out,            \* lines of output not read yet
  exit,           \* exit status: "none" while the run goes on, "ok", "failed"
  tested          \* history: the loads, what failed after each and how

vars == <<job, rpc, sets, ops, failed_states, raised, out, exit, tested>>

\* queue: use_commit_queues; rollback: the end operations are the default ones
\* (for the set); from: where a single transition starts (a note for tested).
Job == [test : {"none", "raw", "single", "set"}, queue : BOOLEAN,
        rollback : BOOLEAN, from : States \cup {NoState}]

NoJob == [test |-> "none", queue |-> FALSE, rollback |-> FALSE,
          from |-> NoState]

Op  == [op : {"load", "commit", "compare_config", "rollback"},
        state : States \cup {NoState}]
RunPC == {"idle", "prepare", "set", "op", "restore_set", "restore"}
Failures == {"none", "load", "commit", "compare_config", "rollback"}

\* failure: the first operation that failed after the load, "rollback" for any
\* once a rollback has begun; told: the output lets the filter see it;
\* blurred: restoring the device after it did not go smoothly; astray: a dry
\* run was aborted, or a restore compared the configuration twice.
Tested == [test : {"raw", "single", "set"}, from : States \cup {NoState},
           to : States, failure : Failures, told : BOOLEAN,
           rolling : BOOLEAN, blurred : BOOLEAN, astray : BOOLEAN]

TypeOK ==
  /\ job \in Job
  /\ rpc \in RunPC
  /\ sets \in Seq(Seq(States))
  /\ ops \in Seq(Op)
  /\ failed_states \in Seq(States)
  /\ raised \in BOOLEAN
  /\ \A i \in DOMAIN out : DOMAIN out[i] = {"type", "state"}
  /\ exit \in {"none", "ok", "failed"}
  /\ tested \in Seq(Tested)

Init ==
  /\ job = NoJob
  /\ rpc = "idle"
  /\ sets = <<>>
  /\ ops = <<>>
  /\ failed_states = <<>>
  /\ raised = FALSE
  /\ out = <<>>
  /\ exit = "none"
  /\ tested = <<>>

----------------------------------------------------------------------------
(* Lines and operations                                                    *)

Line(t) == [type |-> t, state |-> NoState]
Lines(ts) == [i \in DOMAIN ts |-> Line(ts[i])]
Do(o) == [op |-> o, state |-> NoState]

Attempt(s)  == <<[op |-> "load", state |-> s], Do("commit"),
                 Do("compare_config")>>
Rollback    == <<Do("rollback"), Do("commit"), Do("compare_config")>>

\* The default end operations: roll back to the start of the set, to its end,
\* and then all commits, one by one.
SetOps(tset, rollback) ==
  LET turn(k)  == ((k - 1) \div 3) + 1
      place(k) == ((k - 1) % 3) + 1
      turns    == Len(tset) + (IF rollback THEN Len(tset) + 2 ELSE 0)
  IN [k \in 1..(3 * turns) |->
        IF turn(k) <= Len(tset) THEN Attempt(tset[turn(k)])[place(k)]
        ELSE Rollback[place(k)]]

----------------------------------------------------------------------------
(* The start of a run, and of a state set                                  *)

\* pytest is started, for the state sets of `walk', or for one state.
Start(j, walk) ==
  /\ rpc = "idle"
  /\ job' = j
  /\ rpc' = "prepare"
  /\ sets' = walk
  /\ ops' = <<>>
  /\ failed_states' = <<>>
  /\ raised' = FALSE
  /\ exit' = "none"
  /\ UNCHANGED <<out, tested>>

End(status) == exit' = status /\ rpc' = "idle"

\* The Device is made: its initial configuration is committed, and saved.  A walk
\* without any set fails: "Please specify a file with the --fname option".
Prepare ==
  /\ rpc = "prepare"
  /\ \/ /\ out' = out \o Lines(<<"noqueue", "empty">>)
        /\ IF job.test = "set"
           THEN /\ rpc' = IF sets = <<>> THEN "restore" ELSE "set"
                /\ raised' = (sets = <<>>)
                /\ UNCHANGED ops
           ELSE /\ rpc' = "op"
                /\ ops' = Attempt(Head(Head(sets))) \o
                            (IF job.test = "single" THEN Rollback ELSE <<>>)
                /\ UNCHANGED raised
        /\ UNCHANGED exit
     \/ /\ out' \in {out, out \o Lines(<<"noqueue", "empty">>),
                     out \o Lines(<<"noqueue", "reason">>)}
        /\ End("failed")
        /\ UNCHANGED <<ops, raised>>
  /\ UNCHANGED <<job, sets, failed_states, tested>>

\* The filter does not know the "py.test" line of another kind of file.
BeginSet ==
  /\ rpc = "set"
  /\ sets # <<>>
  /\ out' = IF Head(Head(sets)) \in PlainFiles THEN out
            ELSE Append(out, Line("py_test"))
  /\ ops' = SetOps(Head(sets), job.rollback)
  /\ rpc' = "op"
  /\ UNCHANGED <<job, sets, failed_states, raised, exit, tested>>

\* All sets are done.  With the default end operations the configuration is
\* compared to the one before the test.
EndSets ==
  /\ rpc = "set"
  /\ sets = <<>>
  /\ raised' \in {FALSE, job.rollback}
  /\ rpc' = "restore"
  /\ UNCHANGED <<job, sets, ops, failed_states, out, exit, tested>>

----------------------------------------------------------------------------
(* The operations on a file: _drned_single_file                            *)

Op1 == Head(ops)

\* The operation is done; the next one, the next set, or the end.
Proceed ==
  /\ ops' = Tail(ops)
  /\ IF Tail(ops) # <<>>
     THEN UNCHANGED <<rpc, sets, raised, exit>>
     ELSE CASE job.test = "set"    -> /\ rpc' = "set"
                                      /\ sets' = Tail(sets)
                                      /\ UNCHANGED <<raised, exit>>
            [] job.test = "single" -> /\ rpc' = "restore"
                                      /\ raised' \in BOOLEAN \* filecmp()
                                      /\ UNCHANGED <<sets, exit>>
            [] job.test = "raw"    -> End("ok") /\ UNCHANGED <<sets, raised>>
  /\ UNCHANGED failed_states

\* An exception leaves the test: to the fixture, or to pytest.
Leave ==
  /\ ops' = <<>>
  /\ raised' = TRUE
  /\ IF job.test = "raw" THEN End("failed") ELSE rpc' = "restore" /\ UNCHANGED exit
  /\ UNCHANGED <<sets, failed_states>>

\* pytest.fail() in an operation.  _drned_single_set() records the set, and
\* goes on unless it is the last; finding the name of the state in another
\* kind of file name fails, too.
Fail ==
  IF job.test # "set" \/ Head(Head(sets)) \in PlainFiles THEN Leave
  ELSE /\ failed_states' = Append(failed_states, Head(Head(sets)))
       /\ ops' = <<>>
       /\ sets' = sets
       /\ exit' = exit
       /\ raised' = (Len(sets) = 1)
       /\ rpc' = IF Len(sets) = 1 THEN "restore" ELSE "restore_set"

\* A dry run is aborted, or there is a second comparison.
Astray(lines) ==
  \/ \E i \in 1..(Len(lines) - 1) : lines[i] = "commit" /\ lines[i+1] = "reason"
  \/ Cardinality({i \in DOMAIN lines : lines[i] = "compare_config"}) > 1

\* The operation prints `lines', fails or not; `told': its failure can be seen.
Outcome(lines, fails, told) ==
  LET n     == Len(tested)
      first == tested[n].failure = "none" /\ fails
      seen  == [tested EXCEPT ![n].astray = @ \/ Astray(lines)]
  IN /\ out' = out \o Lines(lines)
     /\ tested' = IF ~first THEN seen
                  ELSE [seen EXCEPT
                          ![n].failure = IF tested[n].rolling THEN "rollback"
                                         ELSE Op1.op,
                          ![n].told = told]
     /\ UNCHANGED job

\* A state that is being loaded, as `tested' has it.
Loaded(failure) ==
  [test |-> job.test, from |-> job.from, to |-> Op1.state, failure |-> failure,
   told |-> FALSE, rolling |-> FALSE, blurred |-> FALSE, astray |-> FALSE]

Load ==
  /\ rpc = "op" /\ Op1.op = "load"
  /\ out' = Append(out, [type |-> "load", state |-> Op1.state])
  /\ \E failure \in {"none", "load"} :
       /\ IF failure = "none" THEN Proceed ELSE Fail
       /\ tested' = Append(tested, Loaded(failure))
  /\ UNCHANGED job

\* commit(): the banner, the dry run, and the command.  A queue item may fail
\* with and without DrNED finding that the output looks bad.
CommitCommand == IF job.queue THEN "queue" ELSE "noqueue"

CommitSucceeds ==
  /\ rpc = "op" /\ Op1.op = "commit"
  /\ \E lines \in {<<"commit", "empty", CommitCommand, "empty">>,
                   <<"commit", CommitCommand>> \o
                     (IF job.queue THEN <<"completed">> ELSE <<>>)
                     \o <<"complete">>} :
       Outcome(lines, FALSE, FALSE)
  /\ Proceed

\* The reason is printed in a form that the filter knows, or in another one.
QueueItemFails ==
  /\ rpc = "op" /\ Op1.op = "commit"
  /\ job.queue
  /\ \E told \in BOOLEAN :
       Outcome(<<"commit", "queue", "failed">> \o
                 (IF told THEN <<"reason">> ELSE <<>>) \o <<"complete">>,
               TRUE, told)
  /\ Proceed \/ Fail

\* The commit is refused: the dry run is, or the commit itself, with
\* "Aborted: .." or in other words.  The filter sees what follows "commit".
CommitAborted ==
  /\ rpc = "op" /\ Op1.op = "commit"
  /\ \/ \E lines \in {<<"commit">>, <<"commit", "reason">>,
                      <<"commit", CommitCommand>>} :
          Outcome(lines, TRUE, FALSE)
     \/ Outcome(<<"commit", CommitCommand, "reason">>, TRUE, ~job.queue)
  /\ Fail

Compare ==
  /\ rpc = "op" /\ Op1.op = "compare_config"
  /\ \/ Outcome(<<"compare_config">>, FALSE, FALSE) /\ Proceed
     \/ Outcome(<<"compare_config", "diff">>, TRUE, TRUE) /\ Fail
     \/ Outcome(<<"compare_config">>, TRUE, FALSE) /\ Fail

RollBack ==
  /\ rpc = "op" /\ Op1.op = "rollback"
  /\ \E fails \in BOOLEAN :
       /\ out' = Append(out, Line("rollback"))
       /\ LET n == Len(tested)
          IN tested' = [tested EXCEPT
               ![n].rolling = TRUE,
               ![n].failure = IF fails /\ @ = "none" THEN "rollback" ELSE @]
       /\ IF fails THEN Fail ELSE Proceed
  /\ UNCHANGED job

\* SIGINT in the middle of an operation: "do not intercept CTRL-C".
Interrupted ==
  /\ rpc = "op"
  /\ \/ UNCHANGED <<out, tested>>
     \/ /\ out' = Append(out, [type |-> Op1.op, state |-> Op1.state])
        /\ tested' = IF Op1.op = "load" THEN Append(tested, Loaded("none"))
                     ELSE tested
     \/ /\ Op1.op = "commit"
        /\ out' = out \o Lines(<<"commit", "empty">>)
        /\ UNCHANGED tested
  /\ Leave
  /\ UNCHANGED job

----------------------------------------------------------------------------
(* Device.restore()                                                        *)

\* compare_config() after a sync-to, twice if need be; "" for a sync-to that
\* fails, after which there is no comparison.
Laps == {<<"compare_config">>, <<"compare_config", "compare_config">>,
         <<"compare_config", "diff", "compare_config">>}
BadLaps == {p \o q : p, q \in {<<>>, <<"compare_config">>,
                               <<"compare_config", "diff">>}}

RestoreCommit == {<<"commit", "empty", "nn", "empty">>,
                  <<"commit", "nn", "complete">>}
RefusedCommit == {<<>>, <<"commit">>, <<"commit", "reason">>,
                  <<"commit", "nn", "reason">>}

RestoreGood ==
  {<<"teardown", "restore">> \o c \o l : c \in RestoreCommit, l \in Laps}
RestoreBad  ==
  {<<"teardown">>} \cup
  {<<"teardown", "restore">> \o c : c \in RefusedCommit} \cup
  {<<"teardown", "restore">> \o c \o l : c \in RestoreCommit, l \in BadLaps}

\* Marks the transitions that the lines of this restore may be put down to.
Blur(lines) ==
  LET n == Len(tested)
      smooth == lines \in RestoreGood /\ \A i \in DOMAIN lines : lines[i] # "diff"
  IN tested' = IF n = 0 THEN tested
               ELSE [tested EXCEPT ![n].blurred = @ \/ ~smooth,
                                   ![n].astray = @ \/ Astray(lines)]

\* After a failed set that is not the last one: the walk goes on, unless the
\* device cannot be restored.
RestoreAfterSet ==
  /\ rpc = "restore_set"
  /\ \E lines \in RestoreGood \cup RestoreBad :
       /\ out' = out \o Lines(lines)
       /\ Blur(lines)
       /\ \/ /\ lines \in RestoreGood
             /\ rpc' = "set"
             /\ sets' = Tail(sets)
             /\ UNCHANGED raised
          \/ /\ lines \in RestoreBad
             /\ rpc' = "restore"
             /\ raised' = TRUE
             /\ UNCHANGED sets
  /\ UNCHANGED <<job, ops, failed_states, exit>>

\* The fixture: restore the device, list the failed states.
RestoreAtEnd ==
  /\ rpc = "restore"
  /\ \E lines \in RestoreGood \cup RestoreBad :
       /\ Blur(lines)
       /\ \/ /\ lines \in RestoreGood
             /\ out' = out \o Lines(lines) \o
                  (IF failed_states = <<>> THEN <<>> ELSE <<Line("failed_states")>>)
             /\ End(IF raised THEN "failed" ELSE "ok")
          \/ /\ lines \in RestoreBad
             /\ out' = out \o Lines(lines)
             /\ End("failed")
  /\ UNCHANGED <<job, sets, ops, failed_states, raised>>

\* XMNR kills the process: after a SIGINT that it did not obey in time.
Killed ==
  /\ rpc # "idle"
  /\ End("failed")
  /\ UNCHANGED <<job, sets, ops, failed_states, raised, out, tested>>

Step ==
  \/ Prepare \/ BeginSet \/ EndSets
  \/ Load \/ CommitSucceeds \/ QueueItemFails \/ CommitAborted
  \/ Compare \/ RollBack \/ Interrupted
  \/ RestoreAfterSet \/ RestoreAtEnd \/ Killed
=============================================================================
