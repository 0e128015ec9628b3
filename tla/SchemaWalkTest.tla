--------------------------- MODULE SchemaWalkTest ---------------------------
(***************************************************************************)
(* drned/common/test_walk.py: test_walk_direct() commits each iteration of *)
(* a walk over the schema and rolls it back, with the walker suspended     *)
(* between the None that ends an iteration and the next one.  The device   *)
(* and what a commit and a rollback do to it are those of RollbackHistory. *)
(***************************************************************************)
EXTENDS RollbackHistory

CONSTANTS
  Schemas,        (* the schemas that may be walked                        *)
  MaxIterations   (* bound: iterations of a walk that --iteration asks for *)

VARIABLES schema, wpc, at, value, joined, valid, participated, has_done, done,
          choices, index, choice_done, turned, skipped, more, seen, cut

Walker == INSTANCE SchemaWalk

walk_vars == <<schema, wpc, at, value, joined, valid, participated, has_done, done,
               choices, index, choice_done, turned, skipped, more, seen, cut>>

ASSUME SchemaAssumption == \A s \in Schemas : Walker!IsSchema(s)

CommitRollback == LoadOps \o RollbackOps("latest", 0)

\* A session runs this test or one of the others, which have no walker.
NoTest == [init |-> <<>>, sets |-> <<>>, op |-> CommitRollback, end |-> <<>>, all |-> FALSE]

WalkInit ==
  /\ InitDevice
  /\ test = NoTest /\ phase = "walk" /\ tsets = <<>> /\ queue = <<>>
  /\ Walker!WalkInit

AnyInit ==
  \/ WalkInit
  \/ /\ Init
     /\ Walker!WalkInit /\ schema = CHOOSE s \in Schemas : TRUE

WalkerStep ==
  /\ phase = "walk"
  /\ Walker!Invite \/ Walker!Prune \/ Walker!Yield \/ Walker!AdvanceLeaf \/ Walker!Decide
  /\ UNCHANGED vars

\* An iteration that --iteration does not ask for.
SkipIteration ==
  /\ phase = "walk" /\ Walker!NextIteration
  /\ UNCHANGED vars

\* stage.flush() loads the leaves of the iteration: any file may be what they
\* come to.
BeginIteration ==
  /\ phase = "walk" /\ wpc = "yielded" /\ Len(commit_id) < 2 * MaxIterations
  /\ phase' = "iteration" /\ set_start' = cand.dev
  /\ \E f \in Files : Enter(<<f>>, Len(commit_id), test.op)
  /\ UNCHANGED <<nso, ids, tsets, queue, targets, test, set_base, init_stop, saved, failed_at, walk_vars>>

\* The configurations before and after are compared; the test fails if they differ.
EndIteration ==
  /\ Idle("iteration")
  /\ IF cand.dev = set_start
     THEN phase' = "walk" /\ Walker!NextIteration /\ UNCHANGED ops
     ELSE phase' = "teardown" /\ ops' = RestoreOps /\ UNCHANGED walk_vars
  /\ UNCHANGED <<nso, ids, tsets, queue, call, targets, marks, failed_at>>

EndWalk ==
  /\ phase = "walk" /\ wpc = "end"
  /\ phase' = "teardown" /\ ops' = RestoreOps
  /\ UNCHANGED <<nso, ids, tsets, queue, call, targets, marks, failed_at, walk_vars>>

TestStep ==
  \/ WalkerStep \/ SkipIteration \/ BeginIteration \/ EndIteration \/ EndWalk
  \/ /\ Operation \/ InitFile \/ InitDone \/ BeginSet \/ SetFile \/ BeginEnd
        \/ NextTarget \/ EndSet \/ EndTest \/ Done
     /\ UNCHANGED walk_vars

AnyNext == TestStep \/ (OtherCommit /\ UNCHANGED walk_vars)

\* DrNED runs its steps one after the other, and a command that NSO does not
\* answer fails after a timeout.
TestSpec == AnyInit /\ [][AnyNext]_<<vars, walk_vars>> /\ WF_<<vars, walk_vars>>(TestStep)

(***************************************************************************)
(* Properties.                                                             *)
(***************************************************************************)
\* An iteration that has changed something leaves the device as it was.
\* rollback() without an id goes back over the newest commit: this holds only
\* when no other session has committed in between, and when the commit of the
\* iteration was not empty, which would undo the iteration before.
IterationComesBack ==
  LET first == commit_id[call.base + 1]
      second == commit_id[call.base + 2]
  IN Idle("iteration") /\ ~raced /\ first # None /\ second = first + 1
     => cand.dev = set_start

\* A walk that ends has yielded every value of every leaf never pruned, but for
\* leaves of a choice that was advanced twice in an iteration, and those that are
\* in no case of the choice they are to be selected by.
AllVisited == Walker!AllVisited

\* A test ends, also a walk over any choices, but for a choice with a case
\* that has no leaves.
TestEnds == (phase = "walk" => Walker!NoDeadEnd) => <>(phase = "done")
=============================================================================
