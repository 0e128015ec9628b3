-------------------------- MODULE RollbackHistory --------------------------
(***************************************************************************)
(* Which configuration DrNED rolls back to.  drned/drned/device.py keeps a *)
(* list of commit ids, the tests of drned/common/test_template.py roll     *)
(* back by index into it, and NSO keeps a rollback file for each commit of *)
(* any session.  An empty commit has no rollback file: its id is None.     *)
(*                                                                         *)
(* The model is a session of pytest with one test: test_template_single,   *)
(* or test_template_set with init files, sets and end operations.          *)
(***************************************************************************)
EXTENDS Integers, Sequences

CONSTANTS
  Configs,      (* configurations of the device                            *)
  Files,        (* the files that a test loads                             *)
  Effect,       (* Effect[f][c]: configuration c after loading f           *)
  Tests,        (* the tests that may be run                               *)
  MaxOthers     (* bound: commits of other sessions                        *)

VARIABLES
  running,      (* NSO: configuration of the device, and the rest of CDB   *)
  cand,         (* NSO: what DrNED's CLI session would commit              *)
  log,          (* NSO: rollback files: log[k] is what was before commit k *)
  others,       (* NSO: number of commits of other sessions                *)
  commit_id,    (* Device.commit_id                                        *)
  committing,   (* "no", or the commit that has ended without its id known *)
  test,         (* the test                                                *)
  phase,        (* where the test is                                       *)
  tsets,        (* sets that are left, with the one in progress            *)
  queue,        (* init files, or files of the set, that are left          *)
  call,         (* file, commit_id_base, rollback_id of _drned_single_file *)
  ops,          (* operations of the call that are left                    *)
  targets,      (* rollbacks that come after them                          *)
  set_base,     (* commit_id_base of the set                               *)
  init_stop,    (* init_id_stop (init_id_start is 0)                       *)
  saved,        (* before-session.xml and before-test.cfg                  *)
  before,       (* history: configuration of the device before each commit *)
  set_start,    (* history: configuration of the device before the set     *)
  raced,        (* history: the id of another session was taken for ours   *)
  failed_at     (* history: number of commit ids at the last failure       *)

nso == <<running, cand, log, others>>
ids == <<commit_id, committing, before, raced>>
place == <<phase, tsets, queue, call, ops, targets>>
marks == <<test, set_base, init_stop, saved, set_start>>
vars == <<nso, ids, place, marks, failed_at>>

None == 0

(***************************************************************************)
(* Operations: those that a user may name; "latest" is rollback() without  *)
(* an id, "undo" is rollback(commit_id[n]), and "session" is the load of   *)
(* restore().                                                              *)
(***************************************************************************)
OpNames == {"load", "commit", "compare", "rollback", "rollback+", "rollback-",
            "latest", "undo", "session"}
Ops == [do : OpNames, n : Nat]
Do(name) == [do |-> name, n |-> 0]
CommitCompare == <<Do("commit"), Do("compare")>>
LoadOps == <<Do("load")>> \o CommitCompare
SingleOps == LoadOps \o <<Do("rollback")>> \o CommitCompare
RestoreOps == <<Do("session")>> \o CommitCompare
RollbackOps(name, n) == <<[do |-> name, n |-> n]>> \o CommitCompare

DefaultEnd == <<Do("session")>>   \* stands for end_op None

Snapshots == [dev : Configs, rest : Nat]
Phases == {"init", "set", "files", "end", "restore", "back", "walk", "iteration",
           "teardown", "done"}
TestType == [init : Seq(Files), sets : Seq(Seq(Files)), op : Seq(Ops),
             end : Seq(Ops), all : BOOLEAN]

ASSUME RollbackAssumption ==
  /\ Effect \in [Files -> [Configs -> Configs]]
  /\ Tests \subseteq TestType
  /\ \A t \in Tests : Len(t.sets) > 0
  /\ MaxOthers \in Nat

NsoTypeOK ==
  /\ running \in Snapshots /\ cand \in Snapshots
  /\ log \in Seq(Snapshots) /\ others \in Nat

\* Ids are positions in the log.
IdsTypeOK ==
  /\ commit_id \in Seq(Nat) /\ \A k \in DOMAIN commit_id : commit_id[k] <= Len(log)
  /\ committing \in {"no", "empty", "full"}
  /\ before \in Seq(Configs)
  /\ Len(before) = Len(commit_id) + IF committing = "no" THEN 0 ELSE 1
  /\ raced \in BOOLEAN /\ failed_at \in Nat

PlaceTypeOK ==
  /\ phase \in Phases
  /\ tsets \in Seq(Seq(Files)) /\ queue \in Seq(Files)
  /\ call \in [file : Seq(Files), base : Nat, last : Nat] /\ call.last <= Len(log)
  /\ ops \in Seq(Ops) /\ targets \in Seq(Nat)

MarksTypeOK ==
  /\ test \in TestType
  /\ set_base \in Nat /\ init_stop \in Nat /\ init_stop <= Len(commit_id)
  /\ saved \in Configs /\ set_start \in Configs

\* The type of each variable; each id that is not None has a rollback file.
TypeOK == NsoTypeOK /\ IdsTypeOK /\ PlaceTypeOK /\ MarksTypeOK

\* The device fixture: the session begins in some configuration and saves it.
InitDevice ==
  /\ running \in [dev : Configs, rest : {0}] /\ cand = running
  /\ log = <<>> /\ others = 0
  /\ commit_id = <<>> /\ committing = "no" /\ before = <<>> /\ raced = FALSE
  /\ call = [file |-> <<>>, base |-> 0, last |-> None]
  /\ ops = <<>> /\ targets = <<>>
  /\ set_base = 0 /\ init_stop = 0
  /\ saved = running.dev /\ set_start = running.dev /\ failed_at = 0

Init ==
  /\ InitDevice
  /\ test \in Tests /\ phase = "init"
  /\ tsets = test.sets /\ queue = test.init

(***************************************************************************)
(* Commits.  Device.commit() looks its id up after the command: the newest *)
(* rollback file.                                                          *)
(***************************************************************************)
At(name) == ops # <<>> /\ Head(ops).do = name /\ committing = "no"

Commit ==
  /\ At("commit")
  /\ before' = Append(before, running.dev)
  /\ IF cand = running
     THEN committing' = "empty" /\ UNCHANGED nso
     ELSE /\ committing' = "full"
          /\ log' = Append(log, running)
          /\ running' = cand
          /\ UNCHANGED <<cand, others>>
  /\ UNCHANGED <<commit_id, raced, place, marks, failed_at>>

\* Mutant: the id is the one of the next commit.
RecordNextId ==
  LET id == IF committing = "empty" THEN None ELSE Len(log) + 1
  IN /\ committing # "no"
     /\ commit_id' = Append(commit_id, id)
     /\ call' = [call EXCEPT !.last = id]
     /\ ops' = Tail(ops)
     /\ committing' = "no"
     /\ UNCHANGED <<nso, before, raced, phase, tsets, queue, targets, marks, failed_at>>

RecordId ==
  LET id == IF committing = "empty" THEN None ELSE Len(log)
  IN /\ committing # "no"
     /\ commit_id' = Append(commit_id, id)
     /\ call' = [call EXCEPT !.last = id]
     /\ ops' = Tail(ops)
     /\ committing' = "no"
     /\ UNCHANGED <<nso, before, raced, phase, tsets, queue, targets, marks, failed_at>>

\* Another session commits something else, not on this device.
OtherCommit ==
  /\ others < MaxOthers /\ phase # "done"
  /\ others' = others + 1
  /\ log' = Append(log, running)
  /\ running' = [running EXCEPT !.rest = others + 1]
  /\ cand' = IF cand.rest = running.rest THEN [cand EXCEPT !.rest = others + 1]
                                         ELSE cand
  /\ raced' = (raced \/ committing = "full")
  /\ UNCHANGED <<commit_id, committing, before, place, marks, failed_at>>

(***************************************************************************)
(* Rollbacks.  commit_id_next(index) is the first id from that index on.   *)
(* range() takes a negative index as it is, and after -1 it goes on with   *)
(* index 0.  Positions count from 1 here.                                  *)
(***************************************************************************)
EmptyFrom(i) == \A k \in i..Len(commit_id) : commit_id[k] = None

\* Mutant: the id at the index, which is None when that commit was empty.
IdAt(i, id) == IF i \in DOMAIN commit_id THEN id = commit_id[i] ELSE id = None

NextId(i, id) ==
  \/ EmptyFrom(i) /\ id = None
  \/ \E j \in i..Len(commit_id) :
       /\ commit_id[j] # None /\ id = commit_id[j]
       /\ \A k \in i..j - 1 : commit_id[k] = None

\* The position of the commit that an operation names.
Back(n) == Len(commit_id) - n + 1
Forth(n) == call.base + n + 1

\* Mutant: the newest rollback file is left out when there are others.
TargetOneTooOld(o, id) ==
  \/ o.do = "rollback" /\ id = call.last
  \/ o.do = "latest" /\ id = (IF Len(log) > 1 THEN Len(log) - 1 ELSE Len(log)) /\ id # None
  \/ o.do = "undo" /\ o.n \in DOMAIN commit_id /\ id = commit_id[o.n]
  \/ o.do = "rollback+" /\ NextId(Forth(o.n), id)
  \/ o.do = "rollback-" /\ o.n \in 1..Len(commit_id) /\ NextId(Back(o.n), id)

\* The id that rollback() is called with.
Target(o, id) ==
  \/ o.do = "rollback" /\ id = call.last
  \/ o.do = "latest" /\ id = Len(log) /\ id # None
  \/ o.do = "undo" /\ o.n \in DOMAIN commit_id /\ id = commit_id[o.n]
  \/ o.do = "rollback+" /\ NextId(Forth(o.n), id)
  \/ /\ o.do = "rollback-" /\ o.n \in 1..Len(commit_id)
     /\ NextId(IF EmptyFrom(Back(o.n)) THEN 1 ELSE Back(o.n), id)

RollBack ==
  /\ ops # <<>> /\ committing = "no"
  /\ \E id \in 0..Len(log) :
       /\ Target(Head(ops), id)
       /\ cand' = IF id = None THEN cand ELSE log[id]
  /\ ops' = Tail(ops)
  /\ UNCHANGED <<running, log, others, ids, phase, tsets, queue, call, targets, marks, failed_at>>

(***************************************************************************)
(* The other operations.                                                   *)
(***************************************************************************)
Load ==
  /\ At("load") /\ call.file # <<>>
  /\ cand' = [cand EXCEPT !.dev = Effect[call.file[1]][@]]
  /\ ops' = Tail(ops)
  /\ UNCHANGED <<running, log, others, ids, phase, tsets, queue, call, targets, marks, failed_at>>

\* restore(): a new CLI session, and what was saved before the session
LoadSession ==
  /\ At("session")
  /\ cand' = [running EXCEPT !.dev = saved]
  /\ ops' = Tail(ops)
  /\ UNCHANGED <<running, log, others, ids, phase, tsets, queue, call, targets, marks, failed_at>>

Compare ==
  /\ At("compare")
  /\ ops' = Tail(ops)
  /\ UNCHANGED <<nso, ids, phase, tsets, queue, call, targets, marks, failed_at>>

\* Mutant: the next set begins without the device being restored.
FailUnrestored ==
  LET goes_on == phase \in {"files", "end"} /\ Len(tsets) > 1
  IN /\ ops # <<>>
     /\ phase' = IF goes_on THEN "restore" ELSE IF phase = "teardown" THEN "done" ELSE "teardown"
     /\ ops' = IF goes_on \/ phase = "teardown" THEN <<>> ELSE RestoreOps
     /\ targets' = <<>> /\ queue' = <<>>
     /\ before' = SubSeq(before, 1, Len(commit_id))
     /\ committing' = "no"
     /\ failed_at' = Len(commit_id)
     /\ UNCHANGED <<nso, commit_id, raced, tsets, call, marks>>

\* A command fails.  After a set that is not the last the device is restored
\* and the test goes on, unless the name of the set is not one of a state; the
\* fixture restores it when the test does not.  A commit may fail after it has
\* been made.
Fail ==
  LET goes_on == phase \in {"files", "end"} /\ Len(tsets) > 1
  IN /\ ops # <<>>
     /\ \/ goes_on /\ phase' = "restore"
        \/ phase' = IF phase = "teardown" THEN "done" ELSE "teardown"
     /\ ops' = IF phase = "teardown" THEN <<>> ELSE RestoreOps
     /\ targets' = <<>> /\ queue' = <<>>
     /\ before' = SubSeq(before, 1, Len(commit_id))
     /\ committing' = "no"
     /\ failed_at' = Len(commit_id)
     /\ UNCHANGED <<nso, commit_id, raced, tsets, call, marks>>

(***************************************************************************)
(* The test: init files; the files of a set and its end operations, set by *)
(* set; the rollback of the init files.                                    *)
(***************************************************************************)
Idle(p) == phase = p /\ ops = <<>>

Enter(file, base, operations) ==
  /\ call' = [file |-> file, base |-> base, last |-> None]
  /\ ops' = operations

InitFile ==
  /\ Idle("init") /\ queue # <<>>
  /\ Enter(<<Head(queue)>>, Len(commit_id), LoadOps)
  /\ queue' = Tail(queue)
  /\ UNCHANGED <<nso, ids, phase, tsets, targets, marks, failed_at>>

InitDone ==
  /\ Idle("init") /\ queue = <<>>
  /\ init_stop' = Len(commit_id)
  /\ phase' = "set"
  /\ UNCHANGED <<nso, ids, tsets, queue, call, ops, targets, test, set_base, saved, set_start, failed_at>>

BeginSet ==
  /\ Idle("set")
  /\ set_base' = Len(commit_id) /\ set_start' = running.dev
  /\ queue' = Head(tsets)
  /\ phase' = "files"
  /\ UNCHANGED <<nso, ids, tsets, call, ops, targets, test, init_stop, saved, failed_at>>

SetFile ==
  /\ Idle("files") /\ queue # <<>>
  /\ Enter(<<Head(queue)>>, Len(commit_id), test.op)
  /\ queue' = Tail(queue)
  /\ UNCHANGED <<nso, ids, phase, tsets, targets, marks, failed_at>>

\* Mutant: the way back ends one commit too early.
EndTargetsButLast(n) ==
  (IF test.all THEN <<0, n>> ELSE <<>>) \o [k \in 1..n - 1 |-> n - k]

\* The default end operations: to the start, to the end, and back commit by
\* commit; without set-all-operation only the last.
EndTargets(n) ==
  (IF test.all THEN <<0, n>> ELSE <<>>) \o [k \in 1..n |-> n - k]

BeginEnd ==
  /\ Idle("files") /\ queue = <<>>
  /\ phase' = "end"
  /\ IF test.end = DefaultEnd
     THEN /\ Enter(<<>>, set_base, <<>>)
          /\ targets' = EndTargets(Len(commit_id) - set_base)
     ELSE Enter(<<>>, set_base, test.end) /\ UNCHANGED targets
  /\ UNCHANGED <<nso, ids, tsets, queue, marks, failed_at>>

NextTarget ==
  /\ \E p \in {"end", "back"} :
       /\ Idle(p) /\ targets # <<>>
       /\ ops' = RollbackOps(IF p = "end" THEN "rollback+" ELSE "undo", Head(targets))
  /\ targets' = Tail(targets)
  /\ UNCHANGED <<nso, ids, phase, tsets, queue, call, marks, failed_at>>

\* Mutant: the init files are rolled back from the first one on.
EndSetForwards ==
  /\ \/ Idle("end") /\ targets = <<>>
     \/ Idle("restore")
  /\ tsets' = Tail(tsets)
  /\ IF Len(tsets) > 1
     THEN phase' = "set" /\ UNCHANGED targets
     ELSE phase' = "back" /\ targets' = [k \in 1..init_stop |-> k]
  /\ UNCHANGED <<nso, ids, queue, call, ops, marks, failed_at>>

EndSet ==
  /\ \/ Idle("end") /\ targets = <<>>
     \/ Idle("restore")
  /\ tsets' = Tail(tsets)
  /\ IF Len(tsets) > 1
     THEN phase' = "set" /\ UNCHANGED targets
     ELSE phase' = "back" /\ targets' = [k \in 1..init_stop |-> init_stop + 1 - k]
  /\ UNCHANGED <<nso, ids, queue, call, ops, marks, failed_at>>

\* The comparison of the files before-test.cfg and after-test.cfg, and the
\* fixture, which restores the device in any case.
EndTest ==
  /\ Idle("back") /\ targets = <<>>
  /\ phase' = "teardown" /\ ops' = RestoreOps
  /\ UNCHANGED <<nso, ids, tsets, queue, call, targets, marks, failed_at>>

Done ==
  /\ Idle("teardown")
  /\ phase' = "done"
  /\ UNCHANGED <<nso, ids, tsets, queue, call, ops, targets, marks, failed_at>>

Operation ==
  \/ Commit \/ RecordId \/ RollBack \/ Load \/ LoadSession \/ Compare \/ Fail

Next ==
  \/ Operation \/ OtherCommit
  \/ InitFile \/ InitDone \/ BeginSet \/ SetFile \/ BeginEnd \/ NextTarget
  \/ EndSet \/ EndTest \/ Done

Spec == Init /\ [][Next]_vars

(***************************************************************************)
(* Properties.  `raced' is the one mishap that they leave out: DrNED takes *)
(* the newest rollback file for its own, and another session made it.      *)
(***************************************************************************)
ConfigBefore(i) == IF i <= Len(before) THEN before[i] ELSE running.dev

\* commit_id_next() stands for the commit that the operation names even when
\* that commit was empty and has no id, or other sessions have committed
\* since: what is rolled back to is the configuration of the device before it.
\* The operations count in commits of this call (rollback+N) or from the last
\* one; commits before a failure do not count, and rollback-N needs one of the
\* last N commits not to be empty.
RollbackReaches ==
  [][ LET o == Head(ops)
          i == IF o.do = "rollback+" THEN Forth(o.n) ELSE Back(o.n)
      IN (/\ RollBack
          /\ o.do = "rollback+" \/ (o.do = "rollback-" /\ ~EmptyFrom(i))
          /\ cand.dev = running.dev /\ ~raced /\ i > failed_at)
         => cand'.dev = ConfigBefore(i) ]_vars

\* The tests that come back: those with the default end operations, whatever
\* their files are loaded with (without the way to the start and to the end that
\* set_all_operation adds, loads have to be committed); and those that roll each
\* file back.
Returns ==
  \/ test.end = DefaultEnd /\ (test.all \/ test.op = LoadOps)
  \/ test.end = <<>> /\ test.op = SingleOps

\* After the end operations the device has the configuration that it had before
\* the set, whatever commits of the set, or rollbacks among the end operations,
\* were empty.
SetComesBack ==
  Idle("end") /\ targets = <<>> /\ Returns /\ ~raced
  => running.dev = set_start /\ cand.dev = set_start

\* Each set begins where the first one began, also after a set that has failed
\* at any of its operations and from which the device was restored.  Not with
\* init files: restore() takes them away as well.
SetsStartAlike ==
  Idle("set") /\ Returns /\ ~raced /\ (init_stop = 0 \/ failed_at = 0)
  => cand.dev = running.dev /\ (tsets # test.sets => running.dev = set_start)

\* The tests compare the configurations before and after themselves and fail
\* when they differ.  This never happens: neither empty commits nor failed and
\* restored sets nor init files make a difference.
TestComesBack ==
  Idle("back") /\ targets = <<>> /\ Returns /\ ~raced => cand.dev = saved
=============================================================================
