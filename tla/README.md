# Specification and proofs of drned-xmnr

This directory holds TLA+ models of drned-xmnr (XMNR), the TLC configurations
that check them on small instances, and TLAPS proofs about seven parts: where
threads, processes and aborts meet; what a failing conversion leaves on the device
and in the state store; the directory of states, which sessions share without a
lock; what is recorded of the transitions that DrNED makes; which configuration a
rollback restores; what a walk over nested choices visits; and the log error
parser. Paths below are relative to the root of the repository.

    tlc -config MCXmnrAction.cfg MCXmnrAction.tla      # check a configuration
    tlapm XmnrActionProofs.tla                         # check the proofs of a module

The modules with proofs are `XmnrActionProofs`, `CliConversionProofs`,
`StateStoreProofs`, `TransitionsProofs`, `TransitionsRecordProofs`,
`RollbackHistoryProofs`, `SchemaWalkProofs` and `LogProblemsProofs`.

## 1. The system

XMNR is an NSO package. A user asks for an action on a device; a worker thread
of the NSO Python VM performs it. Many actions start DrNED, a pytest suite that
drives NSO's CLI and through it the device, and read its output line by line.

| Component | State | Operations | Talks to |
|---|---|---|---|
| A. Action dispatcher, `ActionBase` (`action.py`, `op/base_op.py`) | `running_handlers`; per handler `aborted`, `abort_lock`, `drned_process`, the buffer of `Progressor` | `cb_action`, `cb_abort`, `perform_action`, `abort_action`, `run_in_drned_env`, `proc_run`, `terminate_drned_process` | NSO (calls it), child processes (pipe, signals), F and D (lines) |
| B. State store (`op/config_op.py`, `XmnrBase`) | files in `states/`: state, `.load` metadata, `.disabled` flag | record, import, import-convert, delete, disable, enable; list, view, check | file system, shared by all sessions without a lock |
| C. Output filter (`op/filtering/`) | the stack of `LogStateMachine`, `TransitionEventContext` | an event per important line, `close` | gets lines from A and D; its context decides on the result of D |
| D. Transition operations (`op/transitions_op.py`) | the list of transitions, previous and failed state, failures | transition-to-state, explore-transitions, walk-states | A (runs), C (lines), NSO (`last-test-results`) |
| E. DrNED runs (`drned/common/test_template.py`, `drned/drned/device.py`, `fixtures.py`) | the operations left, `failed_states`, commit ids, NSO's candidate configuration and rollback files | load, commit, compare-config, rollback, restore | NSO CLI; prints lines for C; exit status for D |
| F. CLI to NETCONF (`drned-skeleton/cli2netconf.py`, `devcli.py`, `ConvertMatch` and `ImportConvertCliFiles` in `config_op.py`) | the backup on the device, groups of files, the SSH session, files in `drned-ncs`, failures seen | convert a group, restore the device, import what is converted | the device (user's driver), NSO (sync-from, save), A (runs it, reads lines), B (moves the results) |
| G. Log error parser (`op/parse_log_errors.py`) | the pending problem and its matcher, the problems, the CDB list `parsed-problems` | gather, merge, store problems | log file, which may still be written to; CDB |
| H. Schema walker (`drned/drned/walker.py`, `choice.py`, `node.py`, `drned/common/test_walk.py`) | per leaf its value and whether it is done; per choice its case | prune, iterate, commit and roll back an iteration | E (commits and rollbacks); started by hand, not by XMNR |
| I. Setup, default configuration (`op/setup_op.py`, `op/common_op.py`, `save-` and `load-default-config.py`) | run directory; the default configuration on the device | copy the skeleton, `make`; save and restore the default | A; the device, through `devcli.py` |
| J. Coverage (`op/coverage_op.py`) | report | one DrNED run, parse | A |
| K. Startup check, completion, YANG model | none | | |

### What is hard

* **Concurrency (A).** For one action a worker thread, an abort thread and a
  child process run at the same time. The abort protocol has to work when the
  abort comes before the handler is known, between the test of `aborted` and
  `Popen`, while the process exits, when the silence timeout is terminating the
  process as well, or so late that the session's next action is in progress.
* **Partial failure and restart (B).** Each operation is several calls on files;
  nothing is atomic and no operation excludes another.
* **Order of lines (C, E).** The filter is a pushdown automaton that must follow
  a program which may fail after any command, restore the device, go on, be
  interrupted or be killed. A line in an unexpected place pops the stack.
* **Attribution (C, D).** A transition has no end mark. It ends with the next
  load, the next start state, a failure, or the end of the action.
* **Failures on the device (F).** A driver may fail anywhere in a command and leave
  the device with half of it. Which exception comes out decides between going on
  with the next group and giving up; the exit status of a script that went on is 0.
* **Lost output (A).** Output left in the pipe when the process exits is dropped.
* **Rollbacks by index (E).** An empty commit has no rollback file, so the list of
  commit ids has holes; rollbacks are commits themselves; the newest rollback file
  may be the one of another session.
* **Nested choices (H).** A choice turns to its next case only when a leaf tells it
  to, and leaves of a case take part only while it is the current one.
* **Cut clusters (G).** A test case may open in the middle of a cluster of error
  lines, which then has to be put down to the right one of the two.

### What makes each component correct

* A: an abort is effective and returns; no process is started afterwards; two
  processes of one action never meet; the action ends and leaves no process.
* B: a state has one file, complete and with its metadata; no flag or metadata
  waits for a later state; nothing is replaced unless asked for.
* C with E: each state loaded is recorded once, in order, with its start and with
  the failure that it had; D: each planned transition is made once, what is
  stored is complete, and the result is right.
* F: a script that ends well leaves the device and NSO as they were, whatever
  failed; one that cannot do so stops; what is imported was made of the right
  files in the right order, and success means that all were.
* E with NSO: a rollback restores what its index names; a set with its default end
  operations, and a test, leave the device as they found it.
* H: a walk that ends has tried every value of every leaf, but for the skipped
  cases below, and it ends.
* G: a line that matches is reported, once, in order and under its test case.

## 2. Modules

| Module | Models | Role |
|---|---|---|
| `XmnrAction` | A | core module |
| `DeviceRun` | what A promises | abstract specification, implemented by `XmnrAction` |
| `XmnrActionProofs` | | theorems about `XmnrAction`, and that it implements `DeviceRun` |
| `CliConversion` | F, and the device side of I | |
| `Devcli` | the SSH sessions of `devcli.py` | instantiated by `CliConversion` |
| `CliConversionProofs` | | theorems about `CliConversion` |
| `StateStore` | B (and what F does to it, among other operations) | |
| `StateStoreProofs` | | theorems about `StateStore` |
| `EventFilter` | C | instantiated by `Transitions` |
| `DrnedRun` | E | instantiated by `Transitions` |
| `Transitions` | D, composed of C and E | |
| `TransitionsProofs` | | theorems about `Transitions`, and what the filter makes of lines |
| `TransitionsRecordProofs` | | theorems about what `Transitions` records |
| `RollbackHistory` | E: commit ids, rollbacks, the configuration of the device | |
| `RollbackHistoryProofs` | | theorems about `RollbackHistory` |
| `SchemaWalk` | H: the walk over leaves and choices | instantiated by `SchemaWalkTest` |
| `SchemaWalkTest` | H: `test_walk_direct` | composes `SchemaWalk` with `RollbackHistory` |
| `SchemaWalkProofs` | | theorems about `SchemaWalkTest` |
| `LogProblems` | G | |
| `LogProblemsProofs` | | theorems about `LogProblems` |
| `MCXmnrAction`, `MCStateStore`, `MCTransitions`, `MCCliConversion`, `MCRollbackHistory`, `MCLogProblems` | | instances for TLC |

### XmnrAction

A handler object is made for each request, so a handler names its request too.
`wpc` and `apc` are the program counters of the two threads; each labelled step
is the code between two points where another thread can interfere. The lock is
taken in `LockForPopen` and `SetAborted`, and given back in `CheckAborted` (the
exception), `Popen`, `AbortUnlock` and `ProcessVanished`. The last one is the
`AttributeError` of the abort thread when the worker sets `drned_process` to
None under its hands. `proc` is the process itself; a signal to a process that
has exited does nothing. Output is counted in half lines, so that a read may end
in the middle of a line. `setup_drned()` differs from `run_in_drned_env()` as in
the code: no lock, no test, no `finally`. What an operation is, is the list of
processes it starts (`Plans`). The kind of output, transactions with NSO and the
contents of logs are left out; that any of them may raise is `OutputFails`.

### StateStore

A state file is a name with one of four suffixes; `content`, `meta` and `flag`
say of each whether it is there and complete, and whether `.load` and
`.disabled` files are. One action per system call. `Crash` is a restart of the
VM. The properties speak about names that no operation is at work on and that
none of the listed mishaps has happened to (the history `suspect`): these are
exactly two operations on one state at a time, a restart or a failed write (of the
file or of its metadata) in the middle, and a skipping or converting import on top of a state. So the runs
also show that nothing else leads to disorder. A converting import with
`skip-existing` starts without the files of states that were there (`Dropped`
when their turn comes); an import of state files leaves none out.

### EventFilter

One definition per log state class, named after it; `Handle` gives what
`handle()` returns, `Update` is `update_context()`. `Pop` is one turn of the loop
in `LogStateMachine.handle()`. An event is a class of events (or the value of the
attribute that a log state looks at). `shown` is the last line shown at level
`drned-overview`; the level does not influence what is recorded.

### DrnedRun

A run of pytest as XMNR starts it: `test_template_raw` for transitions without
rollback, `test_template_single` with rollback, `test_template_set` for walks.
An operation appends to `out` the lines that the filter knows, in the order in
which DrNED prints them, and ends well, with `pytest.fail`, or with an interrupt.
NSO and the device decide how each command ends: the actions offer the outcomes
that the code tells apart. `tested` is a history variable: the loads, what failed
first after each, whether the output tells it (`told`), whether restoring the
device afterwards went smoothly (`blurred`), and whether the output contains
something the grammar of the filter does not know (`astray`). `Prepare` stands
for the creation of the device and the commits in it; a walk over no states fails
there, as `test_template_set` does without a file.

### Transitions

`say` holds the progress messages of the operation itself, which go through the
same filter. The filter is always up to date before DrNED or the operation makes
its next step; nothing flows back from the filter before the end, so no
behaviour is lost by that. `LoseLines` is the loss of the rest of the output
shown by the run `lines_lost`. `NotStarted` is a run that never begins: the operation
has told of the start state or the transition by then. A request names each state once:
`states` is a leaf-list, and the recorded states are each in one file by `OneFile` of
`StateStore`. (A mishap may leave a state in two files; `get_states()` lists it twice
then, and explore-transitions makes transitions from it to itself. That is left out: the
properties of the recording tell initializations from transitions by their states.) The properties that compare the recording with
what happened in every state hold for behaviours without it; `StoredWhole` says
what is left with it: what is stored is a part of what was tested, in order. At log
level `all` the filter is not sent its last event; that makes no difference to the
recording.

### Devcli and CliConversion

`Devcli` is one call of `load_config()`, `save_config()` or `restore_config()` at
a time: up to three logins, the run of the state machine for the command, the run
for `exit`. The user's driver and the device are outside the repository. A run of
the driver's state machine ends in one of the ways that `interstate_one()` and
`interstate()` tell apart; when it fails the device has got all, half or nothing
of the command. The one assumption is that a command that reaches `done` has been
carried out. Closing the session may raise as well, in place of what the run has raised
(`Raised`). A configuration is the sequence of the files loaded.

`CliConversion` is the three scripts above it with the actions that run them.
`spc` is the place in the script; `CallStep` is a step of the call in progress. A
group is a step per load, sync, save and restore, each with its exceptions:
`pending` is the one that the `except BaseException` of `group_cli2netconf()`
raises again, unless its own recovery raises another. `writing` is the file that
`NcsDevice.save()` has open, which follows the file when it is moved (a rename: the run
directory and the states are taken to be on one file system); it may also be that the
file cannot be opened (`Open`). The action
reads `out` while the script runs; a converted file is moved when its line is
read. `Killed` is what an abort or a silence timeout come to in the end.
`LoseLines` is the output lost by `proc_run()`, as in `Transitions`. Names of files
come with their set, index and state as functions of the name, so that parsing
is left out; files that do not match are `BadNames`.

The script prints the real path of a file and that of its result when it is converted,
and `ConvertMatch` looks for two paths without a space (`config_op.py:355`). `Spaced`
are the files with a space in either, which are all files if the run directory has
one: `ReadLine` takes no notice of their lines. Nothing fails then, so the action
replies success and has not imported them, which YANG (`drned-xmnr.yang:399`: "convert
them") gives no reason to expect.

Of two files converted to one state the code takes either, or, while the second one is
being written, one that becomes whole later; `ImportedRight` does not speak about
those. `SuccessComplete` does: after success each file that is not `Spaced` has been
imported, and its state is a whole conversion made by this action (`Made`), of the file
itself or of another one for that state, no part of one and nothing left behind by an
earlier action. Sets that are split by another set are left out of the latter
(`Together`).

### RollbackHistory

One session of pytest with one test, `test_template_single` or
`test_template_set`, seen from NSO: `running`, the candidate `cand` of DrNED's CLI
session, and `log`, a rollback file for each commit of any session. A commit is
two steps: NSO makes it (`Commit`), and `Device.commit()` looks for its id
afterwards (`RecordId`). An empty commit leaves `None` in `commit_id`. `Target` is
what each rollback operation hands to `rollback()`; `NextId` is
`commit_id_next()`, whose `range()` goes on from -1 to 0. `OtherCommit` is a
commit of another session between any two steps; `raced` remembers that one came
between a commit and the look for its id. `Fail` may come at any operation: the
device is restored, and a set that is not the last is followed by the next one.
Operations that users may name with `--op` and `--end-op` are data (`Tests`).
Configurations are values, and a file is a function on them. `before`,
`set_start` and `failed_at` are history variables for the properties. `Returns`
names the tests that come back by themselves: those with the default end operations
(and, without `set-all-operation`, with files that are committed), and those that roll each
file back; other end operations are the user's own.

### SchemaWalk and SchemaWalkTest

`SchemaWalk` is the generator `gen_walk()`: leaves are invited (`join_walk`),
pruned, yielded, and asked one by one to advance (`AdvanceLeaf`), which may
advance choices (`Incremented` is `done_walk()` climbing from the leaf to the
choices around it). A leaf is a number, its values are counted, and a choice is
known by the cases its leaves are in; `IsSchema` says what any schema keeps to. A leaf
may wait for a case that its container does not have: with `cli-full-command` and
`cli-hide-in-submode` it is no child of the pseudo-choice, and has to be the current one
of it all the same (`node.py:428-447`). It never joins and is neither yielded nor
pruned, and the walk ends without it. Such leaves are part of the model; `Selectable`
are the others, about which `AllVisited` speaks.
`turned` and `skipped` are history variables: the choices advanced in this
iteration, and those ever advanced twice in one. What the `prune_` methods disable depends on
`when`, `must` and other statements; `Prune` disables any of the leaves that they
may. `SchemaWalkTest` is `test_walk_direct`: the walker is suspended while an
iteration is loaded, committed and rolled back with the operations of
`RollbackHistory`.

### LogProblems

A line is what the parser finds in it: the patterns that match, the terminators
it contains, the test case it opens. A log is any sequence of lines up to a
bound, read one by one; the end of the file may come after each, as the log may
be one that is being written. `ReadLine` has one case for each branch of
`gather_problems()`, with what is done to the pending problem and to the list of
problems. `Store` is the transaction that replaces the CDB list.

## 3. Runs

Every passing run checks deadlock off: an action ends, and the model with it.

| Run | Instance | Distinct states | Shows |
|---|---|---|---|
| `action` | one request, all plans, pipe of 3 half lines | 9 thousand | lock protocol, effective aborts, no process left, liveness |
| `requests` | two requests of one session, two plans | 1.8 million | late aborts, exact registry, kills; implements `DeviceRun` |
| `store` | two sessions, two names, two operations | 0.3 million | order in the states directory |
| `transitions` | walks over a,c,b; ab,c; a,b with commit queues, or with rollbacks; over nothing; one transition; two states; two of the transitions of three states; a time limit | 2.4 million | recording of walks and explorations, `ExploreComplete` |
| `convert` | save-default, convert, load-default; two conversions; a bad name, a set of two, two files for one state, one of which may have a space in its path | 4.7 million | the device restored, imports made of the right files, success complete, giving up |
| `rollback` | 78 tests over three files; ten schemas, two iterations that are loaded | 1.0 million | rollbacks reach what they name, sets and tests come back, walks visit everything, tests end |
| `log_problems` | any log of up to five lines, two patterns | 1.2 million | order, test cases, matches found |

And runs in which TLC finds a documented promise broken:

| Run | Promise | What the code does |
|---|---|---|
| `lines_lost` | `transitions_op.py:63` "Lines from the DrNED output need all to be processed" | the loop ends on `poll()`, the rest of the pipe is dropped |
| `import_skip` | `test_actions.py:529` "reimport with skipping already existing states" | `ImportStateFiles` writes them all the same |
| `walk_failure` | `test_template.py:288` "Re-raise walk states error to trigger error condition." | the walk goes on and exits with 0; if the filter does not know the failure, walk-states is a success |
| `unseen_transitions` | `states.py:283` "ExtTrans -> (transition prepare TransitionS transfailed? Teardown)*" | an event that does not fit ends the repetition; later transitions from the same state are not recorded |
| `log_lost` | `README.md:191` the action "greps" all the clusters of lines that match | a test case that cuts a cluster leaves its matcher pending: the next cluster of that pattern is lost |

Other disagreements met while modelling, for which no run is kept:

* `base_op.py:334` tests `aborted` and writes to the CLI without the lock: a line
  may be written after an abort, against the comment at 335.
* A save that fails in `config_op.py:197` leaves a listed state file without its
  metadata, though line 23 says that all of them are loaded in override mode.
* A file to convert, or a run directory, with a space in its path: the "converted" line
  does not match (`config_op.py:355`), nothing is imported, and the reply is success.
* A `cli-full-command` leaf with `cli-hide-in-submode` is never visited by the walk,
  though nothing prunes it (`node.py:428-447`).
* `commit_id_next()` (`device.py:490`) with a negative index goes on from -1 to 0: if
  the last N commits were all empty, `rollback-N` goes back to the very first one.
* `rollback` as a user's end operation, before a commit among them, does nothing:
  `rollback_id` is a local of `_drned_single_file()`.
* `restore()` after a failed set also takes away what init files had configured, so
  the sets that follow start elsewhere than the first (`SetsStartAlike` leaves them
  out).
* In `test_walk_direct` an iteration whose commit is empty is followed by a
  `rollback()` that undoes the commit of an earlier one; and with another session at
  work the newest rollback file may be of that session (`device.py:915`).
* A rollback to an older commit also reverts what other sessions committed since.
* A choice with an empty case is never done: `gen_walk()` goes on for ever
  (`choice.py:19`; `TestEnds` has the hypothesis `NoDeadEnd`).
* `Choice.increment()` waits for the leaves that have joined. When two leaves finish
  in one iteration the second may find a choice that the first has just turned to a
  case none of whose leaves has joined yet, and advance it again: `gen_walk()` ends
  without having visited that case (`choice.py:19`). `AllVisited` leaves out the leaves
  of choices to which this happened (`skipped`).
* Merging clusters of the log bypasses `max-lines`, and the line that ends an exact
  cluster starts none (a comment in `parse_log_errors.py` says so of the latter).

### Bounds, and why they are enough

* `PipeSize` 3: less and more than a line, and a full pipe. Reads always empty
  the pipe, so a larger one only repeats. The two-request run needs no lines (1).
* Two requests of one session: `cb_abort` finds a handler by session only, and a
  late abort can reach at most the next handler that is registered. Requests of
  different sessions share no variable.
* Plans of up to two processes: the second shows what an earlier one leaves
  behind; the state after the second is that after the first.
* `MaxOps` 2: the mishaps are pairs of operations; `Init` starts in an empty
  directory, or with a recorded state and a file of the user's, each disabled or
  not, which stand for what earlier operations lead to.
* Three states in a walk: a failing state that is first, in the middle and last.
  A set of two has a load that follows a load; it comes before another set, which
  starts from its second state.
* Exploring: two states give two start states; of three states the first two
  transitions share a start state, so that the rest of a group is seen after a
  failure, and after a start that could not be initialized. Commit queues are on
  where transitions share a start, and in walks where a set has two states or
  rollbacks: what a queue changes is the lines of one commit.
* `Losing`: output is lost in all walks, in single transitions, and where one
  transition is explored. A loss concerns the end of one run and what is stored,
  not how many runs follow; what is stored of longer explorations after a loss is
  proved (`NothingMadeUp`).
* Converting: at most two groups, one of which has two files whose names and
  indices are in different order: a failure in the first file, the second, and the
  next group. Three actions in a row: what was saved by the first is used after
  the second. A failure of each kind may come at every call.
* Rolling back: three files that change the configuration, do not, and bring the
  first one back make each commit full or empty, and a configuration return
  without being the same commit. One set of three, two sets with a failure in the
  first, init files (also with an empty first commit), rollbacks in the middle.
  `MaxOthers` 1: a second commit of another session moves ids by one more. One
  initial configuration: the others are reached.
* Walking: choices inside a case of a choice, a choice that has other leaves (a list
  with full commands and a key, and perhaps a full command hidden in the submode), one
  with an empty case, and one that may skip a case;
  up to three values.
  `MaxIterations` bounds the iterations that are loaded (`--iteration`), not the walk.
* Logs: five lines hold two clusters of two lines with a test case between them,
  which merging, cutting and `max-lines` need; two patterns, exact and terminated.
* The sequences of lines of one command are all that the code can print there
  (of those the filter knows); `Device.restore()` makes at most two laps.

### Fairness

Weak fairness of every step of the worker and of the abort thread: Python threads
that can run do run, `select()` and `wait()` have timeouts. `make env.sh` is
assumed to end, since the silence timeout of a process that keeps printing never
comes. Nothing is assumed of NSO, the user or DrNED, which may hang, print for
ever or ignore SIGINT. So that an action that nobody aborts ends is not claimed;
`AbortEnds` and `AbortReturns` are.

`TestEnds` assumes weak fairness of `TestStep`: pytest runs one step after another,
and a command that NSO does not answer fails when `pexpect` times out. Commits of
other sessions are not part of it.

The safety properties need no fairness.

## 4. Proofs

### The abort protocol

`XmnrActionProofs` proves, for any handlers, sessions, plans and pipe size, and
with no assumption but `XmnrActionAssumption`:

| Theorem | Property |
|---|---|
| `TypeCorrect` | `TypeOK` |
| `LockCorrect` | `LockInv`: at most one holder, given back on every way out |
| `AbortIsEffective` | `AbortEffective`: after an abort the process is gone for good |
| `ReplyFreesDevice` | `NoProcessLeft` |
| `AbortPreventsStart` | `NoStartAfterAbort` |
| `OneAtATime` | `OneProcessAtATime` |

The argument. `LockInv` is inductive with the types alone, and says that the
test of `aborted` with `Popen` and the whole of `abort_action()` exclude one
another. From it: a worker past the test has a handler whose flag is not set
(`FlagInv`), and an abort thread past `SetAborted` has a handler whose flag is set
and stays so (`TargetInv`); thus no process is started while an abort is at work
or later. `AliveInv` and `AttachedInv` tie a live process to the place of the
worker: it lives only between `Popen` and the end of `proc_run()`, or after an
exception there. `GoneInv` carries "the process is gone" through the steps of the
abort thread from `wait()` on; when the thread dies since the worker has set
`drned_process` to None, it is `AttachedInv` that says the process is dead.
`OutcomeInv` and `MakeInv` deal with the exceptions that the properties name:
`make`, and output that cannot be processed. `IInv` is the conjunction. The proof
that a step preserves it is split by conjunct: types (`TypeStep`), the lock
(`LockFrame`), the abort side (`GoneFrame`) and the rest (`SafetyStep`).

### The registry, kills, and the refinement

The second half of `XmnrActionProofs` builds on this; its last theorem is the whole
promise of the action layer.

| Theorem | Property |
|---|---|
| `RegistryIsExact` | `RegistryExact` |
| `KillsOnlyInterrupted` | `KillOnlyInterrupted` |
| `Implements` | `ImplementsDeviceRun`: `XmnrAction` implements `DeviceRun` |

The argument. `RegInv` is `RegistryExact` with what makes it inductive: NSO runs
one action of a session at a time (`OneActive`), and an entry is a handler of that
session (`OwnEntry`). `InterruptInv` says that an abort past its `SIGINT` has a
process that was interrupted or is dead. It holds because a process is not followed
by another one while an abort is at work: of DrNED since `Popen` takes the lock, of
`make`, which is started without it, since it comes first in a plan (`MakeFirst`,
all that `MakeFirstAssumption` is used for). `BegunInv` says that an abort finds only
handlers whose action has begun. With these `Implements` maps the initial states, and
each step of the threads, the process and NSO, to a step of `DeviceRun` or a stutter.

### The device after a conversion

`CliConversionProofs` proves, for any files, names, groups and sequences of
actions, from `CliConversionAssumption`:

| Theorem | Property |
|---|---|
| `DeviceIsRestored` | `DeviceRestored`: after a script that ends well, the device and NSO are as they were, or at the saved default |
| `ScriptGivesUp` | `GivesUp`: no call after a critical exception or a failed restore |
| `TypesAreRight` | `TypeOK` |
| `ImportIsRight` | `ImportedRight`: a state is made of its own file and those of its set before it, by index |
| `SuccessIsComplete` | `SuccessComplete`: a reply of success means that every file whose conversion the action can hear of was imported, whole |

The argument for the device. `DeviceRestored` says only what is true at the end. `BackupInv` ties
the device to its backup at each place of the script: the backup equals the
configuration found from the moment the save is done, and the device equals it
again where the next group begins, since that place is reached by a restore that
has returned without an exception. `DefaultInv` says the same of the default, which
a conversion does not touch: it saves under another name. `PlaceInv` and `CallInv`
say which call is in progress where. The lemmas `SaveStep` and `LoadStep` say what
a step of a call does, so that `CallStepIInv` has one case per place. `GiveUpInv`
says that after a critical exception the script is at a place where it can only
end.

The argument for the import. `sorted()` is stable, so that its result is told by
counting: a file is at place k if k files of the group are not after it (`Sorted`,
`UpTo`). From this `Sorted` gives each file once, and, of a group that begins with
some files of a sequence, begins with them. `GroupInv` says that the files not yet
taken are the rest of the request after a cut between two sets, and that during a
group the device has what was there at the beginning with the first k files of the
group on top. `ConvertInv` follows a file from there: it waits, is told of by a line
of output, or is imported, in that order and once (`OnceInv`), and what it was
converted to is right, before it is moved and after (`RightInv`). Where two files
make one state, or a set is split, nothing of this is claimed, as in the property.
`FitInv` covers the state that several files are converted to: a file may be moved
while the next one is being written to it, but only then is it not whole.
`CompleteInv` says that a file that does none of the three has left a sign of it that
the reply looks at (`Trouble`).

### The directory of states

`StateStoreProofs` proves, for any names, sessions, files and number of operations,
from `StateStoreAssumption`:

| Theorem | Property |
|---|---|
| `TypeCorrect` | `TypeOK` |
| `OneFilePerState` | `OneFile` |
| `NothingLeftBehind` | `NoOrphan` |
| `RecordedWhole` | `WholeAndLabelled` |
| `ReplacedKnowingly` | `NoSilentReplace` |

The argument. The properties speak of names at rest; the invariant has to say what
the directory holds of a name while an operation is at work on it. `Exclusive` says
that no two operations are at work on a name without mishaps, but for harmless pairs
(the history `suspect` makes any other a mishap). `NameInv(n)` has two parts. `DirInv`
is the properties with the exceptions that last while an operation is at work, each
tied to its place: metadata and flag outlive the file until the next calls of
`remove_state_file()`; a new file is incomplete, then without metadata. `WorkInv` is
what an operation relies upon: what it has removed is gone (`GoneInv`), what it
replaces makes room (`RoomInv`), a state that was not there has no file but its own
(`NewInv`), nobody spoils what it writes (`WrittenInv`) or takes away what it is
disabling (`PresentInv`). `SessionInv` ties the variables of an operation to its
place; `ScopeInv` in it says that what is still to be processed is in the scope, so
that all other names, and the other sessions, are framed by lemmas. `NoSilentReplace`
follows from `RemovalInv`, `RoomInv` and `ScopeInv`: what a writing operation removes
it was asked to replace, and what an import writes over was not there when it began,
or was to be overwritten.

### What is recorded of the transitions

`TransitionsProofs` and `TransitionsRecordProofs`, which extends it, prove, for each of
the three actions and for any states, sets, requests and outcomes of the commands, from
`TransitionsAssumption`:

| Theorem | Property |
|---|---|
| `TypesAreRight` | `TypeOK` |
| `ExploreComesThrough` | `ExploreComplete`: each planned transition is made once |
| `NothingMadeUp` | what is stored is a part of what was tested, in order |
| `LoadsAreRecorded` | `EveryLoadRecorded` |
| `StartsAreRecorded` | `StartsRecorded` |
| `FailuresAreRecorded` | `FailuresRecorded` |
| `StoredIsWhole` | `StoredWhole` |

The first three are in `TransitionsProofs`, the other four in `TransitionsRecordProofs`.

The argument. `TypeInv` has, beyond the types, what keeps `Head` and `Handle` inside
their domains: an event of a load names a state (`GoodEvent`), a run has operations
left where it makes one, and the operation waits for a run that it has started
(`WaitInv`).

`ExploreInv` says how far explore-transitions has come: `TriedInv` relates the runs
made to the planned transitions that are gone, for each start state whether it was
initialized, once, and whether that failed. The pairs that start from a state are
neighbours in the plan (`Listing`, proved of `Permutations2` in closed form), so a
state is not initialized again after others.

For the record, a load is followed from DrNED to the filter. A step of DrNED prints
one load at most, and nothing after it in the same step (`StepTests`); until the
filter is done with it there is no other (`LoadingInv`). So each step of the system
does one of four things (`LoadSteps`): it leaves the record and the history as they
are, DrNED tells of a load, the filter records it, or the load is missed.
`CompleteRecords` and `UpdateRecords` show that what ends a transition - the next load,
a start state, a failure, the end - changes nothing of the transitions recorded but the failure. With
these `PartInv` holds whatever is missed: the record maps, in order and one to one,
into the history. That is `NothingMadeUp`.

That nothing is missed, and that each failure is put down to the transition that had
it, needs to know which log states are on the stack whenever a line comes. This is a
simulation of DrNED by the filter.

* The filter on its own is a function on what it has still to read, its stack, its
  context and its test events (`Turn`), and `Reach` is its reflexive and transitive
  closure, as the least set that is closed under `Turn`; so nothing is proved by
  induction over the lines. `Takes` and `Drops` say what one line does to a stack whose
  top is known, for each log state and type of line (`AtCommit`, `AtCompare`, ...), with
  anything below it; `Reads` puts them together for the lines of a command.
* `Made(R)` are the stacks that a transition on top of `R` may have left, at any point
  of it; `OpAt` says on which of them the filter is when DrNED comes to an operation,
  and `OpHeard` that the lines of the operation, whatever becomes of it, lead to where
  the next one finds it.
* `Recs(c, e, f)` says that the context `c` and the test events `e` tell of the loads
  `f`: their states, their starts, their failures. It is kept by everything that the
  filter does to its context (`RecLoad`, `RecFail`, `RecClose`, ...). `TightOf` is the
  stronger form that holds while an operation is made: the last entry is the last load,
  and unless that has failed it is not complete yet, and the context knows whether its
  rollback has begun. `f` is `Kept`,
  the loads without those that explore-transitions loses track of; `LostIn` says when
  it has lost track, and then the stack is down to `explore-transitions`, which waits
  for the next start state.
* `CtlInv` is what the operation and its run are about: the operations left come in an
  order that is known (`RunCourse`), the run that the operation waits for is the one it
  has started, for the first of the pairs (`StartedInv`), and the pairs from one state
  come together (`GroupInv`).
* `Match(st, c, e)` puts these together: with the stack `st`, the context `c` and the
  test events `e` the filter is where the program counters of the operation and of DrNED
  say that it should be. The filter takes many steps to read the lines of one step of
  DrNED, in which `Match` does not hold. The inductive invariant `SimInv` therefore says
  that the filter, from where it is, reaches some `st`, `c` and `e` that match when
  it has read what is on its way. A turn of the filter and a line sent to it leave that
  as it is (`FilterSim`, `SendSim`); for a step of DrNED (`DrnedSim`) and of the
  operation (`WorkingSim`) the filter has read everything, so that `Match` holds of its
  own stack and record, and what is printed leads to a match again.
* `CloseInv` says the same for the end, where the filter is closed and completes the
  last transition. If output was lost, the filter may be anywhere, and only
  `NothingMadeUp` is left; that is the other case of `StoredIsWhole`.

### Rollbacks

`RollbackHistoryProofs` proves `TypeCorrect` and `RollbacksReach`
(`RollbackReaches`) for any files, tests, operations and number of commits of other
sessions, from `RollbackAssumption`. `HistoryInv` has three parts: an empty commit
has the same configuration before and after it (`EmptyChangesNothing`); the
rollback file of an id holds the configuration before that commit (`IdsHoldBefore`);
and the newest rollback file is that of the commit whose id is not known yet
(`NewestIsOurs`). Thus the next id that is not `None` will do for the one
that an operation names. Commits of other sessions do not disturb it, since they
change something else; the one made between a commit and the look for its id does,
and sets `raced`.

The module proves from it that the tests that `Returns` names come back,
for any files, sets and init files, any failures and commits of other sessions:

| Theorem | Property |
|---|---|
| `SetReturns` | `SetComesBack`: the end operations lead to where the set began |
| `SetsBeginAlike` | `SetsStartAlike`: after a failed set, too, the next begins where the first did |
| `TestReturns` | `TestComesBack`: the comparison before and after never finds a difference |

The argument. `ReturnInv` says for each place of the test where the device is, and
what the operations that are left will make of it. Operations come in rounds, each
with an invariant of its own: a load and its commit (`LoadRound`), these and a
rollback (`SingleRound`), one rollback of the way back (`EndRound`), of the init
files (`BackRound`), the restore after a failure (`RestoreRound`). The last
rollback of the way back is `rollback+0`, which reaches where the set began by the
lemma of `RollbacksReach`. Going back over the init files, the device is
back once all those from the first that was not empty have been undone (`Undone`).
A failed set restores what was before the session, hence before the init files; so
its successor begins alike only if there are none (a hypothesis of `SetsStartAlike`);
the way back over the init files ends in the same configuration all the same.

### The walk

`SchemaWalkProofs` proves, for any schemas that keep to `IsSchema`, leaves that can never
join included, any files, and any commits of other sessions:

| Theorem | Property |
|---|---|
| `WalkVisits` | `AllVisited`: a walk that ends has yielded every value of every leaf never pruned, but for those that can never join (not `Selectable`) and those of choices advanced twice in one iteration |
| `IterationReturns` | `IterationComesBack`: an iteration leaves the device as it was |
| `WalkTypeCorrect` | `TypeOK` of `RollbackHistory`, under a walk |

The argument. Visiting is a matter of who has joined. `SeenInv` says that a leaf has
been yielded with the values before its own. `JoinedInv` says that, as long as a
choice has not moved in an iteration, the leaves of its case that are in no case of a
choice further inside have joined with any other leaf of the choice that has: they
see the same choices around them (`JoinTogether`, from `IsSchema`). So a choice that
moves for the first time in an iteration has waited for all of them, and `PassedInv`
follows: a choice that is past a case has left no leaf of it that is not done. What
moves a second time in one iteration is excepted (`skipped`): there the proof did not
go through, and TLC found the walk that passes over a case. `MoreInv` and `FreeInv`
are about the leaves in no case at all, and `MetInv` says that a choice that has not
been met has no leaves of its own. Thus at the end none is left (`EndInv`).

`IterationReturns` uses the invariants of the rollbacks: the two commits of an
iteration are the last ones of the device (`IterationRound`), so the newest rollback
file is that of the second and leads to what the first had found.

### The log error parser

`LogProblemsProofs` proves, for any log, patterns and test cases, from
`LogAssumption`:

| Theorem | Property |
|---|---|
| `TypeCorrect` | `TypeOK` |
| `ProblemsInOrder` | `InOrder` |
| `ProblemsOfTheirCase` | `RightCase` |
| `MatchesAreFound` | `MatchesFound` |

The argument. The list of problems with the pending one at its end is treated as
one list that `AddNew` may merge: `ListInv` says of each problem that it is good (its
lines rise from its number, and belong to its test case) and of two neighbours that
the lines of one come before those of the other. `MatchInv` is the inductive form of
`MatchesFound`: each line that matches is reported, pending, or explained by an
earlier line (`Explains`); `KeepInv` says that a matcher that is pending has been so
since a line of a known problem. What is known stays so, perhaps as a part of another
problem (`Covered`), when problems are merged. The
least and greatest elements that the definitions choose exist by well-foundedness
of the subset order on finite sets.

### Only model-checked

* Liveness (`AbortEnds`, `AbortReturns`, `TestEnds`), which is out of reach of the
  prover. Every other property of the runs that pass is a theorem.
* What `SelectSeq`, `SortSeq` and other recursive operators of the libraries compute
  for every sequence is out of reach, since it is proved by induction over data. The
  definitions that the proofs are about are in closed form instead: `Sorted`,
  `Permutations2`, `SetOps`, `Only`.

## 5. Not modelled, and why

* `list-states`, `view-state`, `check-states` only read. What state files contain
  is not modelled: the properties are about files.
* Regular expressions and texts of the filter and of the log parser; messages and
  comments of failures; the times of log lines.
* `.load` files with operations of their own, `.src` files, `test_template_union`:
  XMNR writes none and never asks for it.
* The user's device driver: see `Devcli`. `Devcli.get_config()`, which nothing
  calls. In `CliConversion`, skipping of conflicting states (it is in `StateStore`),
  and which lines of output go to the CLI.
* A script that ends with an exception, or is killed, may leave the device
  configured; the code says so where it raises (`cli2netconf.py:74`) and the
  properties speak about scripts that end well.
* The walker: the conditions of its pruning rules, the values of a leaf, the YANG
  helpers of `node.py`, and `test_walk_saved`, which loads files that an earlier walk
  has written.
* The choice of what to explore (shuffling, state-set filter, stop-after arithmetic)
  is a parameter of `Transitions`: arithmetic and text, without state.
* Setup (I): copying the skeleton and writing device files, a straight line of
  system calls; its child processes are a plan of `XmnrAction`.
* Coverage (J), the other DrNED tests and tools, the startup check, completion and
  the YANG model (K): one DrNED run or none, and text processing.
* Devices are not exclusive: two sessions may run DrNED on one device at a time.
  The code does not forbid it. `RollbackHistory` has commits of other sessions, but
  not on the device tested; the other models of runs have one session.
* An abort that comes before `cb_action` has registered its handler finds none and
  does nothing (`action.py:71`); whether NSO ever calls it that early is not known.

## 6. Plan

Done: all the modules above. What is left, in this order:

1. The state-set filter and the stop-after arithmetic as operators, checked against
   reference definitions.
2. Setup: the steps of `setup-xmnr` around its child processes.
3. Two runs of DrNED on one device, which share its run directory.
