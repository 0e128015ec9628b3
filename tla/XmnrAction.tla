----------------------------- MODULE XmnrAction -----------------------------
(***************************************************************************)
(* The life of an XMNR action inside the NSO Python VM: the dispatcher     *)
(* ActionHandler (python/drned_xmnr/action.py) and the part of ActionBase  *)
(* (python/drned_xmnr/op/base_op.py) that every operation shares: running  *)
(* a child process, reading its output, the silence timeout, and abort.    *)
(*                                                                         *)
(* Three kinds of actors run concurrently for one action:                  *)
(*   - the worker thread, in cb_action (program counter wpc);              *)
(*   - a thread in cb_abort, when NSO aborts the action (counter apc);     *)
(*   - the child process, DrNED's pytest or `make' (state proc).           *)
(* A handler object is created for each action request, so that a handler  *)
(* also names its request; Usid maps it to the user session that sent it.  *)
(* A session sends its requests one after another.                         *)
(***************************************************************************)
EXTENDS Naturals, Sequences

CONSTANTS
  Handlers,     (* action requests, and the handler objects made for them   *)
  Sessions,     (* NSO user sessions                                        *)
  Usid,         (* uinfo.usid: the session that sent a request              *)
  Plans,        (* child processes an operation starts, in order            *)
  PipeSize,     (* half lines the stdout pipe of a child process holds      *)
  OutputErrors, (* processing the output may raise an exception             *)
  NoHandler     (* "None" of running_handlers.get()                         *)

(***************************************************************************)
(* "drned": run_in_drned_env(), "make": SetupOp.setup_drned().  Only       *)
(* setup-xmnr runs `make', and it does so first.                           *)
(***************************************************************************)
Job == {"drned", "make"}

ASSUME XmnrActionAssumption ==
  /\ Usid \in [Handlers -> Sessions]
  /\ Plans \subseteq Seq(Job)
  /\ PipeSize \in Nat \ {0}
  /\ OutputErrors \in BOOLEAN
  /\ NoHandler \notin Handlers

ASSUME MakeFirstAssumption ==
  \A p \in Plans : \A i \in 2..Len(p) : p[i] = "drned"

VARIABLES
  running_handlers,  \* the dictionary of ActionHandler, usid -> handler
  wpc,               \* where the worker thread of a request is
  todo,              \* child processes still to be run, the current one first
  outcome,           \* how perform_action() ended
  aborted,           \* ActionBase.aborted
  abort_lock,        \* ActionBase.abort_lock is taken
  drned_process,     \* ActionBase.drned_process is not None
  proc,              \* the last child process a handler started
  pipe,              \* half lines in the child's stdout pipe, not read yet
  partial,           \* Progressor.buf holds the beginning of a line
  pending,           \* complete lines the worker has read and not handled yet
  after,             \* where the worker goes when no line is pending
  apc,               \* where the abort thread of a request is
  target             \* the handler this abort thread found

worker == <<wpc, todo, outcome, pending, after>>
child  == <<proc, pipe, partial>>
abort  == <<apc, target>>
vars   == <<running_handlers, worker, aborted, abort_lock, drned_process,
            child, abort>>
----------------------------------------------------------------------------
WorkerPC == {"start", "construct", "register", "perform", "lock", "check",
             "popen", "popen_make", "poll", "select", "read", "line", "cli",
             "sigint", "wait", "finally", "unregister", "replied"}
AbortPC  == {"idle", "lookup", "lock", "check", "sigint", "wait", "kill",
             "unlock", "done", "error"}

TypeOK ==
  /\ running_handlers \in [Sessions -> Handlers \cup {NoHandler}]
  /\ wpc \in [Handlers -> WorkerPC]
  /\ todo \in [Handlers -> Seq(Job)]
  /\ outcome \in [Handlers -> {"none", "ok", "error", "raised"}]
  /\ aborted \in [Handlers -> BOOLEAN]
  /\ abort_lock \in [Handlers -> BOOLEAN]
  /\ drned_process \in [Handlers -> BOOLEAN]
  /\ proc \in [Handlers -> {"none", "running", "interrupted", "dead"}]
  /\ pipe \in [Handlers -> 0..PipeSize]
  /\ partial \in [Handlers -> 0..1]
  /\ pending \in [Handlers -> Nat]
  /\ after \in [Handlers -> {"poll", "sigint"}]
  /\ apc \in [Handlers -> AbortPC]
  /\ target \in [Handlers -> Handlers \cup {NoHandler}]

Init ==
  /\ running_handlers = [u \in Sessions |-> NoHandler]
  /\ wpc = [h \in Handlers |-> "start"]
  /\ todo \in [Handlers -> Plans]
  /\ outcome = [h \in Handlers |-> "none"]
  /\ aborted = [h \in Handlers |-> FALSE]
  /\ abort_lock = [h \in Handlers |-> FALSE]
  /\ drned_process = [h \in Handlers |-> FALSE]
  /\ proc = [h \in Handlers |-> "none"]
  /\ pipe = [h \in Handlers |-> 0]
  /\ partial = [h \in Handlers |-> 0]
  /\ pending = [h \in Handlers |-> 0]
  /\ after = [h \in Handlers |-> "poll"]
  /\ apc = [h \in Handlers |-> "idle"]
  /\ target = [h \in Handlers |-> NoHandler]

\* The child process has neither exited nor been killed.
Alive(h) == proc[h] \in {"running", "interrupted"}

\* send_signal(SIGINT): a process that is gone is not signalled.
Interrupt(h) ==
  proc' = IF Alive(h) THEN [proc EXCEPT ![h] = "interrupted"] ELSE proc

\* kill()
Kill(h) ==
  proc' = IF Alive(h) THEN [proc EXCEPT ![h] = "dead"] ELSE proc

Goto(h, pc) == wpc' = [wpc EXCEPT ![h] = pc]

\* perform_action() ends with `o', and control is at `pc'.
End(h, o, pc) ==
  /\ outcome' = [outcome EXCEPT ![h] = o]
  /\ Goto(h, pc)

----------------------------------------------------------------------------
(* The worker thread: ActionHandler.cb_action                              *)

\* NSO calls cb_action; the session has no other action in progress.
CbAction(h) ==
  /\ wpc[h] = "start"
  /\ \A g \in Handlers : Usid[g] = Usid[h] => wpc[g] \in {"start", "replied"}
  /\ Goto(h, "construct")
  /\ UNCHANGED <<running_handlers, todo, outcome, pending, after, aborted,
                 abort_lock, drned_process, child, abort>>

\* handler_cls(...): reading the configuration or the parameters may fail.
Construct(h) ==
  /\ wpc[h] = "construct"
  /\ \/ Goto(h, "register") /\ UNCHANGED outcome
     \/ End(h, "error", "unregister")
  /\ UNCHANGED <<running_handlers, todo, pending, after, aborted, abort_lock,
                 drned_process, child, abort>>

Register(h) ==
  /\ wpc[h] = "register"
  /\ running_handlers' = [running_handlers EXCEPT ![Usid[h]] = h]
  /\ Goto(h, "perform")
  /\ UNCHANGED <<todo, outcome, pending, after, aborted, abort_lock,
                 drned_process, child, abort>>

\* The operation goes on to its next child process, succeeds, or fails
\* outside of a child process.
Perform(h) ==
  /\ wpc[h] = "perform"
  /\ \/ /\ todo[h] = <<>>
        /\ End(h, "ok", "unregister")
     \/ /\ todo[h] # <<>>
        /\ Goto(h, IF Head(todo[h]) = "make" THEN "popen_make" ELSE "lock")
        /\ UNCHANGED outcome
     \/ End(h, "error", "unregister")
  /\ UNCHANGED <<running_handlers, todo, pending, after, aborted, abort_lock,
                 drned_process, child, abort>>

\* Mutant: the entry is deleted on the way out of a successful action only.
UnregisterOnSuccess(h) ==
  /\ wpc[h] = "unregister"
  /\ running_handlers' = IF outcome[h] = "ok"
                         THEN [running_handlers EXCEPT ![Usid[h]] = NoHandler]
                         ELSE running_handlers
  /\ Goto(h, "replied")
  /\ UNCHANGED <<todo, outcome, pending, after, aborted, abort_lock,
                 drned_process, child, abort>>

\* The "finally" clause of cb_action: whatever is there for the session goes.
Unregister(h) ==
  /\ wpc[h] = "unregister"
  /\ running_handlers' = [running_handlers EXCEPT ![Usid[h]] = NoHandler]
  /\ Goto(h, "replied")
  /\ UNCHANGED <<todo, outcome, pending, after, aborted, abort_lock,
                 drned_process, child, abort>>

----------------------------------------------------------------------------
(* The worker thread: ActionBase.run_in_drned_env and SetupOp.setup_drned  *)

\* Mutant: the test and Popen() are not under abort_lock.
LockForPopenUnlocked(h) ==
  /\ wpc[h] = "lock"
  /\ Goto(h, "check")
  /\ UNCHANGED <<running_handlers, todo, outcome, pending, after, aborted,
                 abort_lock, drned_process, child, abort>>

\* "with self.abort_lock:"
LockForPopen(h) ==
  /\ wpc[h] = "lock"
  /\ ~abort_lock[h]
  /\ abort_lock' = [abort_lock EXCEPT ![h] = TRUE]
  /\ Goto(h, "check")
  /\ UNCHANGED <<running_handlers, todo, outcome, pending, after, aborted,
                 drned_process, child, abort>>

\* Mutant: abort_lock covers the test of the flag and not Popen().
CheckAbortedThenUnlock(h) ==
  /\ wpc[h] = "check"
  /\ abort_lock' = [abort_lock EXCEPT ![h] = FALSE]
  /\ IF aborted[h] THEN End(h, "error", "finally")
                   ELSE Goto(h, "popen") /\ UNCHANGED outcome
  /\ UNCHANGED <<running_handlers, todo, pending, after, aborted,
                 drned_process, child, abort>>

\* "action aborted" is raised, and leaves the lock, when the flag is set.
CheckAborted(h) ==
  /\ wpc[h] = "check"
  /\ \/ /\ aborted[h]
        /\ abort_lock' = [abort_lock EXCEPT ![h] = FALSE]
        /\ End(h, "error", "finally")
     \/ /\ ~aborted[h]
        /\ Goto(h, "popen")
        /\ UNCHANGED <<abort_lock, outcome>>
  /\ UNCHANGED <<running_handlers, todo, pending, after, aborted,
                 drned_process, child, abort>>

\* subprocess.Popen() returns a running process with an empty pipe, and a
\* Progressor is made for it.
StartProcess(h) ==
  /\ drned_process' = [drned_process EXCEPT ![h] = TRUE]
  /\ proc' = [proc EXCEPT ![h] = "running"]
  /\ pipe' = [pipe EXCEPT ![h] = 0]
  /\ partial' = [partial EXCEPT ![h] = 0]
  /\ Goto(h, "poll")
  /\ UNCHANGED outcome

\* Mutant: OSError from Popen() leaves the lock taken.
PopenKeepsLock(h) ==
  /\ wpc[h] = "popen"
  /\ \/ /\ StartProcess(h)
        /\ abort_lock' = [abort_lock EXCEPT ![h] = FALSE]
     \/ End(h, "error", "finally") /\ UNCHANGED <<drned_process, child, abort_lock>>
  /\ UNCHANGED <<running_handlers, todo, pending, after, aborted, abort>>

\* Popen() under the lock, or OSError.
Popen(h) ==
  /\ wpc[h] = "popen"
  /\ abort_lock' = [abort_lock EXCEPT ![h] = FALSE]
  /\ \/ StartProcess(h)
     \/ End(h, "error", "finally") /\ UNCHANGED <<drned_process, child>>
  /\ UNCHANGED <<running_handlers, todo, pending, after, aborted, abort>>

\* SetupOp.setup_drned() takes no lock and does not look at the flag.
PopenMake(h) ==
  /\ wpc[h] = "popen_make"
  /\ \/ StartProcess(h)
     \/ End(h, "error", "unregister") /\ UNCHANGED <<drned_process, child>>
  /\ UNCHANGED <<running_handlers, todo, pending, after, aborted, abort_lock,
                 abort>>

\* The head of the loop in proc_run(): a process that has exited ends it.
Poll(h) ==
  /\ wpc[h] = "poll"
  /\ Goto(h, IF Alive(h) THEN "select" ELSE "finally")
  /\ UNCHANGED <<running_handlers, todo, outcome, pending, after, aborted,
                 abort_lock, drned_process, child, abort>>

\* select() reports output or, when the process is gone, end of file.
SelectReady(h) ==
  /\ wpc[h] = "select"
  /\ pipe[h] > 0 \/ ~Alive(h)
  /\ Goto(h, "read")
  /\ UNCHANGED <<running_handlers, todo, outcome, pending, after, aborted,
                 abort_lock, drned_process, child, abort>>

\* select() times out; "Silence timeout, terminating process" is a progress
\* message like a line of output, then terminate_drned_process() is called.
SelectTimeout(h) ==
  /\ wpc[h] = "select"
  /\ pipe[h] = 0 /\ Alive(h)
  /\ pending' = [pending EXCEPT ![h] = 1]
  /\ after' = [after EXCEPT ![h] = "sigint"]
  /\ Goto(h, "line")
  /\ UNCHANGED <<running_handlers, todo, outcome, aborted, abort_lock,
                 drned_process, child, abort>>

\* Mutant: Progressor keeps the line it has just passed on.
ReadKeepsLine(h) ==
  LET halves == partial[h] + pipe[h]
  IN /\ wpc[h] = "read"
     /\ pipe' = [pipe EXCEPT ![h] = 0]
     /\ partial' = [partial EXCEPT ![h] = halves]
     /\ pending' = [pending EXCEPT ![h] = halves \div 2]
     /\ after' = [after EXCEPT ![h] = "poll"]
     /\ Goto(h, "line")
     /\ UNCHANGED <<running_handlers, todo, outcome, aborted, abort_lock,
                    drned_process, proc, abort>>

\* read() takes all there is in the pipe; Progressor.progress() cuts it to
\* lines and keeps the rest.  setup_drned() drops the output.
Read(h) ==
  LET halves == partial[h] + pipe[h]
  IN /\ wpc[h] = "read"
     /\ pipe' = [pipe EXCEPT ![h] = 0]
     /\ IF Head(todo[h]) = "make"
        THEN UNCHANGED <<partial, pending>>
        ELSE /\ partial' = [partial EXCEPT ![h] = halves % 2]
             /\ pending' = [pending EXCEPT ![h] = halves \div 2]
     /\ after' = [after EXCEPT ![h] = "poll"]
     /\ Goto(h, "line")
     /\ UNCHANGED <<running_handlers, todo, outcome, aborted, abort_lock,
                    drned_process, proc, abort>>

\* progress_msg() of one line, up to the test of the flag in cli_write().  The
\* output filter may also have nothing to write for this line.
CheckCli(h) ==
  /\ wpc[h] = "line"
  /\ IF pending[h] = 0
     THEN Goto(h, after[h]) /\ UNCHANGED pending
     ELSE \/ ~aborted[h] /\ Goto(h, "cli") /\ UNCHANGED pending
          \/ /\ pending' = [pending EXCEPT ![h] = @ - 1]
             /\ UNCHANGED wpc
  /\ UNCHANGED <<running_handlers, todo, outcome, after, aborted, abort_lock,
                 drned_process, child, abort>>

\* CliLogger.log(), once the flag was seen to be unset.
WriteCli(h) ==
  /\ wpc[h] = "cli"
  /\ pending' = [pending EXCEPT ![h] = @ - 1]
  /\ Goto(h, "line")
  /\ UNCHANGED <<running_handlers, todo, outcome, after, aborted, abort_lock,
                 drned_process, child, abort>>

\* Decoding the output, the output filter, a log, or asking NSO to extend its
\* timeout may raise an exception.
OutputFails(h) ==
  /\ OutputErrors
  /\ wpc[h] \in {"read", "line", "cli"}
  /\ wpc[h] = "line" => pending[h] > 0 \/ after[h] = "poll"
  /\ End(h, "raised", "finally")
  /\ pending' = [pending EXCEPT ![h] = 0]
  /\ UNCHANGED <<running_handlers, todo, after, aborted, abort_lock,
                 drned_process, child, abort>>

\* terminate_drned_process() called by the worker itself, without the lock.
SilenceSigint(h) ==
  /\ wpc[h] = "sigint"
  /\ Interrupt(h)
  /\ Goto(h, "wait")
  /\ UNCHANGED <<running_handlers, todo, outcome, pending, after, aborted,
                 abort_lock, drned_process, pipe, partial, abort>>

\* Mutant: the loop is left after the silence timeout, and SIGINT trusted.
SilenceLeavesLoop(h) ==
  /\ wpc[h] = "wait"
  /\ Goto(h, "finally")
  /\ UNCHANGED <<running_handlers, todo, outcome, pending, after, aborted,
                 abort_lock, drned_process, child, abort>>

\* wait(cleanup_timeout): the process exits, or TimeoutExpired and kill().
SilenceWait(h) ==
  /\ wpc[h] = "wait"
  /\ Kill(h)
  /\ Goto(h, "poll")
  /\ UNCHANGED <<running_handlers, todo, outcome, pending, after, aborted,
                 abort_lock, drned_process, pipe, partial, abort>>

\* proc_run() returns or raises.  The "finally" clause of run_in_drned_env()
\* forgets the process and with it the pipe and what is left in it;
\* setup_drned() has no such clause, and fails unless `make' succeeds.
Finally(h) ==
  LET make == Head(todo[h]) = "make"
  IN /\ wpc[h] = "finally"
     /\ IF make
        THEN UNCHANGED <<drned_process, pipe, partial>>
        ELSE /\ drned_process' = [drned_process EXCEPT ![h] = FALSE]
             /\ pipe' = [pipe EXCEPT ![h] = 0]
             /\ partial' = [partial EXCEPT ![h] = 0]
     /\ \/ /\ outcome[h] = "none"
           /\ todo' = [todo EXCEPT ![h] = Tail(@)]
           /\ Goto(h, "perform")
           /\ UNCHANGED outcome
        \/ /\ outcome[h] = "none" /\ make
           /\ End(h, "error", "unregister")
           /\ UNCHANGED todo
        \/ /\ outcome[h] # "none"
           /\ Goto(h, "unregister")
           /\ UNCHANGED <<todo, outcome>>
     /\ UNCHANGED <<running_handlers, pending, after, aborted, abort_lock,
                    proc, abort>>

----------------------------------------------------------------------------
(* The thread in ActionHandler.cb_abort                                    *)

\* NSO aborts an action it is still waiting for, once.
CbAbort(a) ==
  /\ apc[a] = "idle"
  /\ wpc[a] \notin {"start", "replied"}
  /\ apc' = [apc EXCEPT ![a] = "lookup"]
  /\ UNCHANGED <<running_handlers, worker, aborted, abort_lock, drned_process,
                 child, target>>

\* The handler registered for the session by now, if any.
Lookup(a) ==
  LET h == running_handlers[Usid[a]]
  IN /\ apc[a] = "lookup"
     /\ target' = [target EXCEPT ![a] = h]
     /\ apc' = [apc EXCEPT ![a] = IF h = NoHandler THEN "done" ELSE "lock"]
     /\ UNCHANGED <<running_handlers, worker, aborted, abort_lock,
                    drned_process, child>>

\* abort_action(): with abort_lock taken, the flag is set first.
SetAborted(a) ==
  LET h == target[a]
  IN /\ apc[a] = "lock"
     /\ ~abort_lock[h]
     /\ abort_lock' = [abort_lock EXCEPT ![h] = TRUE]
     /\ aborted' = [aborted EXCEPT ![h] = TRUE]
     /\ apc' = [apc EXCEPT ![a] = "check"]
     /\ UNCHANGED <<running_handlers, worker, drned_process, child, target>>

\* terminate_drned_process(): "if self.drned_process is None: return"
CheckProcess(a) ==
  /\ apc[a] = "check"
  /\ apc' = [apc EXCEPT ![a] =
               IF drned_process[target[a]] THEN "sigint" ELSE "unlock"]
  /\ UNCHANGED <<running_handlers, worker, aborted, abort_lock, drned_process,
                 child, target>>

AbortSigint(a) ==
  /\ apc[a] = "sigint"
  /\ drned_process[target[a]]
  /\ Interrupt(target[a])
  /\ apc' = [apc EXCEPT ![a] = "wait"]
  /\ UNCHANGED <<running_handlers, worker, aborted, abort_lock, drned_process,
                 pipe, partial, target>>

\* wait(cleanup_timeout) returns
AbortWait(a) ==
  /\ apc[a] = "wait"
  /\ ~Alive(target[a])
  /\ apc' = [apc EXCEPT ![a] = "unlock"]
  /\ UNCHANGED <<running_handlers, worker, aborted, abort_lock, drned_process,
                 child, target>>

\* Mutant: TimeoutExpired is ignored.
AbortGivesUp(a) ==
  /\ apc[a] = "wait"
  /\ Alive(target[a])
  /\ apc' = [apc EXCEPT ![a] = "unlock"]
  /\ UNCHANGED <<running_handlers, worker, aborted, abort_lock, drned_process,
                 child, target>>

\* wait(cleanup_timeout) raises TimeoutExpired
AbortTimeout(a) ==
  /\ apc[a] = "wait"
  /\ Alive(target[a])
  /\ apc' = [apc EXCEPT ![a] = "kill"]
  /\ UNCHANGED <<running_handlers, worker, aborted, abort_lock, drned_process,
                 child, target>>

AbortKill(a) ==
  /\ apc[a] = "kill"
  /\ drned_process[target[a]]
  /\ Kill(target[a])
  /\ apc' = [apc EXCEPT ![a] = "unlock"]
  /\ UNCHANGED <<running_handlers, worker, aborted, abort_lock, drned_process,
                 pipe, partial, target>>

\* self.drned_process is read anew for each of the three calls and the worker
\* sets it to None without the lock: AttributeError, out of the `with'.
ProcessVanished(a) ==
  /\ apc[a] \in {"sigint", "wait", "kill"}
  /\ ~drned_process[target[a]]
  /\ abort_lock' = [abort_lock EXCEPT ![target[a]] = FALSE]
  /\ apc' = [apc EXCEPT ![a] = "error"]
  /\ UNCHANGED <<running_handlers, worker, aborted, drned_process, child,
                 target>>

AbortUnlock(a) ==
  /\ apc[a] = "unlock"
  /\ abort_lock' = [abort_lock EXCEPT ![target[a]] = FALSE]
  /\ apc' = [apc EXCEPT ![a] = "done"]
  /\ UNCHANGED <<running_handlers, worker, aborted, drned_process, child,
                 target>>

----------------------------------------------------------------------------
(* The child process                                                       *)

\* Half a line of output, while there is room for it and a pipe.
ProcWrite(h) ==
  /\ Alive(h)
  /\ drned_process[h]
  /\ pipe[h] < PipeSize
  /\ pipe' = [pipe EXCEPT ![h] = @ + 1]
  /\ UNCHANGED <<running_handlers, worker, aborted, abort_lock, drned_process,
                 proc, partial, abort>>

ProcExit(h) ==
  /\ Alive(h)
  /\ proc' = [proc EXCEPT ![h] = "dead"]
  /\ UNCHANGED <<running_handlers, worker, aborted, abort_lock, drned_process,
                 pipe, partial, abort>>

----------------------------------------------------------------------------
WorkerStep(h) ==
  \/ Construct(h) \/ Register(h) \/ Perform(h) \/ Unregister(h)
  \/ LockForPopen(h) \/ CheckAborted(h) \/ Popen(h) \/ PopenMake(h)
  \/ Poll(h) \/ SelectReady(h) \/ SelectTimeout(h) \/ Read(h)
  \/ CheckCli(h) \/ WriteCli(h) \/ OutputFails(h)
  \/ SilenceSigint(h) \/ SilenceWait(h) \/ Finally(h)

AbortStep(a) ==
  \/ Lookup(a) \/ SetAborted(a) \/ CheckProcess(a) \/ AbortSigint(a)
  \/ AbortWait(a) \/ AbortTimeout(a) \/ AbortKill(a)
  \/ ProcessVanished(a) \/ AbortUnlock(a)

Next ==
  \E h \in Handlers : \/ CbAction(h) \/ WorkerStep(h)
                      \/ CbAbort(h) \/ AbortStep(h)
                      \/ ProcWrite(h) \/ ProcExit(h)

Spec == Init /\ [][Next]_vars

\* `make env.sh' is a short command that ends by itself.
MakeExits(h) == todo[h] # <<>> /\ Head(todo[h]) = "make" /\ ProcExit(h)

(***************************************************************************)
(* Python threads that can run do run, select() and wait() time out, and   *)
(* `make' ends.  Nothing is assumed of NSO, of the user or of DrNED, which *)
(* may hang, print for ever or ignore SIGINT.                              *)
(***************************************************************************)
Fairness ==
  \A h \in Handlers : /\ WF_vars(WorkerStep(h))
                      /\ WF_vars(AbortStep(h))
                      /\ WF_vars(MakeExits(h))

FairSpec == Spec /\ Fairness

----------------------------------------------------------------------------
(* Properties                                                              *)

WorkerHolds(h) == wpc[h] \in {"check", "popen"}
AbortHolds(a, h) ==
  target[a] = h /\ apc[a] \in {"check", "sigint", "wait", "kill", "unlock"}

\* abort_lock is taken exactly while the worker is between the test of
\* `aborted' and the end of Popen(), or one abort thread is in abort_action():
\* no two of them at once, and every way out (return, ActionError, OSError,
\* AttributeError) gives it back.
LockInv ==
  \A h \in Handlers :
    /\ abort_lock[h] <=> WorkerHolds(h) \/ \E a \in Handlers : AbortHolds(a, h)
    /\ WorkerHolds(h) => \A a \in Handlers : ~AbortHolds(a, h)
    /\ \A a, b \in Handlers : AbortHolds(a, h) /\ AbortHolds(b, h) => a = b

\* The child process escapes an abort: setup's `make' takes no part in the
\* protocol, and after an exception in the output processing the handler has
\* forgotten its process.
Unabortable(h) ==
  \/ outcome[h] = "raised"
  \/ todo[h] # <<>> /\ Head(todo[h]) = "make"

\* When abort_action() has returned, or died with AttributeError, the DrNED
\* process of the handler is gone, and none is started later.
AbortEffective ==
  \A a \in Handlers :
    apc[a] \in {"done", "error"} /\ target[a] # NoHandler
      => ~Alive(target[a]) \/ Unabortable(target[a])

\* No DrNED process is started once the flag of its handler is set, however
\* the abort interleaves with run_in_drned_env().
NoStartAfterAbort ==
  [][\A h \in Handlers :
       proc[h] # "running" /\ proc'[h] = "running"
         => ~aborted[h] \/ Unabortable(h)]_vars

\* An operation starts a child process only when its previous one is gone,
\* so that two DrNED runs of one action never meet on the device.
OneProcessAtATime ==
  [][\A h \in Handlers :
       wpc[h] \in {"popen", "popen_make"} /\ wpc'[h] = "poll"
         => ~Alive(h)]_vars

\* When the action replies, its child process is gone (so that the device is
\* free), unless an exception cut the output processing short.
NoProcessLeft ==
  \A h \in Handlers :
    wpc[h] = "replied" /\ Alive(h) => outcome[h] = "raised"

\* A process the abort thread kills is the one it has sent SIGINT to and
\* waited for, never one the worker has started in the meantime.
KillOnlyInterrupted ==
  [][\A a \in Handlers :
       apc[a] = "kill" /\ apc'[a] = "unlock"
         => proc[target[a]] # "running"]_vars

\* An abort finds the handler exactly while its request is between its
\* registration and the "finally" of cb_action; requests of one session do
\* not clobber each other's entry.
RegistryExact ==
  \A h \in Handlers :
    /\ running_handlers[Usid[h]] = h
         => wpc[h] \notin {"start", "construct", "register", "replied"}
    /\ wpc[h] \notin {"start", "construct", "register", "unregister", "replied"}
         => running_handlers[Usid[h]] = h

(***************************************************************************)
(* What NSO and the tester of a device count on, as DeviceRun states it.   *)
(* A DrNED process keeps its device busy as long as the handler takes care *)
(* of it: see Unabortable.                                                 *)
(***************************************************************************)
phase == [h \in Handlers |-> IF wpc[h] = "start" THEN "asked"
                             ELSE IF wpc[h] = "replied" THEN "over" ELSE "active"]

busy == {h \in Handlers : Alive(h) /\ ~Unabortable(h)}

stopped == {h \in Handlers :
              \E a \in Handlers : target[a] = h /\ apc[a] \in {"done", "error"}}

DR == INSTANCE DeviceRun WITH
        Runs <- Handlers, phase <- phase, busy <- busy, stopped <- stopped

\* The handlers, threads and child processes implement DeviceRun: the device
\* is busy only during an action, and after an abort returned it stays free.
ImplementsDeviceRun == DR!Spec

\* An aborted action comes to its end, whatever DrNED does.
AbortEnds == \A h \in Handlers : aborted[h] ~> wpc[h] = "replied"

\* cb_abort returns: it waits neither for a lock nor for a process for ever.
AbortReturns ==
  \A a \in Handlers : apc[a] = "lookup" ~> apc[a] \in {"done", "error"}

----------------------------------------------------------------------------
(* What a comment or a docstring says, and the code does not keep          *)

\* transitions_op.py:63 "Lines from the DrNED output need all to be processed
\* by the filtering event processor": when proc_run() returns, no complete
\* line is left behind in the pipe.
AllLinesProcessed ==
  \A h \in Handlers :
    (wpc[h] = "finally" /\ outcome[h] = "none" /\ ~aborted[h])
      => (Head(todo[h]) = "drned" => partial[h] + pipe[h] < 2)

=============================================================================
