-------------------------- MODULE XmnrActionProofs --------------------------
(***************************************************************************)
(* Proofs about XmnrAction, for any number of requests and sessions, any   *)
(* plans and any size of the pipe; at the end, that it implements          *)
(* DeviceRun, and what that takes: the registry is exact, and an abort     *)
(* does not meet a process that was started behind its back.               *)
(***************************************************************************)
EXTENDS XmnrAction, SequenceTheorems, TLAPS

(***************************************************************************)
(* The inductive form of TypeOK: a worker that runs a child process has it *)
(* at the head of `todo', and one that writes to the CLI has a line.       *)
(***************************************************************************)
WorkerInv ==
  \A h \in Handlers :
    /\ wpc[h] \notin {"start", "construct", "register", "perform",
                      "unregister", "replied"} => todo[h] # <<>>
    /\ wpc[h] = "cli" => pending[h] > 0

TypeInv == TypeOK /\ WorkerInv

\* What Progressor keeps and passes on, in half lines and lines.
LEMMA HalfLines ==
  ASSUME NEW p \in 0..1, NEW q \in Nat
  PROVE  (p + q) % 2 \in 0..1 /\ (p + q) \div 2 \in Nat
OBVIOUS

\* Every step keeps TypeInv.
LEMMA TypeStep == TypeInv /\ [Next]_vars => TypeInv'
<1> SUFFICES ASSUME TypeInv, [Next]_vars
             PROVE  TypeInv'
  OBVIOUS
<1> USE XmnrActionAssumption
    DEF TypeInv, TypeOK, WorkerInv, WorkerPC, AbortPC, child, abort, worker,
        Goto, End
<1>1. ASSUME NEW h \in Handlers, CbAction(h)
      PROVE  TypeInv'
  BY <1>1 DEF CbAction
<1>2. ASSUME NEW h \in Handlers, Construct(h)
      PROVE  TypeInv'
  <2>1. CASE Goto(h, "register") /\ UNCHANGED outcome
    BY <1>2, <2>1 DEF Construct
  <2>2. CASE End(h, "error", "unregister")
    BY <1>2, <2>2 DEF Construct
  <2>3. QED
    BY <1>2, <2>1, <2>2 DEF Construct
<1>3. ASSUME NEW h \in Handlers, Register(h)
      PROVE  TypeInv'
  BY <1>3 DEF Register
<1>4. ASSUME NEW h \in Handlers, Perform(h)
      PROVE  TypeInv'
  <2>1. CASE todo[h] = <<>> /\ End(h, "ok", "unregister")
    BY <1>4, <2>1 DEF Perform
  <2>2. CASE /\ todo[h] # <<>>
            /\ Goto(h,
               IF Head(todo[h]) = "make" THEN "popen_make" ELSE "lock")
            /\ UNCHANGED outcome
    BY <1>4, <2>2 DEF Perform
  <2>3. CASE End(h, "error", "unregister")
    BY <1>4, <2>3 DEF Perform
  <2>4. QED
    BY <1>4, <2>1, <2>2, <2>3 DEF Perform
<1>5. ASSUME NEW h \in Handlers, Unregister(h)
      PROVE  TypeInv'
  BY <1>5 DEF Unregister
<1>6. ASSUME NEW h \in Handlers, LockForPopen(h)
      PROVE  TypeInv'
  BY <1>6 DEF LockForPopen
<1>7. ASSUME NEW h \in Handlers, CheckAborted(h)
      PROVE  TypeInv'
  <2>1. CASE aborted[h]
    <3>1. TypeOK'
      BY <1>7, <2>1 DEF CheckAborted
    <3>2. WorkerInv'
      BY <1>7, <2>1 DEF CheckAborted
    <3>3. QED
      BY <3>1, <3>2
  <2>2. CASE ~aborted[h]
    BY <1>7, <2>2 DEF CheckAborted
  <2>3. QED
    BY <1>7, <2>1, <2>2 DEF CheckAborted
<1>8. ASSUME NEW h \in Handlers, Popen(h)
      PROVE  TypeInv'
  <2>1. CASE StartProcess(h)
    <3>1. TypeOK'
      BY <1>8, <2>1 DEF Popen, StartProcess
    <3>2. WorkerInv'
      BY <1>8, <2>1 DEF Popen, StartProcess
    <3>3. QED
      BY <3>1, <3>2
  <2>2. CASE ~StartProcess(h)
    <3>1. TypeOK'
      BY <1>8, <2>2 DEF Popen
    <3>2. WorkerInv'
      BY <1>8, <2>2 DEF Popen
    <3>3. QED
      BY <3>1, <3>2
  <2>3. QED
    BY <2>1, <2>2
<1>9. ASSUME NEW h \in Handlers, PopenMake(h)
      PROVE  TypeInv'
  <2>1. CASE StartProcess(h)
    <3>1. TypeOK'
      BY <1>9, <2>1 DEF PopenMake, StartProcess
    <3>2. WorkerInv'
      BY <1>9, <2>1 DEF PopenMake, StartProcess
    <3>3. QED
      BY <3>1, <3>2
  <2>2. CASE ~StartProcess(h)
    <3>1. TypeOK'
      BY <1>9, <2>2 DEF PopenMake
    <3>2. WorkerInv'
      BY <1>9, <2>2 DEF PopenMake
    <3>3. QED
      BY <3>1, <3>2
  <2>3. QED
    BY <2>1, <2>2
<1>10. ASSUME NEW h \in Handlers, Poll(h)
      PROVE  TypeInv'
  BY <1>10 DEF Poll
<1>11. ASSUME NEW h \in Handlers, SelectReady(h)
      PROVE  TypeInv'
  BY <1>11 DEF SelectReady
<1>12. ASSUME NEW h \in Handlers, SelectTimeout(h)
      PROVE  TypeInv'
  BY <1>12 DEF SelectTimeout
<1>13. ASSUME NEW h \in Handlers, Read(h)
      PROVE  TypeInv'
  <2> DEFINE halves == partial[h] + pipe[h]
  <2>1. halves % 2 \in 0..1 /\ halves \div 2 \in Nat
    <3>1. partial[h] \in 0..1 /\ pipe[h] \in Nat
      BY <1>13
    <3>2. QED
      BY <3>1, HalfLines
  <2>2. TypeOK'
    <3>1. CASE Head(todo[h]) = "make"
      BY <1>13, <3>1 DEF Read
    <3>2. CASE Head(todo[h]) # "make"
      <4> HIDE DEF halves
      <4>1. /\ partial' = [partial EXCEPT ![h] = halves % 2]
            /\ pending' = [pending EXCEPT ![h] = halves \div 2]
        BY <1>13, <3>2 DEF Read, halves
      <4>2. QED
        BY <1>13, <2>1, <4>1 DEF Read
    <3>3. QED
      BY <3>1, <3>2
  <2>3. WorkerInv'
    <3>1. /\ wpc[h] = "read"
          /\ wpc' = [wpc EXCEPT ![h] = "line"]
          /\ todo' = todo
          /\ \A g \in Handlers : g # h => pending'[g] = pending[g]
      BY <1>13 DEF Read
    <3>2. QED
      BY <3>1
  <2>4. QED
    BY <2>2, <2>3
<1>14. ASSUME NEW h \in Handlers, CheckCli(h)
      PROVE  TypeInv'
  <2>1. /\ wpc[h] = "line"
        /\ UNCHANGED <<todo, after>>
        /\ \/ pending[h] = 0 /\ Goto(h, after[h]) /\ pending' = pending
           \/ pending[h] # 0 /\ Goto(h, "cli") /\ pending' = pending
           \/ /\ pending[h] # 0 /\ wpc' = wpc
              /\ pending' = [pending EXCEPT ![h] = pending[h] - 1]
    BY <1>14 DEF CheckCli
  <2>2. /\ wpc' \in [Handlers -> WorkerPC]
        /\ pending' \in [Handlers -> Nat]
    <3>1. pending[h] \in Nat /\ after[h] \in WorkerPC
      BY <1>14
    <3>2. wpc' \in [Handlers -> WorkerPC]
      BY <2>1, <3>1
    <3>3. pending[h] # 0 => pending[h] - 1 \in Nat
      BY <3>1
    <3>4. pending' \in [Handlers -> Nat]
      BY <2>1, <3>3
    <3>5. QED
      BY <3>2, <3>4
  <2>3. TypeOK'
    BY <1>14, <2>2 DEF CheckCli
  <2>4. WorkerInv'
    <3>1. wpc'[h] = "cli" => pending'[h] > 0
      <4>1. after[h] # "cli" /\ pending[h] \in Nat
        BY <1>14
      <4>2. CASE pending[h] = 0
        BY <1>14, <2>1, <4>1, <4>2
      <4>3. CASE pending[h] # 0
        BY <1>14, <2>1, <4>1, <4>3
      <4>4. QED
        BY <4>2, <4>3
    <3>2. \A g \in Handlers : g # h => wpc'[g] = wpc[g] /\ pending'[g] = pending[g]
      BY <1>14, <2>1
    <3>3. todo' = todo /\ todo[h] # <<>>
      BY <1>14, <2>1
    <3>4. QED
      BY <3>1, <3>2, <3>3
  <2>5. QED
    BY <2>3, <2>4
<1>15. ASSUME NEW h \in Handlers, WriteCli(h)
      PROVE  TypeInv'
  BY <1>15 DEF WriteCli
<1>16. ASSUME NEW h \in Handlers, OutputFails(h)
      PROVE  TypeInv'
  BY <1>16 DEF OutputFails
<1>17. ASSUME NEW h \in Handlers, SilenceSigint(h)
      PROVE  TypeInv'
  BY <1>17 DEF SilenceSigint, Interrupt
<1>18. ASSUME NEW h \in Handlers, SilenceWait(h)
      PROVE  TypeInv'
  BY <1>18 DEF SilenceWait, Kill
<1>19. ASSUME NEW h \in Handlers, Finally(h)
      PROVE  TypeInv'
  <2>1. todo[h] # <<>> /\ todo[h] \in Seq(Job)
    BY <1>19 DEF Finally
  <2>2. Tail(todo[h]) \in Seq(Job)
    BY <2>1, HeadTailProperties
  <2>3. /\ drned_process' \in [Handlers -> BOOLEAN]
        /\ pipe' \in [Handlers -> 0..PipeSize]
        /\ partial' \in [Handlers -> 0..1]
    <3>1. CASE Head(todo[h]) = "make"
      BY <1>19, <3>1 DEF Finally
    <3>2. CASE Head(todo[h]) # "make"
      <4>1. /\ drned_process' = [drned_process EXCEPT ![h] = FALSE]
            /\ pipe' = [pipe EXCEPT ![h] = 0]
            /\ partial' = [partial EXCEPT ![h] = 0]
        BY <1>19, <3>2 DEF Finally
      <4>2. QED
        BY <4>1
    <3>3. QED
      BY <3>1, <3>2
  <2>4. /\ todo' \in [Handlers -> Seq(Job)]
        /\ outcome' \in [Handlers -> {"none", "ok", "error", "raised"}]
        /\ wpc' \in [Handlers -> WorkerPC]
        /\ wpc'[h] \in {"perform", "unregister"}
        /\ \A g \in Handlers : g # h => wpc'[g] = wpc[g] /\ todo'[g] = todo[g]
    <3>1. \/ /\ todo' = [todo EXCEPT ![h] = Tail(todo[h])]
             /\ wpc' = [wpc EXCEPT ![h] = "perform"]
             /\ outcome' = outcome
          \/ /\ todo' = todo
             /\ wpc' = [wpc EXCEPT ![h] = "unregister"]
             /\ \/ outcome' = outcome
                \/ outcome' = [outcome EXCEPT ![h] = "error"]
      BY <1>19 DEF Finally
    <3>2. todo' \in [Handlers -> Seq(Job)]
      <4>1. CASE todo' = [todo EXCEPT ![h] = Tail(todo[h])]
        BY <2>2, <4>1
      <4>2. CASE todo' = todo
        BY <4>2
      <4>3. QED
        BY <3>1, <4>1, <4>2
    <3>3. /\ outcome' \in [Handlers -> {"none", "ok", "error", "raised"}]
          /\ wpc' \in [Handlers -> WorkerPC]
      BY <3>1
    <3>4. /\ wpc'[h] \in {"perform", "unregister"}
          /\ \A g \in Handlers : g # h => wpc'[g] = wpc[g] /\ todo'[g] = todo[g]
      BY <1>19, <3>1
    <3>5. QED
      BY <3>2, <3>3, <3>4
  <2>5. TypeOK'
    BY <1>19, <2>3, <2>4 DEF Finally
  <2>6. WorkerInv'
    BY <1>19, <2>4 DEF Finally
  <2>7. QED
    BY <2>5, <2>6
<1>20. ASSUME NEW a \in Handlers, CbAbort(a)
      PROVE  TypeInv'
  BY <1>20 DEF CbAbort
<1>21. ASSUME NEW a \in Handlers, AbortStep(a)
      PROVE  TypeInv'
  <2>1. CASE Lookup(a)
    BY <2>1 DEF Lookup
  <2>2. CASE SetAborted(a)
    BY <2>2 DEF SetAborted
  <2>3. CASE CheckProcess(a)
    BY <2>3 DEF CheckProcess
  <2>4. CASE AbortSigint(a)
    BY <2>4 DEF AbortSigint, Interrupt
  <2>5. CASE AbortWait(a)
    BY <2>5 DEF AbortWait
  <2>6. CASE AbortTimeout(a)
    BY <2>6 DEF AbortTimeout
  <2>7. CASE AbortKill(a)
    BY <2>7 DEF AbortKill, Kill
  <2>8. CASE ProcessVanished(a)
    BY <2>8 DEF ProcessVanished
  <2>9. CASE AbortUnlock(a)
    BY <2>9 DEF AbortUnlock
  <2>10. QED
    BY <1>21, <2>1, <2>2, <2>3, <2>4, <2>5, <2>6, <2>7, <2>8, <2>9
       DEF AbortStep
<1>22. ASSUME NEW h \in Handlers, ProcWrite(h)
      PROVE  TypeInv'
  BY <1>22 DEF ProcWrite
<1>23. ASSUME NEW h \in Handlers, ProcExit(h)
      PROVE  TypeInv'
  BY <1>23 DEF ProcExit
<1>24. CASE UNCHANGED vars
  BY <1>24 DEF vars
<1>25. QED
  BY <1>1, <1>2, <1>3, <1>4, <1>5, <1>6, <1>7, <1>8, <1>9, <1>10, <1>11,
     <1>12, <1>13, <1>14, <1>15, <1>16, <1>17, <1>18, <1>19, <1>20, <1>21,
     <1>22, <1>23, <1>24
     DEF Next, WorkerStep

\* The dispatcher, the worker, the abort thread and the child process keep
\* every variable within its type.
THEOREM TypeCorrect == Spec => []TypeOK
<1>1. Init => TypeInv
  BY XmnrActionAssumption DEF Init, TypeInv, TypeOK, WorkerInv, WorkerPC,
                              AbortPC
<1>2. TypeInv => TypeOK
  BY DEF TypeInv
<1>3. QED
  BY <1>1, <1>2, TypeStep, PTL DEF Spec

----------------------------------------------------------------------------
(***************************************************************************)
(* The inductive invariant behind the safety properties of an abort.       *)
(***************************************************************************)

\* A child process is alive only while the worker follows it, or after the
\* worker was thrown out of doing so.
AliveInv ==
  \A h \in Handlers :
    Alive(h) => \/ wpc[h] \in {"poll", "select", "read", "line", "cli",
                               "sigint", "wait"}
                \/ outcome[h] = "raised"

\* The handler knows its living process.
AttachedInv ==
  \A h \in Handlers : Alive(h) => drned_process[h] \/ outcome[h] = "raised"

\* An outcome is final.
OutcomeInv ==
  \A h \in Handlers :
    outcome[h] # "none" => wpc[h] \in {"finally", "unregister", "replied"}

MakeInv ==
  \A h \in Handlers : wpc[h] = "popen_make" => Head(todo[h]) = "make"

\* The flag is set from the time an abort thread has the lock, and not set
\* when Popen() is called.
FlagInv ==
  \A a, h \in Handlers :
    /\ wpc[h] = "popen" => ~aborted[h]
    /\ target[a] = h /\ apc[a] \notin {"idle", "lookup", "lock"} => aborted[h]

\* An abort thread beyond its lookup has a handler, or has nothing to do.
TargetInv ==
  \A a \in Handlers :
    /\ apc[a] \in {"idle", "lookup"} => target[a] = NoHandler
    /\ apc[a] \notin {"idle", "lookup", "done"} => target[a] \in Handlers

\* AbortEffective, from the moment the abort thread is through.
GoneInv ==
  \A a, h \in Handlers :
    target[a] = h /\ apc[a] \in {"unlock", "done", "error"}
      => ~Alive(h) \/ Unabortable(h)

IInv == /\ TypeInv /\ LockInv /\ AliveInv /\ AttachedInv /\ OutcomeInv
        /\ MakeInv /\ FlagInv /\ TargetInv /\ GoneInv

Safe == /\ LockInv /\ AliveInv /\ AttachedInv /\ OutcomeInv /\ MakeInv
        /\ FlagInv /\ TargetInv /\ GoneInv

\* LockInv depends on the abort threads and on which workers hold the lock.
LEMMA LockFrame ==
  ASSUME LockInv, UNCHANGED abort_lock,
         \A a, h \in Handlers : AbortHolds(a, h)' <=> AbortHolds(a, h),
         \A h \in Handlers :
           wpc'[h] \in {"check", "popen"} <=> wpc[h] \in {"check", "popen"}
  PROVE  LockInv'
BY DEF LockInv, WorkerHolds, AbortHolds

\* GoneInv is disturbed by a new process and by a new abort only: an exception
\* in the output processing is not forgotten.
LEMMA GoneFrame ==
  ASSUME GoneInv, UNCHANGED <<apc, target, proc, todo>>,
         \A h \in Handlers : outcome[h] = "raised" => outcome'[h] = "raised"
  PROVE  GoneInv'
BY DEF GoneInv, Unabortable, Alive

\* Every step keeps the rest of the inductive invariant.
LEMMA SafetyStep == IInv /\ [Next]_vars => Safe'
<1> SUFFICES ASSUME IInv, [Next]_vars
             PROVE  Safe'
  OBVIOUS
<1> USE DEF IInv, TypeInv, TypeOK, child, abort, worker, Goto, End
<1>1. ASSUME NEW h \in Handlers, CbAction(h)
      PROVE  Safe'
  <2>1. LockInv'
    BY <1>1 DEF CbAction, LockInv, WorkerHolds, AbortHolds, TargetInv
  <2>2. AliveInv'
    BY <1>1 DEF CbAction, AliveInv, Alive, OutcomeInv
  <2>3. AttachedInv'
    BY <1>1 DEF CbAction, AttachedInv, AliveInv, Alive, OutcomeInv
  <2>4. OutcomeInv'
    BY <1>1 DEF CbAction, OutcomeInv
  <2>5. MakeInv'
    BY <1>1 DEF CbAction, MakeInv
  <2>6. FlagInv'
    BY <1>1 DEF CbAction, FlagInv, LockInv, WorkerHolds, AbortHolds, TargetInv
  <2>7. TargetInv'
    BY <1>1 DEF CbAction, TargetInv
  <2>8. GoneInv'
    BY <1>1 DEF CbAction, GoneInv, Unabortable, Alive, AliveInv, AttachedInv,
                OutcomeInv, FlagInv, TargetInv, MakeInv
  <2>9. QED
    BY <2>1, <2>2, <2>3, <2>4, <2>5, <2>6, <2>7, <2>8 DEF Safe
<1>2. ASSUME NEW h \in Handlers, Construct(h)
      PROVE  Safe'
  <2>1. LockInv'
    <3>1. CASE outcome' = outcome /\ wpc' = [wpc EXCEPT ![h] = "register"]
      BY <1>2, <3>1 DEF Construct, LockInv, WorkerHolds, AbortHolds, TargetInv
    <3>2. CASE outcome' = [outcome EXCEPT ![h] = "error"] /\ wpc' = [wpc EXCEPT ![h] = "unregister"]
      BY <1>2, <3>2 DEF Construct, LockInv, WorkerHolds, AbortHolds, TargetInv
    <3>3. QED
      BY <1>2, <3>1, <3>2 DEF Construct
  <2>2. AliveInv'
    BY <1>2 DEF Construct, AliveInv, Alive, OutcomeInv
  <2>3. AttachedInv'
    <3>1. CASE outcome' = outcome /\ wpc' = [wpc EXCEPT ![h] = "register"]
      BY <1>2, <3>1 DEF Construct, AttachedInv, AliveInv, Alive, OutcomeInv
    <3>2. CASE outcome' = [outcome EXCEPT ![h] = "error"] /\ wpc' = [wpc EXCEPT ![h] = "unregister"]
      BY <1>2, <3>2 DEF Construct, AttachedInv, AliveInv, Alive, OutcomeInv
    <3>3. QED
      BY <1>2, <3>1, <3>2 DEF Construct
  <2>4. OutcomeInv'
    BY <1>2 DEF Construct, OutcomeInv
  <2>5. MakeInv'
    BY <1>2 DEF Construct, MakeInv
  <2>6. FlagInv'
    BY <1>2 DEF Construct, FlagInv, LockInv, WorkerHolds, AbortHolds,
                TargetInv
  <2>7. TargetInv'
    BY <1>2 DEF Construct, TargetInv
  <2>8. GoneInv'
    <3>1. \A g \in Handlers : outcome[g] = "raised" => outcome'[g] = "raised"
      BY <1>2 DEF Construct, OutcomeInv
    <3>2. QED
      BY <1>2, <3>1, GoneFrame DEF Construct
  <2>9. QED
    BY <2>1, <2>2, <2>3, <2>4, <2>5, <2>6, <2>7, <2>8 DEF Safe
<1>3. ASSUME NEW h \in Handlers, Perform(h)
      PROVE  Safe'
  <2>1. LockInv'
    BY <1>3 DEF Perform, LockInv, WorkerHolds, AbortHolds, TargetInv
  <2>2. AliveInv'
    BY <1>3 DEF Perform, AliveInv, Alive, OutcomeInv
  <2>3. AttachedInv'
    <3>1. CASE outcome' = outcome
      BY <1>3, <3>1 DEF Perform, AttachedInv, AliveInv, Alive, OutcomeInv
    <3>2. CASE outcome' = [outcome EXCEPT ![h] = "ok"]
      BY <1>3, <3>2 DEF Perform, AttachedInv, AliveInv, Alive, OutcomeInv
    <3>3. CASE outcome' = [outcome EXCEPT ![h] = "error"]
      BY <1>3, <3>3 DEF Perform, AttachedInv, AliveInv, Alive, OutcomeInv
    <3>4. QED
      BY <1>3, <3>1, <3>2, <3>3 DEF Perform
  <2>4. OutcomeInv'
    BY <1>3 DEF Perform, OutcomeInv
  <2>5. MakeInv'
    BY <1>3 DEF Perform, MakeInv
  <2>6. FlagInv'
    BY <1>3 DEF Perform, FlagInv, LockInv, WorkerHolds, AbortHolds, TargetInv
  <2>7. TargetInv'
    BY <1>3 DEF Perform, TargetInv
  <2>8. GoneInv'
    <3>1. \A g \in Handlers : outcome[g] = "raised" => outcome'[g] = "raised"
      BY <1>3 DEF Perform, OutcomeInv
    <3>2. QED
      BY <1>3, <3>1, GoneFrame DEF Perform
  <2>9. QED
    BY <2>1, <2>2, <2>3, <2>4, <2>5, <2>6, <2>7, <2>8 DEF Safe
<1>4. ASSUME NEW h \in Handlers, CheckAborted(h)
      PROVE  Safe'
  <2>1. LockInv'
    BY <1>4 DEF CheckAborted, LockInv, WorkerHolds, AbortHolds, TargetInv
  <2>2. AliveInv'
    BY <1>4 DEF CheckAborted, AliveInv, Alive, OutcomeInv
  <2>3. AttachedInv'
    <3>1. CASE aborted[h]
      BY <1>4, <3>1 DEF CheckAborted, AttachedInv, AliveInv, Alive, OutcomeInv
    <3>2. CASE ~aborted[h]
      BY <1>4, <3>2 DEF CheckAborted, AttachedInv, AliveInv, Alive, OutcomeInv
    <3>3. QED
      BY <1>4, <3>1, <3>2 DEF CheckAborted
  <2>4. OutcomeInv'
    BY <1>4 DEF CheckAborted, OutcomeInv
  <2>5. MakeInv'
    BY <1>4 DEF CheckAborted, MakeInv
  <2>6. FlagInv'
    BY <1>4 DEF CheckAborted, FlagInv, LockInv, WorkerHolds, AbortHolds,
                TargetInv
  <2>7. TargetInv'
    BY <1>4 DEF CheckAborted, TargetInv
  <2>8. GoneInv'
    <3>1. \A g \in Handlers : outcome[g] = "raised" => outcome'[g] = "raised"
      BY <1>4 DEF CheckAborted, OutcomeInv
    <3>2. QED
      BY <1>4, <3>1, GoneFrame DEF CheckAborted
  <2>9. QED
    BY <2>1, <2>2, <2>3, <2>4, <2>5, <2>6, <2>7, <2>8 DEF Safe
<1>5. ASSUME NEW h \in Handlers, Popen(h)
      PROVE  Safe'
  <2>1. LockInv'
    BY <1>5 DEF Popen, StartProcess, LockInv, WorkerHolds, AbortHolds,
                TargetInv
  <2>2. AliveInv'
    <3>1. CASE StartProcess(h)
      BY <1>5, <3>1 DEF Popen, StartProcess, AliveInv, Alive, OutcomeInv
    <3>2. CASE End(h, "error", "finally") /\ UNCHANGED <<drned_process,
       child>>
      BY <1>5, <3>2 DEF Popen, StartProcess, AliveInv, Alive, OutcomeInv
    <3>3. QED
      BY <1>5, <3>1, <3>2 DEF Popen
  <2>3. AttachedInv'
    <3>1. CASE StartProcess(h)
      BY <1>5, <3>1 DEF Popen, StartProcess, AttachedInv, AliveInv, Alive,
                        OutcomeInv
    <3>2. CASE End(h, "error", "finally") /\ UNCHANGED <<drned_process,
       child>>
      BY <1>5, <3>2 DEF Popen, StartProcess, AttachedInv, AliveInv, Alive,
                        OutcomeInv
    <3>3. QED
      BY <1>5, <3>1, <3>2 DEF Popen
  <2>4. OutcomeInv'
    BY <1>5 DEF Popen, StartProcess, OutcomeInv
  <2>5. MakeInv'
    BY <1>5 DEF Popen, StartProcess, MakeInv
  <2>6. FlagInv'
    BY <1>5 DEF Popen, StartProcess, FlagInv, LockInv, WorkerHolds,
                AbortHolds, TargetInv
  <2>7. TargetInv'
    BY <1>5 DEF Popen, StartProcess, TargetInv
  <2>8. GoneInv'
    <3>1. CASE StartProcess(h)
      <4>1. \A a \in Handlers :
              ~(target[a] = h /\ apc[a] \in {"unlock", "done", "error"})
        BY <1>5 DEF Popen, FlagInv
      <4>2. /\ \A g \in Handlers : g # h => proc'[g] = proc[g]
            /\ UNCHANGED <<apc, target, todo, outcome>>
        BY <1>5, <3>1 DEF Popen, StartProcess
      <4>3. QED
        BY <4>1, <4>2 DEF GoneInv, Unabortable, Alive
    <3>2. CASE End(h, "error", "finally") /\ UNCHANGED <<drned_process,
       child>>
      <4>1. \A g \in Handlers : outcome[g] = "raised" => outcome'[g] = "raised"
        BY <1>5, <3>2 DEF Popen, OutcomeInv
      <4>2. QED
        BY <1>5, <3>2, <4>1, GoneFrame DEF Popen
    <3>3. QED
      BY <1>5, <3>1, <3>2 DEF Popen
  <2>9. QED
    BY <2>1, <2>2, <2>3, <2>4, <2>5, <2>6, <2>7, <2>8 DEF Safe
<1>6. ASSUME NEW h \in Handlers, PopenMake(h)
      PROVE  Safe'
  <2>1. LockInv'
    <3>1. CASE StartProcess(h)
      BY <1>6, <3>1 DEF PopenMake, StartProcess, LockInv, WorkerHolds,
                        AbortHolds, TargetInv
    <3>2. CASE End(h, "error", "unregister") /\ UNCHANGED <<drned_process,
       child>>
      BY <1>6, <3>2 DEF PopenMake, StartProcess, LockInv, WorkerHolds,
                        AbortHolds, TargetInv
    <3>3. QED
      BY <1>6, <3>1, <3>2 DEF PopenMake
  <2>2. AliveInv'
    <3>1. CASE StartProcess(h)
      BY <1>6, <3>1 DEF PopenMake, StartProcess, AliveInv, Alive, OutcomeInv
    <3>2. CASE End(h, "error", "unregister") /\ UNCHANGED <<drned_process,
       child>>
      BY <1>6, <3>2 DEF PopenMake, StartProcess, AliveInv, Alive, OutcomeInv
    <3>3. QED
      BY <1>6, <3>1, <3>2 DEF PopenMake
  <2>3. AttachedInv'
    <3>1. CASE StartProcess(h)
      BY <1>6, <3>1 DEF PopenMake, StartProcess, AttachedInv, AliveInv,
                        Alive, OutcomeInv
    <3>2. CASE End(h, "error", "unregister") /\ UNCHANGED <<drned_process,
       child>>
      BY <1>6, <3>2 DEF PopenMake, StartProcess, AttachedInv, AliveInv,
                        Alive, OutcomeInv
    <3>3. QED
      BY <1>6, <3>1, <3>2 DEF PopenMake
  <2>4. OutcomeInv'
    BY <1>6 DEF PopenMake, StartProcess, OutcomeInv
  <2>5. MakeInv'
    BY <1>6 DEF PopenMake, StartProcess, MakeInv
  <2>6. FlagInv'
    BY <1>6 DEF PopenMake, StartProcess, FlagInv, LockInv, WorkerHolds,
                AbortHolds, TargetInv
  <2>7. TargetInv'
    BY <1>6 DEF PopenMake, StartProcess, TargetInv
  <2>8. GoneInv'
    <3>1. CASE StartProcess(h)
      <4>1. Unabortable(h)'
        BY <1>6, <3>1 DEF PopenMake, MakeInv, WorkerInv, Unabortable
      <4>2. /\ \A g \in Handlers : g # h => proc'[g] = proc[g]
            /\ UNCHANGED <<apc, target, todo, outcome>>
        BY <1>6, <3>1 DEF PopenMake, StartProcess
      <4>3. QED
        BY <4>1, <4>2 DEF GoneInv, Unabortable, Alive
    <3>2. CASE End(h, "error", "unregister") /\ UNCHANGED <<drned_process,
       child>>
      <4>1. \A g \in Handlers : outcome[g] = "raised" => outcome'[g] = "raised"
        BY <1>6, <3>2 DEF PopenMake, OutcomeInv
      <4>2. QED
        BY <1>6, <3>2, <4>1, GoneFrame DEF PopenMake
    <3>3. QED
      BY <1>6, <3>1, <3>2 DEF PopenMake
  <2>9. QED
    BY <2>1, <2>2, <2>3, <2>4, <2>5, <2>6, <2>7, <2>8 DEF Safe
<1>7. ASSUME NEW h \in Handlers, Read(h)
      PROVE  Safe'
  <2>1. LockInv'
    BY <1>7 DEF Read, LockInv, WorkerHolds, AbortHolds, TargetInv
  <2>2. AliveInv'
    BY <1>7 DEF Read, AliveInv, Alive, OutcomeInv
  <2>3. AttachedInv'
    BY <1>7 DEF Read, AttachedInv, AliveInv, Alive, OutcomeInv
  <2>4. OutcomeInv'
    BY <1>7 DEF Read, OutcomeInv
  <2>5. MakeInv'
    BY <1>7 DEF Read, MakeInv
  <2>6. FlagInv'
    BY <1>7 DEF Read, FlagInv, LockInv, WorkerHolds, AbortHolds, TargetInv
  <2>7. TargetInv'
    BY <1>7 DEF Read, TargetInv
  <2>8. GoneInv'
    BY <1>7 DEF Read, GoneInv, Unabortable, Alive, AliveInv, AttachedInv,
                OutcomeInv, FlagInv, TargetInv, MakeInv
  <2>9. QED
    BY <2>1, <2>2, <2>3, <2>4, <2>5, <2>6, <2>7, <2>8 DEF Safe
<1>8. ASSUME NEW h \in Handlers, CheckCli(h)
      PROVE  Safe'
  <2>1. LockInv'
    <3>1. after[h] \notin {"check", "popen"}
      BY <1>8
    <3>2. \A g \in Handlers :
            wpc'[g] \in {"check", "popen"} <=> wpc[g] \in {"check", "popen"}
      BY <1>8, <3>1 DEF CheckCli
    <3>3. \A a, g \in Handlers : AbortHolds(a, g)' <=> AbortHolds(a, g)
      BY <1>8 DEF CheckCli, AbortHolds
    <3>4. QED
      BY <1>8, <3>2, <3>3, LockFrame DEF CheckCli
  <2>2. AliveInv'
    BY <1>8 DEF CheckCli, AliveInv, Alive, OutcomeInv
  <2>3. AttachedInv'
    BY <1>8 DEF CheckCli, AttachedInv, AliveInv, Alive, OutcomeInv
  <2>4. OutcomeInv'
    BY <1>8 DEF CheckCli, OutcomeInv
  <2>5. MakeInv'
    BY <1>8 DEF CheckCli, MakeInv
  <2>6. FlagInv'
    <3>1. after[h] # "popen"
      BY <1>8
    <3>2. wpc'[h] # "popen" /\ \A g \in Handlers : g # h => wpc'[g] = wpc[g]
      BY <1>8, <3>1 DEF CheckCli
    <3>3. QED
      BY <1>8, <3>2 DEF CheckCli, FlagInv
  <2>7. TargetInv'
    BY <1>8 DEF CheckCli, TargetInv
  <2>8. GoneInv'
    BY <1>8 DEF CheckCli, GoneInv, Unabortable, Alive, AliveInv, AttachedInv,
                OutcomeInv, FlagInv, TargetInv, MakeInv
  <2>9. QED
    BY <2>1, <2>2, <2>3, <2>4, <2>5, <2>6, <2>7, <2>8 DEF Safe
<1>9. ASSUME NEW h \in Handlers, OutputFails(h)
      PROVE  Safe'
  <2>1. LockInv'
    BY <1>9 DEF OutputFails, LockInv, WorkerHolds, AbortHolds, TargetInv
  <2>2. AliveInv'
    BY <1>9 DEF OutputFails, AliveInv, Alive, OutcomeInv
  <2>3. AttachedInv'
    BY <1>9 DEF OutputFails, AttachedInv, AliveInv, Alive, OutcomeInv
  <2>4. OutcomeInv'
    BY <1>9 DEF OutputFails, OutcomeInv
  <2>5. MakeInv'
    BY <1>9 DEF OutputFails, MakeInv
  <2>6. FlagInv'
    BY <1>9 DEF OutputFails, FlagInv, LockInv, WorkerHolds, AbortHolds,
                TargetInv
  <2>7. TargetInv'
    BY <1>9 DEF OutputFails, TargetInv
  <2>8. GoneInv'
    BY <1>9 DEF OutputFails, GoneInv, Unabortable, Alive, AliveInv,
                AttachedInv, OutcomeInv, FlagInv, TargetInv, MakeInv
  <2>9. QED
    BY <2>1, <2>2, <2>3, <2>4, <2>5, <2>6, <2>7, <2>8 DEF Safe
<1>10. ASSUME NEW h \in Handlers, SilenceSigint(h)
      PROVE  Safe'
  <2>1. LockInv'
    BY <1>10 DEF SilenceSigint, Interrupt, LockInv, WorkerHolds, AbortHolds,
                 TargetInv
  <2>2. AliveInv'
    BY <1>10 DEF SilenceSigint, Interrupt, AliveInv, Alive, OutcomeInv
  <2>3. AttachedInv'
    BY <1>10 DEF SilenceSigint, Interrupt, AttachedInv, AliveInv, Alive,
                 OutcomeInv
  <2>4. OutcomeInv'
    BY <1>10 DEF SilenceSigint, Interrupt, OutcomeInv
  <2>5. MakeInv'
    BY <1>10 DEF SilenceSigint, Interrupt, MakeInv
  <2>6. FlagInv'
    BY <1>10 DEF SilenceSigint, Interrupt, FlagInv, LockInv, WorkerHolds,
                 AbortHolds, TargetInv
  <2>7. TargetInv'
    BY <1>10 DEF SilenceSigint, Interrupt, TargetInv
  <2>8. GoneInv'
    BY <1>10 DEF SilenceSigint, Interrupt, GoneInv, Unabortable, Alive,
                 AliveInv, AttachedInv, OutcomeInv, FlagInv, TargetInv,
                    MakeInv
  <2>9. QED
    BY <2>1, <2>2, <2>3, <2>4, <2>5, <2>6, <2>7, <2>8 DEF Safe
<1>11. ASSUME NEW h \in Handlers, SilenceWait(h)
      PROVE  Safe'
  <2>1. LockInv'
    BY <1>11 DEF SilenceWait, Kill, LockInv, WorkerHolds, AbortHolds,
                 TargetInv
  <2>2. AliveInv'
    BY <1>11 DEF SilenceWait, Kill, AliveInv, Alive, OutcomeInv
  <2>3. AttachedInv'
    BY <1>11 DEF SilenceWait, Kill, AttachedInv, AliveInv, Alive, OutcomeInv
  <2>4. OutcomeInv'
    BY <1>11 DEF SilenceWait, Kill, OutcomeInv
  <2>5. MakeInv'
    BY <1>11 DEF SilenceWait, Kill, MakeInv
  <2>6. FlagInv'
    BY <1>11 DEF SilenceWait, Kill, FlagInv, LockInv, WorkerHolds,
                 AbortHolds, TargetInv
  <2>7. TargetInv'
    BY <1>11 DEF SilenceWait, Kill, TargetInv
  <2>8. GoneInv'
    BY <1>11 DEF SilenceWait, Kill, GoneInv, Unabortable, Alive, AliveInv,
                 AttachedInv, OutcomeInv, FlagInv, TargetInv, MakeInv
  <2>9. QED
    BY <2>1, <2>2, <2>3, <2>4, <2>5, <2>6, <2>7, <2>8 DEF Safe
<1>12. ASSUME NEW h \in Handlers, Finally(h)
      PROVE  Safe'
  <2>1. LockInv'
    BY <1>12 DEF Finally, LockInv, WorkerHolds, AbortHolds, TargetInv
  <2>2. AliveInv'
    BY <1>12 DEF Finally, AliveInv, Alive, OutcomeInv
  <2>3. AttachedInv'
    <3>1. ~Alive(h) \/ outcome[h] = "raised"
      BY <1>12 DEF Finally, AliveInv, OutcomeInv
    <3>2. /\ outcome[h] = "raised" => outcome'[h] = "raised"
          /\ proc' = proc
      BY <1>12 DEF Finally
    <3>3. \A g \in Handlers :
            g # h => outcome'[g] = outcome[g] /\ drned_process'[g] = drned_process[g]
      BY <1>12 DEF Finally
    <3>4. QED
      BY <3>1, <3>2, <3>3 DEF AttachedInv, Alive
  <2>4. OutcomeInv'
    BY <1>12 DEF Finally, OutcomeInv
  <2>5. MakeInv'
    BY <1>12 DEF Finally, MakeInv
  <2>6. FlagInv'
    BY <1>12 DEF Finally, FlagInv, LockInv, WorkerHolds, AbortHolds, TargetInv
  <2>7. TargetInv'
    BY <1>12 DEF Finally, TargetInv
  <2>8. GoneInv'
    <3>1. ~Alive(h) \/ outcome[h] = "raised"
      BY <1>12 DEF Finally, AliveInv, OutcomeInv
    <3>2. outcome[h] = "raised" => outcome'[h] = "raised"
      BY <1>12 DEF Finally
    <3>3. \A g \in Handlers : g # h => outcome'[g] = outcome[g] /\ todo'[g] = todo[g]
      BY <1>12 DEF Finally
    <3>4. UNCHANGED <<apc, target, proc>>
      BY <1>12 DEF Finally
    <3>5. ASSUME NEW g \in Handlers, ~Alive(g) \/ Unabortable(g)
          PROVE  (~Alive(g) \/ Unabortable(g))'
      <4>1. CASE g = h
        BY <3>1, <3>2, <3>4, <4>1 DEF Unabortable, Alive
      <4>2. CASE g # h
        BY <3>3, <3>4, <3>5, <4>2 DEF Unabortable, Alive
      <4>3. QED
        BY <4>1, <4>2
    <3>6. QED
      BY <3>4, <3>5 DEF GoneInv
  <2>9. QED
    BY <2>1, <2>2, <2>3, <2>4, <2>5, <2>6, <2>7, <2>8 DEF Safe
<1>13. ASSUME NEW h \in Handlers, CbAbort(h)
      PROVE  Safe'
  <2>1. LockInv'
    <3>1. \A a, g \in Handlers : AbortHolds(a, g)' <=> AbortHolds(a, g)
      BY <1>13 DEF CbAbort, AbortHolds
    <3>2. QED
      BY <1>13, <3>1, LockFrame DEF CbAbort
  <2>2. AliveInv'
    BY <1>13 DEF CbAbort, AliveInv, Alive, OutcomeInv
  <2>3. AttachedInv'
    BY <1>13 DEF CbAbort, AttachedInv, AliveInv, Alive, OutcomeInv
  <2>4. OutcomeInv'
    BY <1>13 DEF CbAbort, OutcomeInv
  <2>5. MakeInv'
    BY <1>13 DEF CbAbort, MakeInv
  <2>6. FlagInv'
    BY <1>13 DEF CbAbort, FlagInv, LockInv, WorkerHolds, AbortHolds, TargetInv
  <2>7. TargetInv'
    BY <1>13 DEF CbAbort, TargetInv
  <2>8. GoneInv'
    BY <1>13 DEF CbAbort, GoneInv, Unabortable, Alive, AliveInv, AttachedInv,
                 OutcomeInv, FlagInv, TargetInv, MakeInv
  <2>9. QED
    BY <2>1, <2>2, <2>3, <2>4, <2>5, <2>6, <2>7, <2>8 DEF Safe
<1>14. ASSUME NEW h \in Handlers, Lookup(h)
      PROVE  Safe'
  <2>1. LockInv'
    <3>1. \A a, g \in Handlers : AbortHolds(a, g)' <=> AbortHolds(a, g)
      BY <1>14 DEF Lookup, AbortHolds
    <3>2. QED
      BY <1>14, <3>1, LockFrame DEF Lookup
  <2>2. AliveInv'
    BY <1>14 DEF Lookup, AliveInv, Alive, OutcomeInv
  <2>3. AttachedInv'
    BY <1>14 DEF Lookup, AttachedInv, AliveInv, Alive, OutcomeInv
  <2>4. OutcomeInv'
    BY <1>14 DEF Lookup, OutcomeInv
  <2>5. MakeInv'
    BY <1>14 DEF Lookup, MakeInv
  <2>6. FlagInv'
    <3>1. \A a, g \in Handlers :
            target'[a] = g /\ apc'[a] \notin {"idle", "lookup", "lock"}
              => target[a] = g /\ apc[a] \notin {"idle", "lookup", "lock"}
      BY <1>14, XmnrActionAssumption DEF Lookup
    <3>2. QED
      BY <1>14, <3>1 DEF Lookup, FlagInv
  <2>7. TargetInv'
    <3>1. running_handlers[Usid[h]] \in Handlers \cup {NoHandler}
      BY <1>14, XmnrActionAssumption
    <3>2. QED
      BY <1>14, <3>1 DEF Lookup, TargetInv
  <2>8. GoneInv'
    <3>1. \A a, g \in Handlers :
            target'[a] = g /\ apc'[a] \in {"unlock", "done", "error"}
              => target[a] = g /\ apc[a] \in {"unlock", "done", "error"}
      BY <1>14, XmnrActionAssumption DEF Lookup
    <3>2. proc' = proc /\ todo' = todo /\ outcome' = outcome
      BY <1>14 DEF Lookup
    <3>3. \A g \in Handlers : ~Alive(g) \/ Unabortable(g)
                             => (~Alive(g) \/ Unabortable(g))'
      BY <3>2 DEF Alive, Unabortable
    <3>4. QED
      BY <3>1, <3>3 DEF GoneInv
  <2>9. QED
    BY <2>1, <2>2, <2>3, <2>4, <2>5, <2>6, <2>7, <2>8 DEF Safe
<1>15. ASSUME NEW h \in Handlers, SetAborted(h)
      PROVE  Safe'
  <2>1. LockInv'
    <3>1. PICK t \in Handlers : t = target[h]
      BY <1>15 DEF SetAborted, TargetInv
    <3>2. ~abort_lock[t] /\ abort_lock' = [abort_lock EXCEPT ![t] = TRUE]
      BY <1>15, <3>1 DEF SetAborted
    <3>3. \A a, g \in Handlers : AbortHolds(a, g)'
                                 <=> AbortHolds(a, g) \/ (a = h /\ g = t)
      BY <1>15, <3>1 DEF SetAborted, AbortHolds
    <3>4. \A g \in Handlers : WorkerHolds(g)' <=> WorkerHolds(g)
      BY <1>15 DEF SetAborted, WorkerHolds
    <3>5. abort_lock'[t] /\ \A g \in Handlers : g # t => abort_lock'[g] = abort_lock[g]
      BY <3>2
    <3>6. /\ \A a \in Handlers : ~AbortHolds(a, t)
          /\ ~WorkerHolds(t)
      BY <3>2 DEF LockInv
    <3>7. ASSUME NEW g \in Handlers
          PROVE  /\ abort_lock'[g] <=> \/ WorkerHolds(g)'
                                      \/ \E a \in Handlers : AbortHolds(a, g)'
                 /\ WorkerHolds(g)' => \A a \in Handlers : ~AbortHolds(a, g)'
                 /\ \A a, b \in Handlers :
                      AbortHolds(a, g)' /\ AbortHolds(b, g)' => a = b
      <4>1. CASE g = t
        BY <3>3, <3>4, <3>5, <3>6, <4>1
      <4>2. CASE g # t
        BY <3>3, <3>4, <3>5, <4>2 DEF LockInv
      <4>3. QED
        BY <4>1, <4>2
    <3>8. QED
      BY <3>7 DEF LockInv
  <2>2. AliveInv'
    BY <1>15 DEF SetAborted, AliveInv, Alive, OutcomeInv
  <2>3. AttachedInv'
    BY <1>15 DEF SetAborted, AttachedInv, AliveInv, Alive, OutcomeInv
  <2>4. OutcomeInv'
    BY <1>15 DEF SetAborted, OutcomeInv
  <2>5. MakeInv'
    BY <1>15 DEF SetAborted, MakeInv
  <2>6. FlagInv'
    BY <1>15 DEF SetAborted, FlagInv, LockInv, WorkerHolds, AbortHolds,
                 TargetInv
  <2>7. TargetInv'
    BY <1>15 DEF SetAborted, TargetInv
  <2>8. GoneInv'
    BY <1>15 DEF SetAborted, GoneInv, Unabortable, Alive, AliveInv,
                 AttachedInv, OutcomeInv, FlagInv, TargetInv, MakeInv
  <2>9. QED
    BY <2>1, <2>2, <2>3, <2>4, <2>5, <2>6, <2>7, <2>8 DEF Safe
<1>16. ASSUME NEW h \in Handlers, CheckProcess(h)
      PROVE  Safe'
  <2>1. LockInv'
    <3>1. \A a, g \in Handlers : AbortHolds(a, g)' <=> AbortHolds(a, g)
      BY <1>16 DEF CheckProcess, AbortHolds
    <3>2. QED
      BY <1>16, <3>1, LockFrame DEF CheckProcess
  <2>2. AliveInv'
    BY <1>16 DEF CheckProcess, AliveInv, Alive, OutcomeInv
  <2>3. AttachedInv'
    BY <1>16 DEF CheckProcess, AttachedInv, AliveInv, Alive, OutcomeInv
  <2>4. OutcomeInv'
    BY <1>16 DEF CheckProcess, OutcomeInv
  <2>5. MakeInv'
    BY <1>16 DEF CheckProcess, MakeInv
  <2>6. FlagInv'
    BY <1>16 DEF CheckProcess, FlagInv, LockInv, WorkerHolds, AbortHolds,
                 TargetInv
  <2>7. TargetInv'
    BY <1>16 DEF CheckProcess, TargetInv
  <2>8. GoneInv'
    BY <1>16 DEF CheckProcess, GoneInv, Unabortable, Alive, AliveInv,
                 AttachedInv, OutcomeInv, FlagInv, TargetInv, MakeInv
  <2>9. QED
    BY <2>1, <2>2, <2>3, <2>4, <2>5, <2>6, <2>7, <2>8 DEF Safe
<1>17. ASSUME NEW h \in Handlers, AbortSigint(h)
      PROVE  Safe'
  <2>1. LockInv'
    <3>1. \A a, g \in Handlers : AbortHolds(a, g)' <=> AbortHolds(a, g)
      BY <1>17 DEF AbortSigint, AbortHolds
    <3>2. QED
      BY <1>17, <3>1, LockFrame DEF AbortSigint
  <2>2. AliveInv'
    BY <1>17 DEF AbortSigint, Interrupt, AliveInv, Alive, OutcomeInv
  <2>3. AttachedInv'
    BY <1>17 DEF AbortSigint, Interrupt, AttachedInv, AliveInv, Alive,
                 OutcomeInv
  <2>4. OutcomeInv'
    BY <1>17 DEF AbortSigint, Interrupt, OutcomeInv
  <2>5. MakeInv'
    BY <1>17 DEF AbortSigint, Interrupt, MakeInv
  <2>6. FlagInv'
    BY <1>17 DEF AbortSigint, Interrupt, FlagInv, LockInv, WorkerHolds,
                 AbortHolds, TargetInv
  <2>7. TargetInv'
    BY <1>17 DEF AbortSigint, Interrupt, TargetInv
  <2>8. GoneInv'
    BY <1>17 DEF AbortSigint, Interrupt, GoneInv, Unabortable, Alive,
                 AliveInv, AttachedInv, OutcomeInv, FlagInv, TargetInv,
                    MakeInv
  <2>9. QED
    BY <2>1, <2>2, <2>3, <2>4, <2>5, <2>6, <2>7, <2>8 DEF Safe
<1>18. ASSUME NEW h \in Handlers, AbortWait(h)
      PROVE  Safe'
  <2>1. LockInv'
    <3>1. \A a, g \in Handlers : AbortHolds(a, g)' <=> AbortHolds(a, g)
      BY <1>18 DEF AbortWait, AbortHolds
    <3>2. QED
      BY <1>18, <3>1, LockFrame DEF AbortWait
  <2>2. AliveInv'
    BY <1>18 DEF AbortWait, AliveInv, Alive, OutcomeInv
  <2>3. AttachedInv'
    BY <1>18 DEF AbortWait, AttachedInv, AliveInv, Alive, OutcomeInv
  <2>4. OutcomeInv'
    BY <1>18 DEF AbortWait, OutcomeInv
  <2>5. MakeInv'
    BY <1>18 DEF AbortWait, MakeInv
  <2>6. FlagInv'
    BY <1>18 DEF AbortWait, FlagInv, LockInv, WorkerHolds, AbortHolds,
                 TargetInv
  <2>7. TargetInv'
    BY <1>18 DEF AbortWait, TargetInv
  <2>8. GoneInv'
    BY <1>18 DEF AbortWait, GoneInv, Unabortable, Alive, AliveInv,
                 AttachedInv, OutcomeInv, FlagInv, TargetInv, MakeInv
  <2>9. QED
    BY <2>1, <2>2, <2>3, <2>4, <2>5, <2>6, <2>7, <2>8 DEF Safe
<1>19. ASSUME NEW h \in Handlers, AbortTimeout(h)
      PROVE  Safe'
  <2>1. LockInv'
    <3>1. \A a, g \in Handlers : AbortHolds(a, g)' <=> AbortHolds(a, g)
      BY <1>19 DEF AbortTimeout, AbortHolds
    <3>2. QED
      BY <1>19, <3>1, LockFrame DEF AbortTimeout
  <2>2. AliveInv'
    BY <1>19 DEF AbortTimeout, AliveInv, Alive, OutcomeInv
  <2>3. AttachedInv'
    BY <1>19 DEF AbortTimeout, AttachedInv, AliveInv, Alive, OutcomeInv
  <2>4. OutcomeInv'
    BY <1>19 DEF AbortTimeout, OutcomeInv
  <2>5. MakeInv'
    BY <1>19 DEF AbortTimeout, MakeInv
  <2>6. FlagInv'
    BY <1>19 DEF AbortTimeout, FlagInv, LockInv, WorkerHolds, AbortHolds,
                 TargetInv
  <2>7. TargetInv'
    BY <1>19 DEF AbortTimeout, TargetInv
  <2>8. GoneInv'
    BY <1>19 DEF AbortTimeout, GoneInv, Unabortable, Alive, AliveInv,
                 AttachedInv, OutcomeInv, FlagInv, TargetInv, MakeInv
  <2>9. QED
    BY <2>1, <2>2, <2>3, <2>4, <2>5, <2>6, <2>7, <2>8 DEF Safe
<1>20. ASSUME NEW h \in Handlers, AbortKill(h)
      PROVE  Safe'
  <2>1. LockInv'
    <3>1. \A a, g \in Handlers : AbortHolds(a, g)' <=> AbortHolds(a, g)
      BY <1>20 DEF AbortKill, AbortHolds
    <3>2. QED
      BY <1>20, <3>1, LockFrame DEF AbortKill
  <2>2. AliveInv'
    BY <1>20 DEF AbortKill, Kill, AliveInv, Alive, OutcomeInv
  <2>3. AttachedInv'
    BY <1>20 DEF AbortKill, Kill, AttachedInv, AliveInv, Alive, OutcomeInv
  <2>4. OutcomeInv'
    BY <1>20 DEF AbortKill, Kill, OutcomeInv
  <2>5. MakeInv'
    BY <1>20 DEF AbortKill, Kill, MakeInv
  <2>6. FlagInv'
    BY <1>20 DEF AbortKill, Kill, FlagInv, LockInv, WorkerHolds, AbortHolds,
                 TargetInv
  <2>7. TargetInv'
    BY <1>20 DEF AbortKill, Kill, TargetInv
  <2>8. GoneInv'
    BY <1>20 DEF AbortKill, Kill, GoneInv, Unabortable, Alive, AliveInv,
                 AttachedInv, OutcomeInv, FlagInv, TargetInv, MakeInv
  <2>9. QED
    BY <2>1, <2>2, <2>3, <2>4, <2>5, <2>6, <2>7, <2>8 DEF Safe
<1>21. ASSUME NEW h \in Handlers,
             Register(h) \/ Unregister(h) \/ LockForPopen(h) \/ Poll(h) \/
             SelectReady(h) \/ SelectTimeout(h) \/ WriteCli(h) \/
             ProcessVanished(h) \/ AbortUnlock(h) \/ ProcWrite(h) \/
             ProcExit(h)
      PROVE  Safe'
  <2> USE DEF Safe, LockInv, WorkerHolds, AbortHolds, AliveInv, Alive,
              AttachedInv, OutcomeInv, MakeInv, FlagInv, TargetInv, GoneInv,
              Unabortable
  <2>1. CASE Register(h)
    BY <2>1 DEF Register
  <2>2. CASE Unregister(h)
    BY <2>2 DEF Unregister
  <2>3. CASE LockForPopen(h)
    BY <2>3 DEF LockForPopen
  <2>4. CASE Poll(h)
    BY <2>4 DEF Poll
  <2>5. CASE SelectReady(h)
    BY <2>5 DEF SelectReady
  <2>6. CASE SelectTimeout(h)
    BY <2>6 DEF SelectTimeout
  <2>7. CASE WriteCli(h)
    BY <2>7 DEF WriteCli
  <2>8. CASE ProcessVanished(h)
    BY <2>8 DEF ProcessVanished
  <2>9. CASE AbortUnlock(h)
    BY <2>9 DEF AbortUnlock
  <2>10. CASE ProcWrite(h)
    BY <2>10 DEF ProcWrite
  <2>11. CASE ProcExit(h)
    BY <2>11 DEF ProcExit
  <2>12. QED
    BY <1>21, <2>1, <2>2, <2>3, <2>4, <2>5, <2>6, <2>7, <2>8, <2>9, <2>10,
       <2>11
<1>22. CASE UNCHANGED vars
  BY <1>22 DEF vars, Safe, LockInv, WorkerHolds, AbortHolds, AliveInv, Alive,
                   AttachedInv, OutcomeInv, MakeInv, FlagInv, TargetInv,
                   GoneInv, Unabortable
<1>23. QED
  BY <1>1, <1>2, <1>3, <1>4, <1>5, <1>6, <1>7, <1>8, <1>9, <1>10, <1>11,
     <1>12, <1>13, <1>14, <1>15, <1>16, <1>17, <1>18, <1>19, <1>20, <1>21,
     <1>22
     DEF Next, WorkerStep, AbortStep

LEMMA Invariant == Spec => []IInv
<1>1. Init => IInv
  BY XmnrActionAssumption
     DEF Init, IInv, TypeInv, TypeOK, WorkerInv, WorkerPC, AbortPC, LockInv,
         WorkerHolds, AbortHolds, AliveInv, Alive, AttachedInv, OutcomeInv,
         MakeInv, FlagInv, TargetInv, GoneInv
<1>2. IInv /\ [Next]_vars => TypeInv'
  BY TypeStep DEF IInv
<1>3. IInv /\ [Next]_vars => IInv'
  BY <1>2, SafetyStep DEF Safe, IInv
<1>4. QED
  BY <1>1, <1>3, PTL DEF Spec

\* abort_lock is held by one thread at a time and always given back, by every
\* handler, abort thread and interleaving of them.
THEOREM LockCorrect == Spec => []LockInv
<1>1. IInv => LockInv
  BY DEF IInv
<1>2. QED
  BY <1>1, Invariant, PTL

\* When cb_abort has returned, the DrNED process is gone for good, also when
\* the worker cleared drned_process under the abort thread's feet.
THEOREM AbortIsEffective == Spec => []AbortEffective
<1>1. IInv => AbortEffective
  BY DEF IInv, TypeInv, TypeOK, GoneInv, AbortEffective
<1>2. QED
  BY <1>1, Invariant, PTL

\* No action replies while its child process is alive, exceptions in the
\* output processing apart.
THEOREM ReplyFreesDevice == Spec => []NoProcessLeft
<1>1. IInv => NoProcessLeft
  BY DEF IInv, AliveInv, NoProcessLeft
<1>2. QED
  BY <1>1, Invariant, PTL

\* run_in_drned_env() starts no DrNED process once the action is aborted.
THEOREM AbortPreventsStart == Spec => NoStartAfterAbort
<1> DEFINE Started(h) == proc[h] # "running" /\ proc'[h] = "running"
           Right(h) == ~aborted[h] \/ Unabortable(h)
<1>1. ASSUME IInv, [Next]_vars, NEW g \in Handlers, Started(g)
      PROVE  Right(g)
  <2> USE DEF IInv, TypeInv, TypeOK
  <2>1. PICK h \in Handlers : \/ CbAction(h) \/ WorkerStep(h)
                              \/ CbAbort(h) \/ AbortStep(h)
                              \/ ProcWrite(h) \/ ProcExit(h)
    BY <1>1 DEF Next, vars, child
  <2>2. CASE Popen(h)
    <3>1. g = h
      BY <1>1, <2>2 DEF Popen, StartProcess, child
    <3>2. QED
      BY <1>1, <2>2, <3>1 DEF Popen, FlagInv
  <2>3. CASE PopenMake(h)
    <3>1. g = h
      BY <1>1, <2>3 DEF PopenMake, StartProcess, child
    <3>2. QED
      BY <1>1, <2>3, <3>1 DEF PopenMake, MakeInv, WorkerInv, Unabortable
  <2>4. CASE UNCHANGED proc
    BY <1>1, <2>4
  <2>5. CASE SilenceSigint(h) \/ SilenceWait(h)
    BY <1>1, <2>5 DEF SilenceSigint, SilenceWait, Interrupt, Kill
  <2>6. CASE AbortSigint(h) \/ AbortKill(h)
    BY <1>1, <2>6 DEF AbortSigint, AbortKill, Interrupt, Kill
  <2>7. CASE ProcExit(h)
    BY <1>1, <2>7 DEF ProcExit
  <2>8. WorkerStep(h) => \/ Popen(h) \/ PopenMake(h) \/ UNCHANGED proc
                         \/ SilenceSigint(h) \/ SilenceWait(h)
    BY DEF WorkerStep, Construct, Register, Perform, Unregister, LockForPopen,
           CheckAborted, Poll, SelectReady, SelectTimeout, Read, CheckCli,
           WriteCli, OutputFails, Finally, child
  <2>9. AbortStep(h) => AbortSigint(h) \/ AbortKill(h) \/ UNCHANGED proc
    BY DEF AbortStep, Lookup, SetAborted, CheckProcess, AbortWait,
           AbortTimeout, ProcessVanished, AbortUnlock, child
  <2>10. CbAction(h) \/ CbAbort(h) \/ ProcWrite(h) => UNCHANGED proc
    BY DEF CbAction, CbAbort, ProcWrite, child
  <2>11. QED
    BY <2>1, <2>2, <2>3, <2>4, <2>5, <2>6, <2>7, <2>8, <2>9, <2>10
<1>2. IInv /\ [Next]_vars =>
        [\A h \in Handlers :
           proc[h] # "running" /\ proc'[h] = "running"
             => ~aborted[h] \/ Unabortable(h)]_vars
  BY <1>1
<1>3. QED
  BY <1>2, Invariant, PTL DEF Spec, NoStartAfterAbort

\* No operation starts a child process next to a living one of its own.
THEOREM OneAtATime == Spec => OneProcessAtATime
<1>1. IInv =>
        \A h \in Handlers : wpc[h] \in {"popen", "popen_make"} => ~Alive(h)
  BY DEF IInv, AliveInv, OutcomeInv
<1>2. IInv => [\A h \in Handlers :
                 wpc[h] \in {"popen", "popen_make"} /\ wpc'[h] = "poll"
                   => ~Alive(h)]_vars
  BY <1>1
<1>3. QED
  BY <1>2, Invariant, PTL DEF OneProcessAtATime

----------------------------------------------------------------------------
(* The registry of handlers                                                *)

Outside == {"start", "construct", "register", "unregister", "replied"}

\* A session has one action in progress.
OneActive ==
  \A g, h \in Handlers :
    Usid[g] = Usid[h] /\ g # h => wpc[g] \in {"start", "replied"}
                                  \/ wpc[h] \in {"start", "replied"}

\* A handler is registered for its own session.
OwnEntry ==
  \A u \in Sessions : running_handlers[u] \in Handlers => Usid[running_handlers[u]] = u

RegInv == RegistryExact /\ OneActive /\ OwnEntry

\* A worker may go on between its registration and the "finally" of cb_action.
LEMMA RegFrame ==
  ASSUME RegInv, UNCHANGED running_handlers,
         \A h \in Handlers : \/ wpc'[h] = wpc[h]
                             \/ /\ wpc[h] \notin Outside
                                /\ wpc'[h] \notin Outside \/ wpc'[h] = "unregister"
  PROVE  RegInv'
BY DEF RegInv, RegistryExact, OneActive, OwnEntry, Outside

\* The steps of the worker between Register and Unregister.
LEMMA InsideSteps ==
  ASSUME TypeOK, NEW h \in Handlers, WorkerStep(h),
         ~Construct(h), ~Register(h), ~Unregister(h)
  PROVE  /\ UNCHANGED running_handlers
         /\ wpc[h] \notin Outside
         /\ wpc'[h] \notin Outside \/ wpc'[h] = "unregister"
         /\ \A g \in Handlers : g # h => wpc'[g] = wpc[g]
<1> USE DEF TypeOK, Goto, End, worker, Outside
<1>1. CASE Perform(h)
  BY <1>1 DEF Perform
<1>2. CASE LockForPopen(h)
  BY <1>2 DEF LockForPopen
<1>3. CASE CheckAborted(h)
  BY <1>3 DEF CheckAborted
<1>4. CASE Popen(h)
  BY <1>4 DEF Popen, StartProcess
<1>5. CASE PopenMake(h)
  BY <1>5 DEF PopenMake, StartProcess
<1>6. CASE Poll(h) \/ SelectReady(h) \/ SelectTimeout(h) \/ Read(h)
  BY <1>6 DEF Poll, SelectReady, SelectTimeout, Read
<1>7. CASE CheckCli(h)
  BY <1>7 DEF CheckCli
<1>8. CASE WriteCli(h) \/ OutputFails(h)
  BY <1>8 DEF WriteCli, OutputFails
<1>9. CASE SilenceSigint(h) \/ SilenceWait(h)
  BY <1>9 DEF SilenceSigint, SilenceWait
<1>10. CASE Finally(h)
  BY <1>10 DEF Finally
<1>11. QED
  BY <1>1, <1>2, <1>3, <1>4, <1>5, <1>6, <1>7, <1>8, <1>9, <1>10 DEF WorkerStep

\* The steps that are not the worker's leave it and the registry alone.
LEMMA OtherSteps ==
  ASSUME NEW h \in Handlers, CbAbort(h) \/ AbortStep(h) \/ ProcWrite(h) \/ ProcExit(h)
  PROVE  UNCHANGED <<running_handlers, worker>>
BY DEF CbAbort, AbortStep, Lookup, SetAborted, CheckProcess, AbortSigint,
       AbortWait, AbortTimeout, AbortKill, ProcessVanished, AbortUnlock,
       ProcWrite, ProcExit

LEMMA RegStep == TypeOK /\ RegInv /\ [Next]_vars => RegInv'
<1> SUFFICES ASSUME TypeOK, RegInv, [Next]_vars
             PROVE  RegInv'
  OBVIOUS
<1> USE XmnrActionAssumption
<1>1. ASSUME NEW h \in Handlers, CbAction(h)
      PROVE  RegInv'
  BY <1>1 DEF CbAction, Goto, TypeOK, RegInv, RegistryExact, OneActive, OwnEntry
<1>2. ASSUME NEW h \in Handlers, Construct(h)
      PROVE  RegInv'
  <2>1. /\ UNCHANGED running_handlers
        /\ wpc[h] = "construct" /\ wpc'[h] \in {"register", "unregister"}
        /\ \A g \in Handlers : g # h => wpc'[g] = wpc[g]
    BY <1>2 DEF Construct, Goto, End, TypeOK
  <2>2. QED
    BY <2>1 DEF RegInv, RegistryExact, OneActive, OwnEntry
<1>3. ASSUME NEW h \in Handlers, Register(h)
      PROVE  RegInv'
  <2>1. /\ wpc[h] = "register" /\ wpc'[h] = "perform"
        /\ \A g \in Handlers : g # h => wpc'[g] = wpc[g]
        /\ running_handlers'[Usid[h]] = h
        /\ \A u \in Sessions : u # Usid[h] => running_handlers'[u] = running_handlers[u]
        /\ Usid[h] \in Sessions
    BY <1>3 DEF Register, Goto, TypeOK
  <2>2. QED
    BY <2>1 DEF RegInv, RegistryExact, OneActive, OwnEntry
<1>4. ASSUME NEW h \in Handlers, Unregister(h)
      PROVE  RegInv'
  <2>1. /\ wpc[h] = "unregister" /\ wpc'[h] = "replied"
        /\ \A g \in Handlers : g # h => wpc'[g] = wpc[g]
        /\ running_handlers'[Usid[h]] = NoHandler
        /\ \A u \in Sessions : u # Usid[h] => running_handlers'[u] = running_handlers[u]
        /\ Usid[h] \in Sessions
    BY <1>4 DEF Unregister, Goto, TypeOK
  <2>2. QED
    BY <2>1 DEF RegInv, RegistryExact, OneActive, OwnEntry
<1>5. ASSUME NEW h \in Handlers, WorkerStep(h), ~Construct(h), ~Register(h), ~Unregister(h)
      PROVE  RegInv'
  BY <1>5, InsideSteps, RegFrame
<1>6. ASSUME NEW h \in Handlers, CbAbort(h) \/ AbortStep(h) \/ ProcWrite(h) \/ ProcExit(h)
      PROVE  RegInv'
  BY <1>6, OtherSteps, RegFrame DEF worker
<1>7. CASE UNCHANGED vars
  BY <1>7, RegFrame DEF vars, worker
<1>8. QED
  BY <1>1, <1>2, <1>3, <1>4, <1>5, <1>6, <1>7 DEF Next, WorkerStep

LEMMA RegInvariant == Spec => []RegInv
<1>1. Init => RegInv
  BY XmnrActionAssumption DEF Init, RegInv, RegistryExact, OneActive, OwnEntry
<1>2. QED
  BY <1>1, RegStep, TypeCorrect, PTL DEF Spec

\* An abort finds the handler exactly while its request is registered, and
\* requests of one session do not take each other's place.
THEOREM RegistryIsExact == Spec => []RegistryExact
<1>1. RegInv => RegistryExact
  BY DEF RegInv
<1>2. QED
  BY <1>1, RegInvariant, PTL

----------------------------------------------------------------------------
(* The child processes of an operation                                     *)

\* `make' is what a handler runs first, if at all: it is not started again.
MakeFirstOf(h) ==
  /\ \A i \in 2..Len(todo[h]) : todo[h][i] = "drned"
  /\ wpc[h] \in {"lock", "check", "popen"} => Head(todo[h]) # "make"
  /\ drned_process[h] => proc[h] # "none"
  /\ wpc[h] \in {"start", "construct", "register", "perform", "popen_make"}
       => proc[h] = "none" \/ todo[h] = <<>> \/ Head(todo[h]) # "make"

MakeFirst == \A h \in Handlers : MakeFirstOf(h)

\* A process that an abort has interrupted is not followed by another one
\* before the abort is through with it.
InterruptInv ==
  \A a \in Handlers :
    /\ apc[a] = "sigint" => proc[target[a]] # "none"
    /\ apc[a] \in {"wait", "kill"} => proc[target[a]] \in {"interrupted", "dead"}

\* An abort finds only handlers whose action has begun.
BegunInv ==
  \A a \in Handlers : target[a] \in Handlers => wpc[target[a]] # "start"

RInv == IInv /\ RegInv /\ MakeFirst /\ InterruptInv /\ BegunInv

\* What is left to be run is a tail of the plan.
LEMMA TailOfPlan ==
  ASSUME NEW q \in Seq(Job), q # <<>>, \A i \in 2..Len(q) : q[i] = "drned"
  PROVE  /\ Tail(q) \in Seq(Job)
         /\ \A i \in 2..Len(Tail(q)) : Tail(q)[i] = "drned"
         /\ Tail(q) = <<>> \/ Head(Tail(q)) # "make"
<1>1. Tail(q) \in Seq(Job) /\ Len(Tail(q)) = Len(q) - 1 /\ Len(q) \in Nat \ {0}
  OBVIOUS
<1>2. \A i \in 1..Len(Tail(q)) : Tail(q)[i] = q[i + 1] /\ i + 1 \in 2..Len(q)
  BY <1>1
<1>3. Tail(q) # <<>> => Head(Tail(q)) = Tail(q)[1] /\ 1 \in 1..Len(Tail(q))
  BY <1>1
<1>4. QED
  BY <1>1, <1>2, <1>3

\* MakeFirst sees the worker, the list and the process of each handler.
LEMMA MakeFrame ==
  ASSUME MakeFirst, UNCHANGED <<wpc, todo, drned_process>>,
         \A h \in Handlers : proc'[h] = proc[h] \/ (proc[h] # "none" /\ proc'[h] # "none")
  PROVE  MakeFirst'
BY DEF MakeFirst, MakeFirstOf

\* A worker may go to where MakeFirst says nothing.
LEMMA MakeGoes ==
  ASSUME MakeFirst, NEW h \in Handlers, UNCHANGED <<todo, drned_process>>,
         proc'[h] = proc[h] \/ (proc[h] # "none" /\ proc'[h] # "none"),
         wpc'[h] \notin {"start", "construct", "register", "perform", "popen_make",
                         "lock", "check", "popen"},
         \A g \in Handlers : g # h => wpc'[g] = wpc[g] /\ proc'[g] = proc[g]
  PROVE  MakeFirst'
<1>1. MakeFirstOf(h)'
  BY DEF MakeFirst, MakeFirstOf
<1>2. ASSUME NEW g \in Handlers, g # h
      PROVE  MakeFirstOf(g)'
  BY <1>2 DEF MakeFirst, MakeFirstOf
<1>3. QED
  BY <1>1, <1>2 DEF MakeFirst

LEMMA MakeStep == IInv /\ MakeFirst /\ [Next]_vars => MakeFirst'
<1> SUFFICES ASSUME IInv, MakeFirst, [Next]_vars
             PROVE  MakeFirst'
  OBVIOUS
<1>0. /\ wpc \in [Handlers -> WorkerPC]
      /\ todo \in [Handlers -> Seq(Job)]
      /\ drned_process \in [Handlers -> BOOLEAN]
      /\ proc \in [Handlers -> {"none", "running", "interrupted", "dead"}]
      /\ after \in [Handlers -> {"poll", "sigint"}]
  BY DEF IInv, TypeInv, TypeOK
<1> USE DEF child, abort, worker, Goto, End
<1>1. ASSUME NEW h \in Handlers, CbAction(h)
      PROVE  MakeFirst'
  <2>1. UNCHANGED <<todo, drned_process, proc>> /\ wpc[h] = "start"
    BY <1>1 DEF CbAction
  <2>2. wpc'[h] = "construct"
    BY <1>0, <1>1 DEF CbAction
  <2>3. \A g \in Handlers : g # h => wpc'[g] = wpc[g]
    BY <1>0, <1>1 DEF CbAction
  <2>4. MakeFirstOf(h)'
    BY <2>1, <2>2 DEF MakeFirst, MakeFirstOf
  <2>5. \A g \in Handlers : g # h => MakeFirstOf(g)'
    BY <2>1, <2>3 DEF MakeFirst, MakeFirstOf
  <2>6. QED
    BY <2>4, <2>5 DEF MakeFirst
<1>2. ASSUME NEW h \in Handlers, Construct(h)
      PROVE  MakeFirst'
  <2>1. UNCHANGED <<todo, drned_process, proc>> /\ wpc[h] = "construct"
    BY <1>2 DEF Construct
  <2>2. wpc'[h] \in {"register", "unregister"}
    BY <1>0, <1>2 DEF Construct
  <2>3. \A g \in Handlers : g # h => wpc'[g] = wpc[g]
    BY <1>0, <1>2 DEF Construct
  <2>4. MakeFirstOf(h)'
    BY <2>1, <2>2 DEF MakeFirst, MakeFirstOf
  <2>5. \A g \in Handlers : g # h => MakeFirstOf(g)'
    BY <2>1, <2>3 DEF MakeFirst, MakeFirstOf
  <2>6. QED
    BY <2>4, <2>5 DEF MakeFirst
<1>3. ASSUME NEW h \in Handlers, Register(h)
      PROVE  MakeFirst'
  <2>1. UNCHANGED <<todo, drned_process, proc>> /\ wpc[h] = "register"
    BY <1>3 DEF Register
  <2>2. wpc'[h] = "perform"
    BY <1>0, <1>3 DEF Register
  <2>3. \A g \in Handlers : g # h => wpc'[g] = wpc[g]
    BY <1>0, <1>3 DEF Register
  <2>4. MakeFirstOf(h)'
    BY <2>1, <2>2 DEF MakeFirst, MakeFirstOf
  <2>5. \A g \in Handlers : g # h => MakeFirstOf(g)'
    BY <2>1, <2>3 DEF MakeFirst, MakeFirstOf
  <2>6. QED
    BY <2>4, <2>5 DEF MakeFirst
<1>4. ASSUME NEW h \in Handlers, Perform(h)
      PROVE  MakeFirst'
  <2>1. UNCHANGED <<todo, drned_process, proc>> /\ wpc[h] = "perform"
    BY <1>4 DEF Perform
  <2>2. \/ wpc'[h] = "unregister"
        \/ Head(todo[h]) = "make" /\ wpc'[h] = "popen_make"
        \/ Head(todo[h]) # "make" /\ wpc'[h] = "lock"
    BY <1>0, <1>4 DEF Perform
  <2>3. \A g \in Handlers : g # h => wpc'[g] = wpc[g]
    BY <1>0, <1>4 DEF Perform
  <2>4. MakeFirstOf(h)'
    BY <2>1, <2>2 DEF MakeFirst, MakeFirstOf
  <2>5. \A g \in Handlers : g # h => MakeFirstOf(g)'
    BY <2>1, <2>3 DEF MakeFirst, MakeFirstOf
  <2>6. QED
    BY <2>4, <2>5 DEF MakeFirst
<1>5. ASSUME NEW h \in Handlers, LockForPopen(h)
      PROVE  MakeFirst'
  <2>1. UNCHANGED <<todo, drned_process, proc>> /\ wpc[h] = "lock"
    BY <1>5 DEF LockForPopen
  <2>2. wpc'[h] = "check"
    BY <1>0, <1>5 DEF LockForPopen
  <2>3. \A g \in Handlers : g # h => wpc'[g] = wpc[g]
    BY <1>0, <1>5 DEF LockForPopen
  <2>4. MakeFirstOf(h)'
    BY <2>1, <2>2 DEF MakeFirst, MakeFirstOf
  <2>5. \A g \in Handlers : g # h => MakeFirstOf(g)'
    BY <2>1, <2>3 DEF MakeFirst, MakeFirstOf
  <2>6. QED
    BY <2>4, <2>5 DEF MakeFirst
<1>6. ASSUME NEW h \in Handlers, CheckAborted(h)
      PROVE  MakeFirst'
  <2>1. UNCHANGED <<todo, drned_process, proc>> /\ wpc[h] = "check"
    BY <1>6 DEF CheckAborted
  <2>2. wpc'[h] \in {"finally", "popen"}
    BY <1>0, <1>6 DEF CheckAborted
  <2>3. \A g \in Handlers : g # h => wpc'[g] = wpc[g]
    BY <1>0, <1>6 DEF CheckAborted
  <2>4. MakeFirstOf(h)'
    BY <2>1, <2>2 DEF MakeFirst, MakeFirstOf
  <2>5. \A g \in Handlers : g # h => MakeFirstOf(g)'
    BY <2>1, <2>3 DEF MakeFirst, MakeFirstOf
  <2>6. QED
    BY <2>4, <2>5 DEF MakeFirst
<1>7. ASSUME NEW h \in Handlers, Popen(h)
      PROVE  MakeFirst'
  <2>1. UNCHANGED todo
    BY <1>7 DEF Popen
  <2>2. \/ wpc'[h] = "poll" /\ proc'[h] = "running"
        \/ wpc'[h] = "finally" /\ UNCHANGED <<proc, drned_process>>
    BY <1>0, <1>7 DEF Popen, StartProcess
  <2>3. \A g \in Handlers : g # h => /\ wpc'[g] = wpc[g] /\ proc'[g] = proc[g]
                                     /\ drned_process'[g] = drned_process[g]
    BY <1>0, <1>7 DEF Popen, StartProcess
  <2>4. MakeFirstOf(h)'
    BY <2>1, <2>2 DEF MakeFirst, MakeFirstOf
  <2>5. \A g \in Handlers : g # h => MakeFirstOf(g)'
    BY <2>1, <2>3 DEF MakeFirst, MakeFirstOf
  <2>6. QED
    BY <2>4, <2>5 DEF MakeFirst
<1>8. ASSUME NEW h \in Handlers, PopenMake(h)
      PROVE  MakeFirst'
  <2>1. UNCHANGED todo
    BY <1>8 DEF PopenMake
  <2>2. \/ wpc'[h] = "poll" /\ proc'[h] = "running"
        \/ wpc'[h] = "unregister" /\ UNCHANGED <<proc, drned_process>>
    BY <1>0, <1>8 DEF PopenMake, StartProcess
  <2>3. \A g \in Handlers : g # h => /\ wpc'[g] = wpc[g] /\ proc'[g] = proc[g]
                                     /\ drned_process'[g] = drned_process[g]
    BY <1>0, <1>8 DEF PopenMake, StartProcess
  <2>4. MakeFirstOf(h)'
    BY <2>1, <2>2 DEF MakeFirst, MakeFirstOf
  <2>5. \A g \in Handlers : g # h => MakeFirstOf(g)'
    BY <2>1, <2>3 DEF MakeFirst, MakeFirstOf
  <2>6. QED
    BY <2>4, <2>5 DEF MakeFirst
<1>9. ASSUME NEW h \in Handlers, Unregister(h) \/ Poll(h) \/ SelectReady(h) \/ SelectTimeout(h) \/ Read(h) \/ WriteCli(h) \/ OutputFails(h)
      PROVE  MakeFirst'
  <2>1. UNCHANGED <<todo, drned_process>>
    BY <1>9 DEF Unregister, Poll, SelectReady, SelectTimeout, Read, WriteCli, OutputFails
  <2>2. /\ wpc'[h] \in {"select", "finally", "read", "line", "replied"}
        /\ \A g \in Handlers : g # h => wpc'[g] = wpc[g]
    BY <1>0, <1>9 DEF Unregister, Poll, SelectReady, SelectTimeout, Read, WriteCli, OutputFails
  <2>3. /\ proc'[h] = proc[h] \/ (proc[h] # "none" /\ proc'[h] # "none")
        /\ \A g \in Handlers : g # h => proc'[g] = proc[g]
    BY <1>0, <1>9 DEF Unregister, Poll, SelectReady, SelectTimeout, Read, WriteCli, OutputFails
  <2>4. QED
    BY <2>1, <2>2, <2>3, MakeGoes
<1>10. ASSUME NEW h \in Handlers, CheckCli(h)
      PROVE  MakeFirst'
  <2>1. UNCHANGED <<todo, drned_process>>
    BY <1>10 DEF CheckCli
  <2>2. /\ wpc'[h] \in {"poll", "sigint", "cli", "line"}
        /\ \A g \in Handlers : g # h => wpc'[g] = wpc[g]
    BY <1>0, <1>10 DEF CheckCli
  <2>3. /\ proc'[h] = proc[h] \/ (proc[h] # "none" /\ proc'[h] # "none")
        /\ \A g \in Handlers : g # h => proc'[g] = proc[g]
    BY <1>0, <1>10 DEF CheckCli
  <2>4. QED
    BY <2>1, <2>2, <2>3, MakeGoes
<1>11. ASSUME NEW h \in Handlers, SilenceSigint(h) \/ SilenceWait(h)
      PROVE  MakeFirst'
  <2>1. UNCHANGED <<todo, drned_process>>
    BY <1>11 DEF SilenceSigint, SilenceWait
  <2>2. /\ wpc'[h] \in {"wait", "poll"}
        /\ \A g \in Handlers : g # h => wpc'[g] = wpc[g]
    BY <1>0, <1>11 DEF SilenceSigint, SilenceWait
  <2>3. /\ proc'[h] = proc[h] \/ (proc[h] # "none" /\ proc'[h] # "none")
        /\ \A g \in Handlers : g # h => proc'[g] = proc[g]
    BY <1>0, <1>11 DEF SilenceSigint, SilenceWait, Interrupt, Kill, Alive
  <2>4. QED
    BY <2>1, <2>2, <2>3, MakeGoes
<1>12. ASSUME NEW h \in Handlers, Finally(h)
       PROVE  MakeFirst'
  <2>1. \A g \in Handlers : drned_process'[g] => drned_process[g]
    BY <1>0, <1>12 DEF Finally
  <2>2. UNCHANGED proc /\ \A g \in Handlers : g # h => wpc'[g] = wpc[g] /\ todo'[g] = todo[g]
    BY <1>0, <1>12 DEF Finally
  <2>3. \/ wpc'[h] = "unregister" /\ todo'[h] = todo[h]
        \/ wpc'[h] = "perform" /\ todo'[h] = Tail(todo[h])
    BY <1>0, <1>12 DEF Finally
  <2>4. todo[h] \in Seq(Job) /\ todo[h] # <<>>
    BY <1>0, <1>12 DEF Finally, IInv, TypeInv, WorkerInv
  <2>5. \A i \in 2..Len(todo[h]) : todo[h][i] = "drned"
    BY DEF MakeFirst, MakeFirstOf
  <2>6. /\ \A i \in 2..Len(Tail(todo[h])) : Tail(todo[h])[i] = "drned"
        /\ Tail(todo[h]) = <<>> \/ Head(Tail(todo[h])) # "make"
    BY <2>4, <2>5, TailOfPlan
  <2>7. MakeFirstOf(h)'
    <3>1. CASE wpc'[h] = "unregister" /\ todo'[h] = todo[h]
      BY <2>1, <2>2, <3>1 DEF MakeFirst, MakeFirstOf
    <3>2. CASE wpc'[h] = "perform" /\ todo'[h] = Tail(todo[h])
      BY <2>1, <2>2, <2>6, <3>2 DEF MakeFirst, MakeFirstOf
    <3>3. QED
      BY <2>3, <3>1, <3>2
  <2>8. \A g \in Handlers : g # h => MakeFirstOf(g)'
    BY <2>1, <2>2 DEF MakeFirst, MakeFirstOf
  <2>9. QED
    BY <2>7, <2>8 DEF MakeFirst
<1>13. ASSUME NEW a \in Handlers, CbAbort(a) \/ AbortStep(a) \/ ProcWrite(a) \/ ProcExit(a)
       PROVE  MakeFirst'
  <2>1. UNCHANGED <<wpc, todo, drned_process>>
    BY <1>13 DEF CbAbort, AbortStep, Lookup, SetAborted, CheckProcess, AbortSigint, AbortWait,
         AbortTimeout, AbortKill, ProcessVanished, AbortUnlock, ProcWrite, ProcExit
  <2>2. \A h \in Handlers : proc'[h] = proc[h] \/ (proc[h] # "none" /\ proc'[h] # "none")
    <3>1. CASE AbortSigint(a) \/ AbortKill(a)
      BY <1>0, <3>1 DEF AbortSigint, AbortKill, Interrupt, Kill, Alive
    <3>2. CASE ProcExit(a)
      BY <1>0, <3>2 DEF ProcExit, Alive
    <3>3. CASE UNCHANGED proc
      BY <3>3
    <3>4. QED
      BY <1>13, <3>1, <3>2, <3>3 DEF CbAbort, AbortStep, Lookup, SetAborted, CheckProcess,
         AbortWait, AbortTimeout, ProcessVanished, AbortUnlock, ProcWrite
  <2>3. QED
    BY <2>1, <2>2, MakeFrame
<1>14. CASE UNCHANGED vars
  BY <1>14, MakeFrame DEF vars
<1>15. QED
  BY <1>1, <1>2, <1>3, <1>4, <1>5, <1>6, <1>7, <1>8, <1>9, <1>10, <1>11, <1>12, <1>13, <1>14
     DEF Next, WorkerStep

----------------------------------------------------------------------------
(* What an abort meets                                                     *)

\* A process stays interrupted while an abort deals with it.
LEMMA InterruptFrame ==
  ASSUME InterruptInv, UNCHANGED abort,
         \A h \in Handlers :
           \/ proc'[h] = proc[h]
           \/ proc[h] # "none" /\ proc'[h] \in {"interrupted", "dead"}
           \/ \A a \in Handlers : target[a] = h => apc[a] \notin {"sigint", "wait", "kill"},
         \A a \in Handlers : apc[a] \in {"sigint", "wait", "kill"} => target[a] \in Handlers
  PROVE  InterruptInv'
BY DEF InterruptInv, abort

LEMMA InterruptStep ==
  IInv /\ MakeFirst /\ InterruptInv /\ [Next]_vars => InterruptInv'
<1> SUFFICES ASSUME IInv, MakeFirst, InterruptInv, [Next]_vars
             PROVE  InterruptInv'
  OBVIOUS
<1>0. /\ proc \in [Handlers -> {"none", "running", "interrupted", "dead"}]
      /\ drned_process \in [Handlers -> BOOLEAN]
      /\ apc \in [Handlers -> AbortPC]
      /\ target \in [Handlers -> Handlers \cup {NoHandler}]
      /\ \A a \in Handlers : apc[a] \in {"sigint", "wait", "kill"} => target[a] \in Handlers
      /\ \A a \in Handlers : apc[a] \in {"check", "sigint", "wait", "kill"} => target[a] \in Handlers
  BY DEF IInv, TypeInv, TypeOK, TargetInv
<1> USE DEF child, abort, worker
<1>1. ASSUME NEW h \in Handlers, Popen(h)
      PROVE  InterruptInv'
  <2>1. UNCHANGED abort /\ \A g \in Handlers : g # h => proc'[g] = proc[g]
    BY <1>0, <1>1 DEF Popen, StartProcess
  <2>2. \A a \in Handlers : target[a] = h => apc[a] \notin {"sigint", "wait", "kill"}
    BY <1>1 DEF Popen, IInv, LockInv, WorkerHolds, AbortHolds
  <2>3. QED
    BY <1>0, <2>1, <2>2, InterruptFrame
<1>2. ASSUME NEW h \in Handlers, PopenMake(h)
      PROVE  InterruptInv'
  <2>1. UNCHANGED abort /\ \A g \in Handlers : g # h => proc'[g] = proc[g]
    BY <1>0, <1>2 DEF PopenMake, StartProcess
  <2>2. proc[h] = "none"
    BY <1>2 DEF PopenMake, IInv, TypeInv, WorkerInv, MakeInv, MakeFirst, MakeFirstOf
  <2>3. \A a \in Handlers : target[a] = h => apc[a] \notin {"sigint", "wait", "kill"}
    BY <2>2 DEF InterruptInv
  <2>4. QED
    BY <1>0, <2>1, <2>3, InterruptFrame
<1>3. ASSUME NEW h \in Handlers, SilenceSigint(h) \/ SilenceWait(h) \/ ProcExit(h)
      PROVE  InterruptInv'
  <2>1. UNCHANGED abort
    BY <1>3 DEF SilenceSigint, SilenceWait, ProcExit
  <2>2. \A g \in Handlers : \/ proc'[g] = proc[g]
                            \/ proc[g] # "none" /\ proc'[g] \in {"interrupted", "dead"}
    BY <1>0, <1>3 DEF SilenceSigint, SilenceWait, ProcExit, Interrupt, Kill, Alive
  <2>3. QED
    BY <1>0, <2>1, <2>2, InterruptFrame
<1>4. ASSUME NEW a \in Handlers, CheckProcess(a)
      PROVE  InterruptInv'
  <2>1. UNCHANGED <<proc, target>> /\ \A b \in Handlers : b # a => apc'[b] = apc[b]
    BY <1>0, <1>4 DEF CheckProcess
  <2>2. apc'[a] = "sigint" => drned_process[target[a]] /\ target[a] \in Handlers
    BY <1>0, <1>4 DEF CheckProcess
  <2>3. apc'[a] \in {"sigint", "unlock"}
    BY <1>0, <1>4 DEF CheckProcess
  <2>4. QED
    BY <2>1, <2>2, <2>3 DEF InterruptInv, MakeFirst, MakeFirstOf
<1>5. ASSUME NEW a \in Handlers, AbortSigint(a) \/ AbortKill(a)
      PROVE  InterruptInv'
  <2>1. /\ UNCHANGED target
        /\ apc[a] \in {"sigint", "kill"} /\ apc'[a] \in {"wait", "unlock"}
        /\ \A b \in Handlers : b # a => apc'[b] = apc[b]
    BY <1>0, <1>5 DEF AbortSigint, AbortKill
  <2>2. proc[target[a]] # "none" /\ proc'[target[a]] \in {"interrupted", "dead"}
    BY <1>0, <1>5, <2>1 DEF AbortSigint, AbortKill, Interrupt, Kill, Alive, InterruptInv
  <2>3. \A h \in Handlers : h # target[a] => proc'[h] = proc[h]
    BY <1>0, <1>5 DEF AbortSigint, AbortKill, Interrupt, Kill
  <2>4. QED
    BY <1>0, <2>1, <2>2, <2>3 DEF InterruptInv
<1>6. ASSUME NEW a \in Handlers,
             CbAbort(a) \/ Lookup(a) \/ SetAborted(a) \/ AbortWait(a) \/ AbortTimeout(a)
               \/ ProcessVanished(a) \/ AbortUnlock(a)
      PROVE  InterruptInv'
  <2>1. /\ UNCHANGED proc
        /\ \A b \in Handlers : b # a => apc'[b] = apc[b] /\ target'[b] = target[b]
    BY <1>0, <1>6 DEF CbAbort, Lookup, SetAborted, AbortWait, AbortTimeout,
                      ProcessVanished, AbortUnlock
  <2>2. \/ apc'[a] \notin {"sigint", "wait", "kill"}
        \/ apc[a] = "wait" /\ apc'[a] = "kill" /\ target' = target
    BY <1>0, <1>6 DEF CbAbort, Lookup, SetAborted, AbortWait, AbortTimeout,
                      ProcessVanished, AbortUnlock
  <2>3. QED
    BY <2>1, <2>2 DEF InterruptInv
<1>7. ASSUME UNCHANGED <<proc, abort>>
      PROVE  InterruptInv'
  BY <1>7 DEF InterruptInv
<1>8. ASSUME NEW h \in Handlers, CbAction(h) \/ WorkerStep(h) \/ ProcWrite(h),
             ~Popen(h), ~PopenMake(h), ~SilenceSigint(h), ~SilenceWait(h)
      PROVE  UNCHANGED <<proc, abort>>
  BY <1>8 DEF CbAction, WorkerStep, Construct, Register, Perform, Unregister, LockForPopen,
              CheckAborted, Poll, SelectReady, SelectTimeout, Read, CheckCli, WriteCli,
              OutputFails, Finally, ProcWrite
<1>9. QED
  BY <1>1, <1>2, <1>3, <1>4, <1>5, <1>6, <1>7, <1>8 DEF Next, AbortStep, vars

\* An action that has begun has begun for good.
LEMMA NeverBack ==
  ASSUME TypeOK, [Next]_vars, NEW h \in Handlers, wpc[h] # "start"
  PROVE  wpc'[h] # "start"
<1> USE DEF TypeOK, Goto, End, worker
<1>1. ASSUME NEW g \in Handlers, CbAction(g)
      PROVE  wpc'[h] # "start"
  BY <1>1 DEF CbAction
<1>2. ASSUME NEW g \in Handlers, Construct(g) \/ Register(g) \/ Unregister(g)
      PROVE  wpc'[h] # "start"
  BY <1>2 DEF Construct, Register, Unregister
<1>3. ASSUME NEW g \in Handlers, WorkerStep(g), ~Construct(g), ~Register(g), ~Unregister(g)
      PROVE  wpc'[h] # "start"
  BY <1>3, InsideSteps DEF Outside
<1>4. ASSUME NEW g \in Handlers, CbAbort(g) \/ AbortStep(g) \/ ProcWrite(g) \/ ProcExit(g)
      PROVE  wpc'[h] # "start"
  BY <1>4, OtherSteps
<1>5. QED
  BY <1>1, <1>2, <1>3, <1>4 DEF Next, vars

LEMMA BegunStep == IInv /\ RegInv /\ BegunInv /\ [Next]_vars => BegunInv'
<1> SUFFICES ASSUME IInv, RegInv, BegunInv, [Next]_vars
             PROVE  BegunInv'
  OBVIOUS
<1> USE XmnrActionAssumption
<1>0. /\ TypeOK
      /\ target \in [Handlers -> Handlers \cup {NoHandler}]
      /\ running_handlers \in [Sessions -> Handlers \cup {NoHandler}]
  BY DEF IInv, TypeInv, TypeOK
<1>1. ASSUME NEW a \in Handlers, Lookup(a)
      PROVE  BegunInv'
  <2>1. /\ UNCHANGED wpc
        /\ target'[a] = running_handlers[Usid[a]] /\ Usid[a] \in Sessions
        /\ \A b \in Handlers : b # a => target'[b] = target[b]
    BY <1>0, <1>1 DEF Lookup, worker
  <2>2. target'[a] \in Handlers => wpc[target'[a]] # "start"
    BY <2>1 DEF RegInv, OwnEntry, RegistryExact
  <2>3. QED
    BY <2>1, <2>2 DEF BegunInv
<1>2. CASE UNCHANGED target
  BY <1>0, <1>2, NeverBack DEF BegunInv
<1>3. UNCHANGED target \/ \E a \in Handlers : Lookup(a)
  BY DEF Next, vars, abort, CbAction, WorkerStep, Construct, Register, Perform, Unregister,
         LockForPopen, CheckAborted, Popen, PopenMake, StartProcess, Poll, SelectReady,
         SelectTimeout, Read, CheckCli, WriteCli, OutputFails, SilenceSigint, SilenceWait,
         Finally, CbAbort, AbortStep, SetAborted, CheckProcess, AbortSigint, AbortWait,
         AbortTimeout, AbortKill, ProcessVanished, AbortUnlock, ProcWrite, ProcExit
<1>4. QED
  BY <1>1, <1>2, <1>3

LEMMA RInvariant == Spec => []RInv
<1>1. Init => MakeFirst /\ InterruptInv /\ BegunInv
  BY XmnrActionAssumption, MakeFirstAssumption DEF Init, MakeFirst, MakeFirstOf, InterruptInv, BegunInv
<1>2. RInv /\ IInv' /\ RegInv' /\ [Next]_vars => RInv'
  BY MakeStep, InterruptStep, BegunStep DEF RInv
<1>3. Init /\ IInv /\ RegInv => RInv
  BY <1>1 DEF RInv
<1>4. QED
  BY <1>2, <1>3, Invariant, RegInvariant, PTL DEF Spec

\* The process an abort kills after its timeout has had its SIGINT, whatever
\* the worker and other aborts did in the meantime.
THEOREM KillsOnlyInterrupted == Spec => KillOnlyInterrupted
<1>1. RInv => [\A a \in Handlers : apc[a] = "kill" /\ apc'[a] = "unlock"
                                  => proc[target[a]] # "running"]_vars
  BY DEF RInv, InterruptInv
<1>2. QED
  BY <1>1, RInvariant, PTL DEF KillOnlyInterrupted

----------------------------------------------------------------------------
(* XmnrAction implements DeviceRun                                         *)

LEMMA PhaseFrame ==
  ASSUME \A h \in Handlers : /\ wpc'[h] = "start" <=> wpc[h] = "start"
                             /\ wpc'[h] = "replied" <=> wpc[h] = "replied"
  PROVE  phase' = phase
BY DEF phase

LEMMA BusyFrame ==
  ASSUME UNCHANGED todo,
         \A h \in Handlers : /\ Alive(h)' <=> Alive(h)
                             /\ outcome'[h] = "raised" <=> outcome[h] = "raised"
  PROVE  busy' = busy
BY DEF busy, Unabortable

LEMMA StoppedFrame ==
  ASSUME UNCHANGED target,
         \A a \in Handlers : apc'[a] \in {"done", "error"} <=> apc[a] \in {"done", "error"}
  PROVE  stopped' = stopped
BY DEF stopped

\* One request gives up the device, if it had it.
LEMMA BusyLoses ==
  ASSUME NEW t \in Handlers, UNCHANGED <<todo, phase, stopped>>,
         ~Alive(t)' \/ outcome'[t] = "raised",
         \A h \in Handlers : h # t => /\ Alive(h)' <=> Alive(h)
                                      /\ outcome'[h] = "raised" <=> outcome[h] = "raised"
  PROVE  DR!Next \/ UNCHANGED DR!vars
<1>1. busy' = busy \ {t}
  BY DEF busy, Unabortable
<1>2. CASE t \in busy
  BY <1>1, <1>2 DEF DR!Next, DR!Release
<1>3. CASE t \notin busy
  BY <1>1, <1>3 DEF DR!vars
<1>4. QED
  BY <1>2, <1>3

\* An abort thread is through with its handler.
LEMMA Stops ==
  ASSUME TypeOK, NEW a \in Handlers, NEW t \in Handlers, UNCHANGED <<phase, busy, target>>,
         target[a] = t, wpc[t] # "start", t \notin busy,
         apc'[a] \in {"done", "error"},
         \A b \in Handlers : b # a => apc'[b] = apc[b],
         apc[a] \notin {"done", "error"}
  PROVE  DR!Next \/ UNCHANGED DR!vars
<1>1. stopped' = stopped \cup {t}
  BY DEF stopped
<1>2. phase[t] # "asked"
  BY DEF phase
<1>3. CASE t \in stopped
  BY <1>1, <1>3 DEF DR!vars
<1>4. CASE t \notin stopped
  BY <1>1, <1>2, <1>4 DEF DR!Next, DR!Stop
<1>5. QED
  BY <1>3, <1>4

LEMMA DeviceStep == RInv /\ [Next]_vars => DR!Next \/ UNCHANGED DR!vars
<1> SUFFICES ASSUME RInv, [Next]_vars
             PROVE  DR!Next \/ UNCHANGED DR!vars
  OBVIOUS
<1> USE DEF child, abort, worker, Goto, End
<1>0. /\ wpc \in [Handlers -> WorkerPC]
      /\ todo \in [Handlers -> Seq(Job)]
      /\ outcome \in [Handlers -> {"none", "ok", "error", "raised"}]
      /\ drned_process \in [Handlers -> BOOLEAN]
      /\ proc \in [Handlers -> {"none", "running", "interrupted", "dead"}]
      /\ after \in [Handlers -> {"poll", "sigint"}]
      /\ apc \in [Handlers -> AbortPC]
      /\ target \in [Handlers -> Handlers \cup {NoHandler}]
      /\ TypeOK
  BY DEF RInv, IInv, TypeInv, TypeOK
<1>1. ASSUME NEW h \in Handlers, CbAction(h)
      PROVE  DR!Next
  <2>1. UNCHANGED <<busy, stopped>>
    BY <1>1, BusyFrame, StoppedFrame DEF CbAction, Alive
  <2>2. phase[h] = "asked" /\ phase' = [phase EXCEPT ![h] = "active"]
    BY <1>0, <1>1 DEF CbAction, phase
  <2>3. QED
    BY <2>1, <2>2 DEF DR!Next, DR!Begin
<1>2. ASSUME NEW h \in Handlers,
             Construct(h) \/ Register(h) \/ Perform(h) \/ LockForPopen(h) \/ CheckAborted(h)
               \/ Poll(h) \/ SelectReady(h) \/ SelectTimeout(h) \/ Read(h) \/ CheckCli(h)
               \/ WriteCli(h)
      PROVE  UNCHANGED DR!vars
  <2>1. phase' = phase
    <3>1. /\ wpc[h] \notin {"start", "replied"} /\ wpc'[h] \notin {"start", "replied"}
          /\ \A g \in Handlers : g # h => wpc'[g] = wpc[g]
      <4>1. CASE CheckAborted(h)
        BY <1>0, <4>1 DEF CheckAborted
      <4>2. CASE CheckCli(h)
        BY <1>0, <4>2 DEF CheckCli
      <4>3. CASE Perform(h)
        BY <1>0, <4>3 DEF Perform
      <4>4. CASE Construct(h)
        BY <1>0, <4>4 DEF Construct
      <4>5. QED
        BY <1>0, <1>2, <4>1, <4>2, <4>3, <4>4 DEF Register, LockForPopen, Poll, SelectReady,
           SelectTimeout, Read, WriteCli
    <3>2. QED
      BY <3>1, PhaseFrame
  <2>2. busy' = busy
    <3>1. outcome[h] = "none"
      BY <1>0, <1>2 DEF RInv, IInv, OutcomeInv, Construct, Register, Perform, LockForPopen,
         CheckAborted, Poll, SelectReady, SelectTimeout, Read, CheckCli, WriteCli
    <3>2. UNCHANGED <<todo, proc>>
      BY <1>2 DEF Construct, Register, Perform, LockForPopen, CheckAborted, Poll, SelectReady,
         SelectTimeout, Read, CheckCli, WriteCli
    <3>3. outcome'[h] # "raised" /\ \A g \in Handlers : g # h => outcome'[g] = outcome[g]
      <4>1. CASE CheckAborted(h)
        BY <1>0, <3>1, <4>1 DEF CheckAborted
      <4>2. CASE Perform(h)
        BY <1>0, <3>1, <4>2 DEF Perform
      <4>3. CASE Construct(h)
        BY <1>0, <3>1, <4>3 DEF Construct
      <4>4. CASE outcome' = outcome
        BY <3>1, <4>4
      <4>5. QED
        BY <1>2, <4>1, <4>2, <4>3, <4>4 DEF Register, LockForPopen, Poll, SelectReady,
           SelectTimeout, Read, CheckCli, WriteCli
    <3>4. QED
      BY <3>1, <3>2, <3>3, BusyFrame DEF Alive
  <2>3. stopped' = stopped
    <3>1. UNCHANGED <<apc, target>>
      BY <1>2 DEF Construct, Register, Perform, LockForPopen, CheckAborted, Poll, SelectReady,
         SelectTimeout, Read, CheckCli, WriteCli
    <3>2. QED
      BY <3>1, StoppedFrame
  <2>4. QED
    BY <2>1, <2>2, <2>3 DEF DR!vars
<1>3. ASSUME NEW h \in Handlers, Popen(h)
      PROVE  DR!Next \/ UNCHANGED DR!vars
  <2>1. UNCHANGED <<phase, stopped, todo>>
    <3>1. /\ wpc[h] = "popen" /\ wpc'[h] \in {"poll", "finally"}
          /\ \A g \in Handlers : g # h => wpc'[g] = wpc[g]
          /\ UNCHANGED <<todo, abort>>
      BY <1>0, <1>3 DEF Popen, StartProcess
    <3>2. QED
      BY <3>1, PhaseFrame, StoppedFrame
  <2>2. wpc[h] = "popen" /\ outcome[h] = "none" /\ ~Alive(h)
    BY <1>0, <1>3 DEF Popen, RInv, IInv, OutcomeInv, AliveInv
  <2>3. CASE StartProcess(h)
    <3>1. UNCHANGED outcome /\ proc' = [proc EXCEPT ![h] = "running"]
      BY <2>3 DEF StartProcess
    <3>2. Head(todo[h]) # "make"
      BY <2>2 DEF RInv, MakeFirst, MakeFirstOf
    <3>3. busy' = busy \cup {h} /\ h \notin busy
      <4>1. /\ Alive(h)' /\ \A g \in Handlers : g # h => (Alive(g)' <=> Alive(g))
            /\ ~Unabortable(h) /\ \A g \in Handlers : Unabortable(g)' <=> Unabortable(g)
        BY <1>0, <2>1, <2>2, <3>1, <3>2 DEF Alive, Unabortable
      <4>2. QED
        BY <2>2, <4>1 DEF busy
    <3>4. h \notin stopped
      BY <2>2 DEF RInv, IInv, FlagInv, stopped
    <3>5. phase[h] = "active"
      BY <2>2 DEF phase
    <3>6. QED
      BY <2>1, <3>3, <3>4, <3>5 DEF DR!Next, DR!Occupy
  <2>4. CASE ~StartProcess(h)
    <3>1. UNCHANGED proc /\ outcome' = [outcome EXCEPT ![h] = "error"]
      BY <1>3, <2>4 DEF Popen
    <3>2. UNCHANGED busy
      BY <1>0, <2>1, <2>2, <3>1, BusyFrame DEF Alive
    <3>3. QED
      BY <2>1, <3>2 DEF DR!vars
  <2>5. QED
    BY <2>3, <2>4
<1>4. ASSUME NEW h \in Handlers, PopenMake(h)
      PROVE  UNCHANGED DR!vars
  <2>1. /\ wpc[h] = "popen_make" /\ wpc'[h] \in {"poll", "unregister"}
        /\ \A g \in Handlers : g # h => /\ wpc'[g] = wpc[g] /\ proc'[g] = proc[g]
                                        /\ outcome'[g] = outcome[g]
        /\ UNCHANGED <<todo, abort>>
    BY <1>0, <1>4 DEF PopenMake, StartProcess
  <2>2. UNCHANGED <<phase, stopped>>
    BY <2>1, PhaseFrame, StoppedFrame
  <2>3. todo[h] # <<>> /\ Head(todo[h]) = "make"
    BY <2>1 DEF RInv, IInv, TypeInv, WorkerInv, MakeInv
  <2>4. UNCHANGED busy
    <3>1. Unabortable(h) /\ Unabortable(h)'
      BY <2>1, <2>3 DEF Unabortable
    <3>2. \A g \in Handlers : g # h => /\ Alive(g)' <=> Alive(g)
                                       /\ Unabortable(g)' <=> Unabortable(g)
      BY <2>1 DEF Alive, Unabortable
    <3>3. QED
      BY <3>1, <3>2 DEF busy
  <2>5. QED
    BY <2>2, <2>4 DEF DR!vars
<1>5. ASSUME NEW h \in Handlers, OutputFails(h)
      PROVE  DR!Next \/ UNCHANGED DR!vars
  <2>1. /\ wpc[h] \in {"read", "line", "cli"} /\ wpc'[h] = "finally" /\ outcome'[h] = "raised"
        /\ \A g \in Handlers : g # h => wpc'[g] = wpc[g] /\ outcome'[g] = outcome[g]
        /\ UNCHANGED <<todo, proc, abort>>
    BY <1>0, <1>5 DEF OutputFails
  <2>2. UNCHANGED <<phase, stopped>>
    BY <2>1, PhaseFrame, StoppedFrame
  <2>3. QED
    BY <2>1, <2>2, BusyLoses DEF Alive
<1>6. ASSUME NEW h \in Handlers, SilenceSigint(h) \/ SilenceWait(h)
      PROVE  DR!Next \/ UNCHANGED DR!vars
  <2>1. /\ wpc[h] \in {"sigint", "wait"} /\ wpc'[h] \in {"wait", "poll"}
        /\ \A g \in Handlers : g # h => wpc'[g] = wpc[g] /\ proc'[g] = proc[g]
        /\ UNCHANGED <<todo, outcome, abort>>
    BY <1>0, <1>6 DEF SilenceSigint, SilenceWait, Interrupt, Kill
  <2>2. UNCHANGED <<phase, stopped>>
    BY <2>1, PhaseFrame, StoppedFrame
  <2>3. CASE SilenceSigint(h)
    <3>1. Alive(h)' <=> Alive(h)
      BY <1>0, <2>3 DEF SilenceSigint, Interrupt, Alive
    <3>2. QED
      BY <2>1, <2>2, <3>1, BusyFrame DEF Alive, DR!vars
  <2>4. CASE SilenceWait(h)
    <3>1. ~Alive(h)'
      BY <1>0, <2>4 DEF SilenceWait, Kill, Alive
    <3>2. QED
      BY <2>1, <2>2, <3>1, BusyLoses DEF Alive
  <2>5. QED
    BY <1>6, <2>3, <2>4
<1>7. ASSUME NEW h \in Handlers, Finally(h)
      PROVE  UNCHANGED DR!vars
  <2>1. /\ wpc[h] = "finally" /\ wpc'[h] \in {"perform", "unregister"}
        /\ \A g \in Handlers : g # h => /\ wpc'[g] = wpc[g] /\ todo'[g] = todo[g]
                                        /\ outcome'[g] = outcome[g]
        /\ outcome[h] # "none" => UNCHANGED <<todo, outcome>>
        /\ UNCHANGED <<proc, abort>>
    BY <1>0, <1>7 DEF Finally
  <2>2. UNCHANGED <<phase, stopped>>
    BY <2>1, PhaseFrame, StoppedFrame
  <2>3. Alive(h) => outcome[h] = "raised"
    BY <2>1 DEF RInv, IInv, AliveInv
  <2>4. UNCHANGED busy
    <3>1. \A g \in Handlers : Alive(g)' <=> Alive(g)
      BY <2>1 DEF Alive
    <3>2. \A g \in Handlers : Alive(g) => (Unabortable(g)' <=> Unabortable(g))
      BY <2>1, <2>3 DEF Unabortable
    <3>3. QED
      BY <3>1, <3>2 DEF busy
  <2>5. QED
    BY <2>2, <2>4 DEF DR!vars
<1>8. ASSUME NEW h \in Handlers, Unregister(h)
      PROVE  DR!Next
  <2>1. UNCHANGED <<busy, stopped>>
    BY <1>8, BusyFrame, StoppedFrame DEF Unregister, Alive
  <2>2. phase[h] = "active" /\ phase' = [phase EXCEPT ![h] = "over"]
    BY <1>0, <1>8 DEF Unregister, phase
  <2>3. h \notin busy
    BY <1>8 DEF Unregister, RInv, IInv, AliveInv, busy, Unabortable
  <2>4. QED
    BY <2>1, <2>2, <2>3 DEF DR!Next, DR!Reply
<1>9. ASSUME NEW h \in Handlers, ProcExit(h)
      PROVE  DR!Next \/ UNCHANGED DR!vars
  <2>1. /\ proc'[h] = "dead" /\ \A g \in Handlers : g # h => proc'[g] = proc[g]
        /\ UNCHANGED <<worker, abort>>
    BY <1>0, <1>9 DEF ProcExit
  <2>2. UNCHANGED <<phase, stopped>>
    BY <2>1, PhaseFrame, StoppedFrame
  <2>3. QED
    BY <2>1, <2>2, BusyLoses DEF Alive
<1>10. ASSUME NEW h \in Handlers, ProcWrite(h) \/ CbAbort(h) \/ SetAborted(h) \/ CheckProcess(h)
                                  \/ AbortWait(h) \/ AbortTimeout(h)
       PROVE  UNCHANGED DR!vars
  <2>1. /\ UNCHANGED <<worker, proc, target>>
        /\ \A a \in Handlers : apc'[a] \in {"done", "error"} <=> apc[a] \in {"done", "error"}
    BY <1>0, <1>10 DEF ProcWrite, CbAbort, SetAborted, CheckProcess, AbortWait, AbortTimeout
  <2>2. QED
    BY <2>1, PhaseFrame, BusyFrame, StoppedFrame DEF Alive, DR!vars
<1>11. ASSUME NEW a \in Handlers, Lookup(a)
       PROVE  UNCHANGED DR!vars
  <2>1. /\ UNCHANGED <<worker, proc>>
        /\ apc[a] = "lookup" /\ target[a] = NoHandler
        /\ \/ apc'[a] = "lock"
           \/ apc'[a] = "done" /\ target'[a] = NoHandler
        /\ \A b \in Handlers : b # a => apc'[b] = apc[b] /\ target'[b] = target[b]
    BY <1>0, <1>11 DEF Lookup, RInv, IInv, TargetInv
  <2>2. stopped' = stopped
    BY <2>1, XmnrActionAssumption DEF stopped
  <2>3. QED
    BY <2>1, <2>2, PhaseFrame, BusyFrame DEF Alive, DR!vars
<1>12. ASSUME NEW a \in Handlers, AbortSigint(a) \/ AbortKill(a)
       PROVE  DR!Next \/ UNCHANGED DR!vars
  <2>1. PICK t \in Handlers : t = target[a]
    BY <1>0, <1>12 DEF AbortSigint, AbortKill, RInv, IInv, TargetInv
  <2>2. /\ UNCHANGED <<worker, target>>
        /\ \A b \in Handlers : apc'[b] \in {"done", "error"} <=> apc[b] \in {"done", "error"}
        /\ \A g \in Handlers : g # t => proc'[g] = proc[g]
    BY <1>0, <1>12, <2>1 DEF AbortSigint, AbortKill, Interrupt, Kill
  <2>3. UNCHANGED <<phase, stopped>>
    BY <2>2, PhaseFrame, StoppedFrame
  <2>4. CASE AbortSigint(a)
    <3>1. Alive(t)' <=> Alive(t)
      BY <1>0, <2>1, <2>4 DEF AbortSigint, Interrupt, Alive
    <3>2. QED
      BY <2>2, <2>3, <3>1, BusyFrame DEF Alive, DR!vars
  <2>5. CASE AbortKill(a)
    <3>1. ~Alive(t)'
      BY <1>0, <2>1, <2>5 DEF AbortKill, Kill, Alive
    <3>2. QED
      BY <2>2, <2>3, <3>1, BusyLoses DEF Alive
  <2>6. QED
    BY <1>12, <2>4, <2>5
<1>13. ASSUME NEW a \in Handlers, ProcessVanished(a) \/ AbortUnlock(a)
       PROVE  DR!Next \/ UNCHANGED DR!vars
  <2>1. PICK t \in Handlers : t = target[a]
    BY <1>0, <1>13 DEF ProcessVanished, AbortUnlock, RInv, IInv, TargetInv
  <2>2. /\ UNCHANGED <<worker, proc, target>>
        /\ apc[a] \notin {"done", "error"} /\ apc'[a] \in {"done", "error"}
        /\ \A b \in Handlers : b # a => apc'[b] = apc[b]
    BY <1>0, <1>13 DEF ProcessVanished, AbortUnlock
  <2>3. UNCHANGED <<phase, busy>>
    BY <2>2, PhaseFrame, BusyFrame DEF Alive
  <2>4. wpc[t] # "start"
    BY <2>1 DEF RInv, BegunInv
  <2>5. t \notin busy
    <3>1. CASE AbortUnlock(a)
      BY <2>1, <3>1 DEF AbortUnlock, RInv, IInv, GoneInv, busy
    <3>2. CASE ProcessVanished(a)
      BY <2>1, <3>2 DEF ProcessVanished, RInv, IInv, AttachedInv, busy, Unabortable
    <3>3. QED
      BY <1>13, <3>1, <3>2
  <2>6. QED
    BY <1>0, <2>1, <2>2, <2>3, <2>4, <2>5, Stops
<1>14. CASE UNCHANGED vars
  BY <1>14, PhaseFrame, BusyFrame, StoppedFrame DEF vars, Alive, DR!vars
<1>15. QED
  BY <1>1, <1>2, <1>3, <1>4, <1>5, <1>6, <1>7, <1>8, <1>9, <1>10, <1>11, <1>12, <1>13, <1>14
     DEF Next, WorkerStep, AbortStep

\* The handlers, their threads and child processes implement DeviceRun: DrNED
\* works with the device only during its action, the action replies when the
\* device is free, and an abort returns when it is free for good.
THEOREM Implements == Spec => ImplementsDeviceRun
<1>1. Init => DR!Init
  BY DEF Init, DR!Init, phase, busy, stopped, Alive
<1>2. QED
  BY <1>1, DeviceStep, RInvariant, PTL DEF Spec, ImplementsDeviceRun, DR!Spec

=============================================================================
