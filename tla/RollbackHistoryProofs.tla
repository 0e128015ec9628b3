----------------------- MODULE RollbackHistoryProofs -----------------------
(***************************************************************************)
(* Proofs about RollbackHistory, for any files and effects of theirs, any  *)
(* tests and any number of commits of other sessions.                      *)
(***************************************************************************)
EXTENDS RollbackHistory, SequenceTheorems, TLAPS

(***************************************************************************)
(* The inductive form of TypeOK: the id of a commit is recorded during the *)
(* operation, the test has a set in progress, and the set its beginning.   *)
(***************************************************************************)
PlaceInv ==
  /\ committing # "no" => ops # <<>>
  /\ phase \in {"init", "set", "files", "end", "restore"} => tsets # <<>>
  /\ set_base <= Len(commit_id)

TypeInv == TypeOK /\ PlaceInv

----------------------------------------------------------------------------
(* Sequences                                                               *)

LEMMA Two ==
  ASSUME NEW S, NEW q \in Seq(S), NEW r \in Seq(S)
  PROVE  q \o r \in Seq(S)
OBVIOUS

\* The operations that a test runs.
LEMMA OpsTypes ==
  /\ LoadOps \in Seq(Ops) /\ RestoreOps \in Seq(Ops)
  /\ \A name \in OpNames, n \in Nat : RollbackOps(name, n) \in Seq(Ops)
<1>1. \A name \in OpNames, n \in Nat : <<[do |-> name, n |-> n]>> \in Seq(Ops)
  BY DEF Ops
<1>2. /\ Do("load") \in Ops /\ Do("commit") \in Ops /\ Do("compare") \in Ops
      /\ Do("session") \in Ops
  BY DEF Do, Ops, OpNames
<1>3. CommitCompare \in Seq(Ops) /\ <<Do("load")>> \in Seq(Ops) /\ <<Do("session")>> \in Seq(Ops)
  BY <1>2 DEF CommitCompare
<1>4. QED
  BY <1>1, <1>3, Two DEF LoadOps, RestoreOps, RollbackOps

LEMMA TargetsType ==
  ASSUME NEW n \in Nat
  PROVE  EndTargets(n) \in Seq(Nat)
<1>1. [k \in 1..n |-> n - k] \in Seq(Nat)
  <2>1. \A k \in 1..n : n - k \in Nat
    OBVIOUS
  <2>2. QED
    BY <2>1
<1>2. (IF test.all THEN <<0, n>> ELSE <<>>) \in Seq(Nat)
  OBVIOUS
<1>3. QED
  BY <1>1, <1>2, Two DEF EndTargets

\* What is left of a sequence.
LEMMA Rest ==
  ASSUME NEW S, NEW q \in Seq(S), q # <<>>
  PROVE  /\ Head(q) \in S /\ Tail(q) \in Seq(S)
         /\ Len(q) > 1 => Tail(q) # <<>>
<1>1. Head(q) \in S /\ Tail(q) \in Seq(S) /\ Len(Tail(q)) = Len(q) - 1
  BY HeadTailProperties
<1>2. ASSUME Len(q) > 1
      PROVE  Tail(q) # <<>>
  <2>1. Len(Tail(q)) # 0
    BY <1>1, <1>2
  <2>2. Len(<<>>) = 0
    BY EmptySeq
  <2>3. QED
    BY <2>1, <2>2, Zenon
<1>3. QED
  BY <1>1, <1>2

\* The beginning of a sequence.
LEMMA Beginning ==
  ASSUME NEW S, NEW q \in Seq(S), NEW n \in 0..Len(q)
  PROVE  /\ SubSeq(q, 1, n) \in Seq(S) /\ Len(SubSeq(q, 1, n)) = n
         /\ \A k \in 1..n : SubSeq(q, 1, n)[k] = q[k]
BY SubSeqProperties

LEMMA Extended ==
  ASSUME NEW S, NEW q \in Seq(S), NEW e \in S
  PROVE  /\ Append(q, e) \in Seq(S) /\ Len(Append(q, e)) = Len(q) + 1
         /\ \A k \in 1..Len(q) : Append(q, e)[k] = q[k]
         /\ Append(q, e)[Len(q) + 1] = e
BY AppendProperties

----------------------------------------------------------------------------
(* Types                                                                   *)

LEMMA TypeStep == TypeInv /\ [Next]_vars => TypeInv'
<1> SUFFICES ASSUME TypeInv, [Next]_vars
             PROVE  TypeInv'
  OBVIOUS
<1> USE DEF nso, ids, place, marks
<1>0. NsoTypeOK /\ IdsTypeOK /\ PlaceTypeOK /\ MarksTypeOK /\ PlaceInv
  BY DEF TypeInv, TypeOK
<1>a. SUFFICES /\ NsoTypeOK' /\ IdsTypeOK' /\ PlaceTypeOK' /\ MarksTypeOK'
               /\ PlaceInv'
  BY DEF TypeInv, TypeOK
<1>b. /\ UNCHANGED nso => NsoTypeOK'
      /\ UNCHANGED <<log, ids, failed_at>> => IdsTypeOK'
      /\ UNCHANGED <<log, place>> => PlaceTypeOK'
      /\ UNCHANGED <<commit_id, marks>> => MarksTypeOK'
  BY <1>0 DEF NsoTypeOK, IdsTypeOK, PlaceTypeOK, MarksTypeOK
<1>1. CASE Commit
  <2>1. /\ ops # <<>> /\ committing = "no" /\ Len(before) = Len(commit_id)
        /\ before' = Append(before, running.dev)
        /\ UNCHANGED <<commit_id, raced, place, marks, failed_at, cand, others>>
    BY <1>0, <1>1 DEF Commit, At, IdsTypeOK
  <2>2. \/ committing' = "empty" /\ UNCHANGED <<running, log>>
        \/ committing' = "full" /\ log' = Append(log, running) /\ running' = cand
    BY <1>1 DEF Commit
  <2>3. running.dev \in Configs
    BY <1>0 DEF NsoTypeOK, Snapshots
  <2>4. before' \in Seq(Configs) /\ Len(before') = Len(commit_id) + 1
    BY <1>0, <2>1, <2>3, Extended DEF IdsTypeOK
  <2>5. /\ log' \in Seq(Snapshots) /\ Len(log') \in Nat /\ Len(log') >= Len(log)
        /\ Len(log) \in Nat
    <3>1. CASE log' = log
      BY <1>0, <3>1 DEF NsoTypeOK
    <3>2. CASE log' = Append(log, running)
      BY <1>0, <3>2, Extended DEF NsoTypeOK
    <3>3. QED
      BY <2>2, <3>1, <3>2
  <2>6. NsoTypeOK'
    BY <1>0, <2>1, <2>2, <2>5 DEF NsoTypeOK
  <2>7. IdsTypeOK'
    <3>1. \A k \in DOMAIN commit_id : commit_id[k] \in Nat /\ commit_id[k] <= Len(log)
      BY <1>0 DEF IdsTypeOK
    <3>2. \A k \in DOMAIN commit_id' : commit_id'[k] <= Len(log')
      BY <2>1, <2>5, <3>1
    <3>3. QED
      BY <1>0, <2>1, <2>2, <2>4, <3>2 DEF IdsTypeOK
  <2>8. PlaceTypeOK'
    BY <1>0, <2>1, <2>5 DEF PlaceTypeOK
  <2>9. PlaceInv'
    BY <1>0, <2>1 DEF PlaceInv
  <2>10. QED
    BY <1>b, <2>1, <2>6, <2>7, <2>8, <2>9
<1>2. CASE RecordId
  <2> DEFINE id == IF committing = "empty" THEN None ELSE Len(log)
  <2>1. id \in Nat /\ id <= Len(log) /\ Len(log) \in Nat
    BY <1>0 DEF NsoTypeOK, None
  <2>2. /\ commit_id' = Append(commit_id, id) /\ call' = [call EXCEPT !.last = id]
        /\ ops' = Tail(ops) /\ committing' = "no" /\ committing # "no" /\ ops # <<>>
        /\ UNCHANGED <<nso, before, raced, phase, tsets, queue, targets, marks, failed_at>>
    BY <1>0, <1>2 DEF RecordId, PlaceInv
  <2> HIDE DEF id
  <2>3. /\ commit_id' \in Seq(Nat) /\ Len(commit_id') = Len(commit_id) + 1
        /\ Len(commit_id) \in Nat
        /\ \A k \in 1..Len(commit_id) : commit_id'[k] = commit_id[k]
        /\ commit_id'[Len(commit_id) + 1] = id
    BY <1>0, <2>1, <2>2, Extended DEF IdsTypeOK
  <2>4. \A k \in DOMAIN commit_id' : commit_id'[k] <= Len(log)
    <3>1. \A k \in 1..Len(commit_id) : commit_id[k] <= Len(log)
      BY <1>0 DEF IdsTypeOK
    <3>2. DOMAIN commit_id' = 1..Len(commit_id) + 1
      BY <2>3
    <3>3. QED
      BY <2>1, <2>3, <3>1, <3>2
  <2>5. call' \in [file : Seq(Files), base : Nat, last : Nat] /\ call'.last <= Len(log)
    BY <1>0, <2>1, <2>2 DEF PlaceTypeOK
  <2>6. ops' \in Seq(Ops)
    BY <1>0, <2>2, Rest DEF PlaceTypeOK
  <2>7. IdsTypeOK'
    BY <1>0, <2>2, <2>3, <2>4 DEF IdsTypeOK
  <2>8. PlaceTypeOK'
    BY <1>0, <2>2, <2>5, <2>6 DEF PlaceTypeOK
  <2>9. MarksTypeOK' /\ PlaceInv'
    BY <1>0, <2>2, <2>3 DEF MarksTypeOK, PlaceInv
  <2>10. QED
    BY <1>b, <2>2, <2>7, <2>8, <2>9
<1>3. CASE OtherCommit
  <2>1. /\ others' = others + 1 /\ log' = Append(log, running)
        /\ running' = [running EXCEPT !.rest = others + 1]
        /\ cand' \in {cand, [cand EXCEPT !.rest = others + 1]}
        /\ raced' = (raced \/ committing = "full")
        /\ UNCHANGED <<commit_id, committing, before, place, marks, failed_at>>
    BY <1>3 DEF OtherCommit
  <2>2. running' \in Snapshots /\ cand' \in Snapshots /\ others' \in Nat
    BY <1>0, <2>1 DEF NsoTypeOK, Snapshots
  <2>3. log' \in Seq(Snapshots) /\ Len(log') = Len(log) + 1 /\ Len(log) \in Nat
    BY <1>0, <2>1, Extended DEF NsoTypeOK
  <2>4. NsoTypeOK'
    BY <2>2, <2>3 DEF NsoTypeOK
  <2>5. IdsTypeOK'
    <3>1. \A k \in DOMAIN commit_id : commit_id[k] \in Nat /\ commit_id[k] <= Len(log)
      BY <1>0 DEF IdsTypeOK
    <3>2. \A k \in DOMAIN commit_id' : commit_id'[k] <= Len(log')
      BY <2>1, <2>3, <3>1
    <3>3. QED
      BY <1>0, <2>1, <3>2 DEF IdsTypeOK
  <2>6. PlaceTypeOK'
    BY <1>0, <2>1, <2>3 DEF PlaceTypeOK
  <2>7. PlaceInv'
    BY <1>0, <2>1 DEF PlaceInv
  <2>8. QED
    BY <1>b, <2>1, <2>4, <2>5, <2>6, <2>7
<1>4. CASE RollBack \/ Load \/ LoadSession \/ Compare
  <2>1. /\ ops # <<>> /\ committing = "no" /\ ops' = Tail(ops)
        /\ UNCHANGED <<running, log, others, ids, phase, tsets, queue, call, targets, marks,
                       failed_at>>
    BY <1>4 DEF RollBack, Load, LoadSession, Compare, At
  <2>2. cand' \in Snapshots
    <3>1. CASE RollBack
      BY <1>0, <3>1 DEF RollBack, NsoTypeOK, None
    <3>2. CASE Load
      <4>1. /\ call.file # <<>>
            /\ cand' = [cand EXCEPT !.dev = Effect[call.file[1]][cand.dev]]
        BY <3>2 DEF Load, At
      <4>2. call.file[1] \in Files /\ cand.dev \in Configs
        BY <1>0, <4>1 DEF Snapshots, NsoTypeOK, PlaceTypeOK
      <4>3. Effect[call.file[1]][cand.dev] \in Configs
        BY <4>2, RollbackAssumption
      <4>4. QED
        BY <1>0, <4>1, <4>3 DEF Snapshots, NsoTypeOK
    <3>3. CASE LoadSession
      BY <1>0, <3>3 DEF LoadSession, Snapshots, NsoTypeOK, MarksTypeOK
    <3>4. CASE Compare
      BY <1>0, <3>4 DEF Compare, NsoTypeOK
    <3>5. QED
      BY <1>4, <3>1, <3>2, <3>3, <3>4
  <2>3. ops' \in Seq(Ops)
    BY <1>0, <2>1, Rest DEF PlaceTypeOK
  <2>4. NsoTypeOK' /\ PlaceTypeOK' /\ PlaceInv'
    BY <1>0, <2>1, <2>2, <2>3 DEF NsoTypeOK, PlaceTypeOK, PlaceInv
  <2>5. QED
    BY <1>b, <2>1, <2>4
<1>5. CASE Fail
  <2>1. /\ phase' \in {"restore", "done", "teardown"}
        /\ phase' = "restore" => phase \in {"files", "end"}
        /\ ops' \in {<<>>, RestoreOps} /\ targets' = <<>> /\ queue' = <<>>
        /\ before' = SubSeq(before, 1, Len(commit_id)) /\ committing' = "no"
        /\ failed_at' = Len(commit_id)
        /\ UNCHANGED <<nso, commit_id, raced, tsets, call, marks>>
    BY <1>5 DEF Fail
  <2>2. before' \in Seq(Configs) /\ Len(before') = Len(commit_id) /\ Len(commit_id) \in Nat
    <3>1. Len(commit_id) \in 0..Len(before) /\ before \in Seq(Configs)
      BY <1>0 DEF IdsTypeOK
    <3>2. QED
      BY <2>1, <3>1, Beginning
  <2>3. ops' \in Seq(Ops) /\ targets' \in Seq(Nat) /\ queue' \in Seq(Files)
    BY <2>1, OpsTypes, EmptySeq
  <2>4. IdsTypeOK'
    BY <1>0, <2>1, <2>2 DEF IdsTypeOK
  <2>5. PlaceTypeOK' /\ PlaceInv'
    BY <1>0, <2>1, <2>3 DEF PlaceTypeOK, PlaceInv, Phases
  <2>6. QED
    BY <1>b, <2>1, <2>4, <2>5
<1>6. CASE InitFile \/ SetFile
  <2>1. /\ queue # <<>> /\ queue' = Tail(queue) /\ ops' \in {LoadOps, test.op}
        /\ call' = [file |-> <<Head(queue)>>, base |-> Len(commit_id), last |-> None]
        /\ ops = <<>>
        /\ UNCHANGED <<nso, ids, phase, tsets, targets, marks, failed_at>>
    BY <1>6 DEF InitFile, SetFile, Enter, Idle
  <2>2. Head(queue) \in Files /\ queue' \in Seq(Files)
    BY <1>0, <2>1, Rest DEF PlaceTypeOK
  <2>3. call' \in [file : Seq(Files), base : Nat, last : Nat] /\ call'.last <= Len(log)
    BY <1>0, <2>1, <2>2 DEF IdsTypeOK, NsoTypeOK, None
  <2>4. ops' \in Seq(Ops)
    BY <1>0, <2>1, OpsTypes DEF TestType, MarksTypeOK
  <2>5. PlaceTypeOK' /\ PlaceInv'
    BY <1>0, <2>1, <2>2, <2>3, <2>4 DEF PlaceTypeOK, PlaceInv
  <2>6. QED
    BY <1>b, <2>1, <2>5
<1>7. CASE InitDone
  <2>1. /\ init_stop' = Len(commit_id) /\ phase = "init" /\ phase' = "set"
        /\ UNCHANGED <<nso, ids, tsets, queue, call, ops, targets, test, set_base, saved,
                       set_start, failed_at>>
    BY <1>7 DEF InitDone, Idle
  <2>2. MarksTypeOK'
    BY <1>0, <2>1 DEF MarksTypeOK, IdsTypeOK
  <2>3. PlaceTypeOK' /\ PlaceInv'
    BY <1>0, <2>1 DEF PlaceTypeOK, PlaceInv, Phases
  <2>4. QED
    BY <1>b, <2>1, <2>2, <2>3
<1>8. CASE BeginSet
  <2>1. /\ set_base' = Len(commit_id) /\ set_start' = running.dev /\ queue' = Head(tsets)
        /\ phase = "set" /\ phase' = "files"
        /\ UNCHANGED <<nso, ids, tsets, call, ops, targets, test, init_stop, saved, failed_at>>
    BY <1>8 DEF BeginSet, Idle
  <2>2. Head(tsets) \in Seq(Files)
    BY <1>0, <2>1, Rest DEF PlaceInv, PlaceTypeOK
  <2>3. MarksTypeOK'
    BY <1>0, <2>1 DEF MarksTypeOK, IdsTypeOK, NsoTypeOK, Snapshots
  <2>4. PlaceTypeOK'
    BY <1>0, <2>1, <2>2 DEF PlaceTypeOK, Phases
  <2>5. PlaceInv'
    BY <1>0, <2>1 DEF PlaceInv, IdsTypeOK
  <2>6. QED
    BY <1>b, <2>1, <2>3, <2>4, <2>5
<1>9. CASE BeginEnd
  <2>1. /\ phase = "files" /\ phase' = "end" /\ ops = <<>>
        /\ call' = [file |-> <<>>, base |-> set_base, last |-> None]
        /\ \/ ops' = <<>> /\ targets' = EndTargets(Len(commit_id) - set_base)
           \/ ops' = test.end /\ UNCHANGED targets
        /\ UNCHANGED <<nso, ids, tsets, queue, marks, failed_at>>
    BY <1>9 DEF BeginEnd, Idle, Enter
  <2>2. Len(commit_id) - set_base \in Nat
    BY <1>0 DEF PlaceInv, MarksTypeOK, IdsTypeOK
  <2>3. ops' \in Seq(Ops)
    <3>1. test.end \in Seq(Ops)
      BY <1>0 DEF TestType, MarksTypeOK
    <3>2. QED
      BY <2>1, <3>1, EmptySeq
  <2>4. targets' \in Seq(Nat)
    BY <1>0, <2>1, <2>2, TargetsType DEF PlaceTypeOK
  <2>5. call' \in [file : Seq(Files), base : Nat, last : Nat] /\ call'.last <= Len(log)
    BY <1>0, <2>1 DEF MarksTypeOK, NsoTypeOK, None
  <2>6. PlaceTypeOK'
    BY <1>0, <2>1, <2>3, <2>4, <2>5 DEF PlaceTypeOK, Phases
  <2>7. PlaceInv'
    BY <1>0, <2>1 DEF PlaceInv
  <2>8. QED
    BY <1>b, <2>1, <2>6, <2>7
<1>10. CASE NextTarget
  <2>1. /\ targets # <<>> /\ targets' = Tail(targets) /\ ops = <<>>
        /\ ops' \in {RollbackOps("rollback+", Head(targets)), RollbackOps("undo", Head(targets))}
        /\ UNCHANGED <<nso, ids, phase, tsets, queue, call, marks, failed_at>>
    BY <1>10 DEF NextTarget, Idle
  <2>2. Head(targets) \in Nat /\ targets' \in Seq(Nat)
    BY <1>0, <2>1, Rest DEF PlaceTypeOK
  <2>3. ops' \in Seq(Ops)
    BY <2>1, <2>2, OpsTypes DEF OpNames
  <2>4. PlaceTypeOK' /\ PlaceInv'
    BY <1>0, <2>1, <2>2, <2>3 DEF PlaceTypeOK, PlaceInv
  <2>5. QED
    BY <1>b, <2>1, <2>4
<1>11. CASE EndSet
  <2>1. /\ ops = <<>> /\ tsets' = Tail(tsets) /\ phase \in {"end", "restore"}
        /\ \/ Len(tsets) > 1 /\ phase' = "set" /\ UNCHANGED targets
           \/ phase' = "back" /\ targets' = [k \in 1..init_stop |-> init_stop + 1 - k]
        /\ UNCHANGED <<nso, ids, queue, call, ops, marks, failed_at>>
    BY <1>11 DEF EndSet, Idle
  <2>2. tsets' \in Seq(Seq(Files)) /\ (Len(tsets) > 1 => tsets' # <<>>)
    BY <1>0, <2>1, Rest DEF PlaceInv, PlaceTypeOK
  <2>3. targets' \in Seq(Nat)
    <3>1. init_stop \in Nat /\ \A k \in 1..init_stop : init_stop + 1 - k \in Nat
      BY <1>0 DEF MarksTypeOK
    <3>2. [k \in 1..init_stop |-> init_stop + 1 - k] \in Seq(Nat)
      BY <3>1
    <3>3. QED
      BY <1>0, <2>1, <3>2 DEF PlaceTypeOK
  <2>4. PlaceTypeOK'
    BY <1>0, <2>1, <2>2, <2>3 DEF PlaceTypeOK, Phases
  <2>5. PlaceInv'
    BY <1>0, <2>1, <2>2 DEF PlaceInv
  <2>6. QED
    BY <1>b, <2>1, <2>4, <2>5
<1>12. CASE EndTest \/ Done
  <2>1. /\ phase' \in {"teardown", "done"} /\ ops' \in {ops, RestoreOps} /\ ops = <<>>
        /\ UNCHANGED <<nso, ids, tsets, queue, call, targets, marks, failed_at>>
    BY <1>12 DEF EndTest, Done, Idle
  <2>2. PlaceTypeOK' /\ PlaceInv'
    BY <1>0, <2>1, OpsTypes DEF PlaceTypeOK, PlaceInv, Phases
  <2>3. QED
    BY <1>b, <2>1, <2>2
<1>13. CASE UNCHANGED vars
  <2>1. PlaceInv'
    BY <1>0, <1>13 DEF vars, PlaceInv
  <2>2. QED
    BY <1>b, <1>13, <2>1 DEF vars
<1>14. QED
  BY <1>1, <1>2, <1>3, <1>4, <1>5, <1>6, <1>7, <1>8, <1>9, <1>10, <1>11, <1>12, <1>13
     DEF Next, Operation

LEMMA TypeBegins ==
  ASSUME InitDevice, test \in TestType, phase \in Phases, phase = "walk" \/ tsets # <<>>,
         tsets \in Seq(Seq(Files)), queue \in Seq(Files)
  PROVE  TypeInv
<1>1. /\ running \in Snapshots /\ cand = running /\ log = <<>> /\ others = 0
      /\ commit_id = <<>> /\ committing = "no" /\ before = <<>> /\ raced = FALSE
      /\ call = [file |-> <<>>, base |-> 0, last |-> 0] /\ ops = <<>> /\ targets = <<>>
      /\ set_base = 0 /\ init_stop = 0 /\ running.dev \in Configs
      /\ saved = running.dev /\ set_start = running.dev /\ failed_at = 0
  BY DEF InitDevice, Snapshots, None
<1>2. NsoTypeOK /\ IdsTypeOK
  <2>1. log \in Seq(Snapshots) /\ commit_id \in Seq(Nat) /\ before \in Seq(Configs)
    BY <1>1, EmptySeq
  <2>2. Len(log) = 0 /\ Len(commit_id) = 0 /\ Len(before) = 0 /\ DOMAIN commit_id = {}
    BY <1>1
  <2>3. NsoTypeOK
    BY <1>1, <2>1 DEF NsoTypeOK
  <2>4. Len(before) = Len(commit_id) + IF committing = "no" THEN 0 ELSE 1
    BY <1>1, <2>2
  <2>5. IdsTypeOK
    BY <1>1, <2>1, <2>2, <2>4 DEF IdsTypeOK
  <2>6. QED
    BY <2>3, <2>5
<1>3. PlaceTypeOK /\ MarksTypeOK
  BY <1>1 DEF PlaceTypeOK, MarksTypeOK
<1>4. PlaceInv
  BY <1>1 DEF PlaceInv
<1>5. QED
  BY <1>2, <1>3, <1>4 DEF TypeInv, TypeOK

LEMMA TypeInvariant == Spec => []TypeInv
<1>1. Init => TypeInv
  <2> SUFFICES ASSUME Init
               PROVE  TypeInv
    OBVIOUS
  <2>1. test \in TestType /\ Len(test.sets) > 0
    BY RollbackAssumption DEF Init
  <2>2. InitDevice /\ phase = "init" /\ tsets = test.sets /\ queue = test.init
    BY DEF Init
  <2>3. tsets \in Seq(Seq(Files)) /\ queue \in Seq(Files) /\ tsets # <<>>
    BY <2>1, <2>2 DEF TestType
  <2>4. phase \in Phases
    BY <2>2 DEF Phases
  <2>5. QED
    BY <2>1, <2>2, <2>3, <2>4, TypeBegins
<1>2. QED
  BY <1>1, TypeStep, PTL DEF Spec

\* DrNED's list of commit ids, the rollback files and the place in the test
\* keep their types, whatever fails and whoever else commits: each id that is
\* not None has its rollback file.
THEOREM TypeCorrect == Spec => []TypeOK
<1>1. TypeInv => TypeOK
  BY DEF TypeInv
<1>2. QED
  BY <1>1, TypeInvariant, PTL

----------------------------------------------------------------------------
(* What the list of ids says of the past                                   *)

\* The commit at position k is known to have been empty.
NoId(k) == IF k <= Len(commit_id) THEN commit_id[k] = None ELSE committing = "empty"

\* Commits without an id have changed nothing since the last failure, the
\* other ones have the configuration before them in their rollback file.
EmptyChangesNothing ==
  \A i, j \in 1..Len(before) + 1 :
    failed_at < i /\ i <= j /\ (\A k \in i..j - 1 : NoId(k)) => ConfigBefore(i) = ConfigBefore(j)

IdsHoldBefore ==
  ~raced => \A k \in 1..Len(commit_id) :
              commit_id[k] # None => log[commit_id[k]].dev = before[k]

NewestIsOurs ==
  committing = "full" => /\ Len(log) > 0
                         /\ ~raced => log[Len(log)].dev = before[Len(before)]

HistoryInv ==
  failed_at <= Len(commit_id) /\ EmptyChangesNothing /\ IdsHoldBefore /\ NewestIsOurs

LEMMA HistoryFrame ==
  ASSUME HistoryInv, UNCHANGED <<running, log, ids, failed_at>>
  PROVE  HistoryInv'
BY DEF HistoryInv, EmptyChangesNothing, IdsHoldBefore, NewestIsOurs, NoId, ConfigBefore, ids

LEMMA HistoryStep == TypeInv /\ HistoryInv /\ [Next]_vars => HistoryInv'
<1> SUFFICES ASSUME TypeInv, HistoryInv, [Next]_vars
             PROVE  HistoryInv'
  OBVIOUS
<1>0. /\ running \in Snapshots /\ cand \in Snapshots /\ log \in Seq(Snapshots)
      /\ commit_id \in Seq(Nat) /\ before \in Seq(Configs)
      /\ \A k \in 1..Len(commit_id) : commit_id[k] \in Nat /\ commit_id[k] <= Len(log)
      /\ Len(log) \in Nat /\ Len(commit_id) \in Nat /\ Len(before) \in Nat /\ failed_at \in Nat
      /\ Len(before) = Len(commit_id) + IF committing = "no" THEN 0 ELSE 1
      /\ running.dev \in Configs
      /\ committing \in {"no", "empty", "full"}
  BY DEF TypeInv, TypeOK, NsoTypeOK, IdsTypeOK, Snapshots
<1>h. failed_at <= Len(commit_id) /\ EmptyChangesNothing /\ IdsHoldBefore /\ NewestIsOurs
  BY DEF HistoryInv
<1>1. CASE Commit
  <2>0. PICK n \in Nat : n = Len(commit_id)
    BY <1>0
  <2>1. /\ committing = "no" /\ before' = Append(before, running.dev)
        /\ UNCHANGED <<commit_id, raced, failed_at, cand>>
    BY <1>1 DEF Commit, At, place, marks, nso
  <2>2. \/ committing' = "empty" /\ UNCHANGED <<running, log>> /\ cand = running
        \/ committing' = "full" /\ log' = Append(log, running) /\ running' = cand
    BY <1>1 DEF Commit, nso
  <2>3. /\ Len(before) = n /\ Len(before') = n + 1 /\ before'[n + 1] = running.dev
        /\ \A k \in 1..n : before'[k] = before[k]
    BY <1>0, <2>0, <2>1, Extended
  <2>4. /\ \A i \in 1..n + 1 : ConfigBefore(i)' = ConfigBefore(i)
        /\ ConfigBefore(n + 2)' = running'.dev /\ ConfigBefore(n + 1) = running.dev
    BY <1>0, <2>0, <2>3 DEF ConfigBefore
  <2>5. /\ \A k \in 1..n : NoId(k)' <=> NoId(k)
        /\ NoId(n + 1)' => committing' = "empty"
    BY <1>0, <2>0, <2>1 DEF NoId
  <2>6. EmptyChangesNothing'
    <3> SUFFICES ASSUME NEW i \in 1..Len(before') + 1, NEW j \in 1..Len(before') + 1,
                        failed_at' < i, i <= j, \A k \in i..j - 1 : NoId(k)'
                 PROVE  ConfigBefore(i)' = ConfigBefore(j)'
      BY DEF EmptyChangesNothing
    <3>1. i \in 1..n + 2 /\ j \in 1..n + 2 /\ n \in Nat
      BY <2>3
    <3>2. CASE j <= n + 1
      <4>1. /\ i \in 1..Len(before) + 1 /\ j \in 1..Len(before) + 1
            /\ \A k \in i..j - 1 : NoId(k)
        BY <2>3, <2>5, <3>1, <3>2
      <4>2. ConfigBefore(i) = ConfigBefore(j)
        BY <1>h, <2>1, <4>1 DEF EmptyChangesNothing
      <4>3. QED
        BY <2>3, <2>4, <4>1, <4>2
    <3>3. CASE j = n + 2 /\ i < j
      <4>1. NoId(n + 1)' /\ \A k \in i..n : NoId(k)
        BY <2>5, <3>1, <3>3
      <4>2. running'.dev = running.dev
        BY <2>2, <2>5, <4>1
      <4>3. ConfigBefore(i) = ConfigBefore(n + 1)
        <5>1. i \in 1..Len(before) + 1 /\ n + 1 \in 1..Len(before) + 1 /\ i <= n + 1 /\ n + 1 - 1 = n
          BY <2>3, <3>1, <3>3
        <5>2. QED
          BY <1>h, <2>1, <4>1, <5>1 DEF EmptyChangesNothing
      <4>4. QED
        BY <2>4, <3>1, <3>3, <4>2, <4>3
    <3>4. CASE j = n + 2 /\ i = j
      BY <3>4
    <3>5. QED
      BY <3>1, <3>2, <3>3, <3>4
  <2>7. IdsHoldBefore'
    <3>1. \A k \in 1..Len(log) : log'[k] = log[k]
      BY <1>0, <2>2, Extended
    <3>2. QED
      BY <1>0, <1>h, <2>0, <2>1, <2>3, <3>1 DEF IdsHoldBefore, None
  <2>8. NewestIsOurs'
    BY <1>0, <2>2, <2>3, Extended DEF NewestIsOurs
  <2>9. QED
    BY <1>h, <2>1, <2>6, <2>7, <2>8 DEF HistoryInv
<1>2. CASE RecordId
  <2>0. PICK n \in Nat, id \in Nat :
          n = Len(commit_id) /\ id = IF committing = "empty" THEN None ELSE Len(log)
    BY <1>0 DEF None
  <2>1. /\ commit_id' = Append(commit_id, id) /\ committing' = "no" /\ committing # "no"
        /\ UNCHANGED <<running, log, before, raced, failed_at>>
    BY <1>2, <2>0 DEF RecordId, nso
  <2>2. id \in Nat /\ Len(before) = n + 1
    BY <1>0, <2>0, <2>1
  <2>3. /\ Len(commit_id') = n + 1 /\ commit_id'[n + 1] = id
        /\ \A k \in 1..n : commit_id'[k] = commit_id[k]
    BY <1>0, <2>0, <2>1, <2>2, Extended
  <2>4. committing = "full" => Len(log) > 0
    BY <1>h DEF NewestIsOurs
  <2>5. \A k \in 1..n + 1 : NoId(k)' => NoId(k)
    <3>1. NoId(n + 1)' => id = None
      BY <2>3 DEF NoId
    <3>2. id = None => committing = "empty"
      BY <1>0, <2>0, <2>1, <2>4 DEF None
    <3>3. committing = "empty" => NoId(n + 1)
      BY <2>0 DEF NoId
    <3>4. \A k \in 1..n : NoId(k)' => NoId(k)
      BY <2>0, <2>3 DEF NoId
    <3>5. QED
      BY <3>1, <3>2, <3>3, <3>4
  <2>6. \A i \in 1..n + 2 : ConfigBefore(i)' = ConfigBefore(i)
    BY <2>1 DEF ConfigBefore
  <2>7. EmptyChangesNothing'
    <3> SUFFICES ASSUME NEW i \in 1..Len(before) + 1, NEW j \in 1..Len(before) + 1,
                        failed_at < i, i <= j, \A k \in i..j - 1 : NoId(k)'
                 PROVE  ConfigBefore(i)' = ConfigBefore(j)'
      BY <2>1 DEF EmptyChangesNothing
    <3>1. \A k \in i..j - 1 : k \in 1..n + 1 /\ NoId(k)
      BY <2>2, <2>5
    <3>2. QED
      BY <1>h, <2>2, <2>6, <3>1 DEF EmptyChangesNothing
  <2>8. IdsHoldBefore'
    <3> SUFFICES ASSUME ~raced, NEW k \in 1..n + 1, commit_id'[k] # None
                 PROVE  log[commit_id'[k]].dev = before[k]
      BY <2>1, <2>3 DEF IdsHoldBefore
    <3>1. CASE k \in 1..n
      BY <1>h, <2>0, <2>3, <3>1 DEF IdsHoldBefore
    <3>2. CASE k = n + 1
      BY <1>0, <1>h, <2>0, <2>1, <2>2, <2>3, <3>2 DEF NewestIsOurs
    <3>3. QED
      BY <3>1, <3>2
  <2>9. QED
    BY <1>0, <1>h, <2>0, <2>1, <2>3, <2>7, <2>8 DEF HistoryInv, NewestIsOurs
<1>3. CASE OtherCommit
  <2>1. /\ log' = Append(log, running) /\ running' = [running EXCEPT !.rest = others + 1]
        /\ ~raced' => ~raced /\ committing # "full"
        /\ UNCHANGED <<commit_id, committing, before, failed_at>>
    BY <1>3 DEF OtherCommit
  <2>2. /\ running'.dev = running.dev /\ Len(log') = Len(log) + 1
        /\ \A k \in 1..Len(log) : log'[k] = log[k]
    BY <1>0, <2>1, Extended DEF Snapshots
  <2>3. EmptyChangesNothing'
    <3>1. /\ \A i \in 1..Len(before) + 1 : ConfigBefore(i)' = ConfigBefore(i)
          /\ \A k \in 1..Len(before) + 1 : NoId(k)' <=> NoId(k)
      BY <2>1, <2>2 DEF NoId, ConfigBefore
    <3>2. \A i, j \in 1..Len(before) + 1 : \A k \in i..j - 1 : k \in 1..Len(before) + 1
      BY <1>0
    <3>3. QED
      BY <1>h, <2>1, <3>1, <3>2 DEF EmptyChangesNothing
  <2>4. IdsHoldBefore'
    BY <1>0, <1>h, <2>1, <2>2 DEF IdsHoldBefore, None
  <2>5. NewestIsOurs'
    BY <1>0, <2>1, <2>2 DEF NewestIsOurs
  <2>6. QED
    BY <1>h, <2>1, <2>3, <2>4, <2>5 DEF HistoryInv
<1>4. CASE Fail
  <2>1. /\ before' = SubSeq(before, 1, Len(commit_id)) /\ committing' = "no"
        /\ failed_at' = Len(commit_id)
        /\ UNCHANGED <<running, log, commit_id, raced>>
    BY <1>4 DEF Fail, nso
  <2>2. /\ Len(before') = Len(commit_id)
        /\ \A k \in 1..Len(commit_id) : before'[k] = before[k]
    <3>1. Len(commit_id) \in 0..Len(before)
      BY <1>0
    <3>2. QED
      BY <1>0, <2>1, <3>1, Beginning
  <2>3. EmptyChangesNothing'
    <3> SUFFICES ASSUME NEW i \in 1..Len(before') + 1, NEW j \in 1..Len(before') + 1,
                        failed_at' < i, i <= j
                 PROVE  ConfigBefore(i)' = ConfigBefore(j)'
      BY DEF EmptyChangesNothing
    <3>1. i = j
      BY <1>0, <2>1, <2>2
    <3>2. QED
      BY <3>1
  <2>4. IdsHoldBefore' /\ NewestIsOurs'
    BY <1>h, <2>1, <2>2 DEF IdsHoldBefore, NewestIsOurs
  <2>5. QED
    BY <1>0, <2>1, <2>3, <2>4 DEF HistoryInv
<1>5. CASE UNCHANGED <<running, log, ids, failed_at>>
  BY <1>5, HistoryFrame
<1>6. \/ Commit \/ RecordId \/ OtherCommit \/ Fail
      \/ UNCHANGED <<running, log, ids, failed_at>>
  BY DEF Next, Operation, vars, nso, ids, RollBack, Load, LoadSession, Compare, InitFile,
         InitDone, BeginSet, SetFile, BeginEnd, NextTarget, EndSet, EndTest, Done
<1>7. QED
  BY <1>1, <1>2, <1>3, <1>4, <1>5, <1>6

\* The id that commit_id_next() comes to leads to the configuration before i.
LEMMA Reaches ==
  ASSUME TypeInv, HistoryInv, committing = "no", ~raced, cand.dev = running.dev,
         NEW i \in Nat \ {0}, i > failed_at, NEW id \in Nat, NextId(i, id),
         cand' = IF id = None THEN cand ELSE log[id]
  PROVE  cand'.dev = ConfigBefore(i)
<1>0. /\ Len(before) = Len(commit_id) /\ Len(commit_id) \in Nat /\ failed_at \in Nat
  BY DEF TypeInv, TypeOK, IdsTypeOK
<1>1. \A k \in 1..Len(commit_id) : NoId(k) <=> commit_id[k] = None
  BY <1>0 DEF NoId
<1>2. CASE EmptyFrom(i) /\ id = None
  <2>1. cand'.dev = running.dev
    BY <1>2
  <2>2. CASE i > Len(commit_id)
    BY <1>0, <2>1, <2>2 DEF ConfigBefore
  <2>3. CASE i <= Len(commit_id)
    <3> DEFINE j == Len(commit_id) + 1
    <3>1. /\ i \in 1..Len(before) + 1 /\ j \in 1..Len(before) + 1 /\ i <= j
          /\ \A k \in i..j - 1 : k \in i..Len(commit_id) /\ k \in 1..Len(commit_id)
      BY <1>0, <2>3
    <3>2. \A k \in i..j - 1 : NoId(k)
      BY <1>1, <1>2, <3>1 DEF EmptyFrom
    <3>3. ConfigBefore(i) = ConfigBefore(j)
      BY <3>1, <3>2 DEF HistoryInv, EmptyChangesNothing
    <3>4. ConfigBefore(j) = running.dev
      BY <1>0 DEF ConfigBefore
    <3>5. QED
      BY <2>1, <3>3, <3>4
  <2>4. QED
    BY <1>0, <2>2, <2>3
<1>3. ASSUME NEW j \in i..Len(commit_id),
             commit_id[j] # None, id = commit_id[j], \A k \in i..j - 1 : commit_id[k] = None
      PROVE  cand'.dev = ConfigBefore(i)
  <2>1. /\ i \in 1..Len(before) + 1 /\ j \in 1..Len(before) + 1 /\ i <= j /\ j \in 1..Len(commit_id)
        /\ \A k \in i..j - 1 : k \in 1..Len(commit_id)
    BY <1>0
  <2>2. \A k \in i..j - 1 : NoId(k)
    BY <1>1, <1>3, <2>1
  <2>3. ConfigBefore(i) = ConfigBefore(j)
    BY <2>1, <2>2 DEF HistoryInv, EmptyChangesNothing
  <2>4. ConfigBefore(j) = before[j]
    BY <1>0, <2>1 DEF ConfigBefore
  <2>5. cand'.dev = before[j]
    BY <1>3, <2>1 DEF HistoryInv, IdsHoldBefore
  <2>6. QED
    BY <2>3, <2>4, <2>5
<1>4. QED
  BY <1>2, <1>3 DEF NextId

LEMMA HistoryBegins == InitDevice => HistoryInv
<1> SUFFICES ASSUME InitDevice
             PROVE  HistoryInv
  OBVIOUS
<1>1. commit_id = <<>> /\ before = <<>> /\ committing = "no" /\ failed_at = 0
  BY DEF InitDevice
<1>2. Len(commit_id) = 0 /\ Len(before) = 0
  BY <1>1
<1>3. EmptyChangesNothing
  <2> SUFFICES ASSUME NEW i \in 1..Len(before) + 1, NEW j \in 1..Len(before) + 1
               PROVE  ConfigBefore(i) = ConfigBefore(j)
    BY DEF EmptyChangesNothing
  <2>1. i = j
    BY <1>2
  <2>2. QED
    BY <2>1
<1>4. QED
  BY <1>1, <1>2, <1>3 DEF HistoryInv, IdsHoldBefore, NewestIsOurs

LEMMA HistoryInvariant == Spec => []HistoryInv
<1>1. Init => HistoryInv
  BY HistoryBegins DEF Init
<1>2. QED
  BY <1>1, HistoryStep, TypeInvariant, PTL DEF Spec

\* rollback+N and rollback-N reach the configuration before the commit they
\* name, for any tests and commits, empty ones and those of other sessions
\* among them.
THEOREM RollbacksReach == Spec => RollbackReaches
<1> DEFINE o == Head(ops)
           i == IF o.do = "rollback+" THEN Forth(o.n) ELSE Back(o.n)
           Named == /\ RollBack
                    /\ o.do = "rollback+" \/ (o.do = "rollback-" /\ ~EmptyFrom(i))
                    /\ cand.dev = running.dev /\ ~raced /\ i > failed_at
<1>1. ASSUME TypeInv, HistoryInv, Named
      PROVE  cand'.dev = ConfigBefore(i)
  <2>1. PICK id \in 0..Len(log) : Target(o, id) /\ cand' = IF id = None THEN cand ELSE log[id]
    BY <1>1 DEF RollBack
  <2>2. /\ o \in Ops /\ committing = "no" /\ call.base \in Nat /\ Len(commit_id) \in Nat
        /\ Len(log) \in Nat
    <3>1. ops # <<>> /\ ops \in Seq(Ops) /\ committing = "no"
      BY <1>1 DEF RollBack, TypeInv, TypeOK, PlaceTypeOK
    <3>2. o \in Ops
      BY <3>1, Rest
    <3>3. QED
      BY <1>1, <3>1, <3>2 DEF TypeInv, TypeOK, PlaceTypeOK, IdsTypeOK, NsoTypeOK
  <2>3. o.n \in Nat
    BY <2>2 DEF Ops
  <2>4. i \in Nat \ {0} /\ NextId(i, id)
    <3>1. CASE o.do = "rollback+"
      BY <2>1, <2>2, <2>3, <3>1 DEF Target, Forth
    <3>2. CASE o.do = "rollback-" /\ ~EmptyFrom(i)
      BY <2>1, <2>2, <2>3, <3>2 DEF Target, Back
    <3>3. QED
      BY <1>1, <3>1, <3>2
  <2> HIDE DEF i
  <2>5. QED
    BY <1>1, <2>1, <2>2, <2>4, Reaches
<1>2. TypeInv /\ HistoryInv => [Named => cand'.dev = ConfigBefore(i)]_vars
  BY <1>1
<1>3. QED
  BY <1>2, HistoryInvariant, TypeInvariant, PTL DEF RollbackReaches


----------------------------------------------------------------------------
(***************************************************************************)
(* That the tests come back: a set to where it began, and a test to the    *)
(* configuration that it found, for any files, sets, init files and        *)
(* failures, and commits of other sessions.                                *)
(***************************************************************************)

(***************************************************************************)
(* What is left of a list of operations.                                   *)
(***************************************************************************)
LastCompare == <<Do("compare")>>
RollbackLast == <<Do("rollback")>> \o CommitCompare
AfterLoad == CommitCompare \o RollbackLast
AfterCommit == LastCompare \o RollbackLast

(***************************************************************************)
(* The inductive invariant says of each place of the test where the device *)
(* is, and what the operations that are left will make of it.              *)
(***************************************************************************)
\* What DrNED would commit does not change the device.
Steady == cand.dev = running.dev

\* Loading a file and committing it.
LoadRound ==
  \/ ops = <<>> /\ Steady
  \/ ops = LoadOps
  \/ ops = CommitCompare /\ (committing # "no" => Steady)
  \/ ops = LastCompare /\ Steady

\* The commit to roll back to has left the device where the set began.
Undoable(id) ==
  IF id = None THEN running.dev = set_start /\ Steady ELSE log[id].dev = set_start

\* The end of a rollback to where the set began.
HomeRound ==
  \/ ops = CommitCompare /\ cand.dev = set_start /\ (committing # "no" => Steady)
  \/ ops \in {LastCompare, <<>>} /\ cand.dev = set_start /\ Steady

\* Loading a file, committing it and rolling it back.
SingleRound ==
  \/ ops = SingleOps /\ running.dev = set_start
  \/ ops = AfterLoad /\ committing = "no" /\ running.dev = set_start
  \/ ops = AfterLoad /\ committing = "empty" /\ running.dev = set_start /\ Steady
  \/ ops = AfterLoad /\ committing = "full" /\ before[Len(before)] = set_start
  \/ ops \in {AfterCommit, RollbackLast} /\ Undoable(call.last)
  \/ HomeRound

\* The way back: its last rollback is the one to where the set began, and a
\* load that was not committed is gone by then.
EndRound ==
  \/ /\ ops = <<>>
     /\ IF targets = <<>> THEN cand.dev = set_start /\ Steady
        ELSE targets[Len(targets)] = 0 /\ (Steady \/ Len(targets) > 1)
  \/ \E t \in Nat :
       /\ ops = RollbackOps("rollback+", t)
       /\ IF targets = <<>> THEN t = 0 /\ Steady ELSE targets[Len(targets)] = 0
  \/ /\ ops = CommitCompare /\ (committing # "no" => Steady)
     /\ IF targets = <<>> THEN cand.dev = set_start ELSE targets[Len(targets)] = 0
  \/ /\ ops = LastCompare /\ Steady
     /\ IF targets = <<>> THEN cand.dev = set_start ELSE targets[Len(targets)] = 0

\* The device is restored.
RestoreRound ==
  \/ ops = RestoreOps
  \/ ops = CommitCompare /\ cand.dev = saved /\ (committing # "no" => Steady)
  \/ ops \in {LastCompare, <<>>} /\ cand.dev = saved /\ Steady

\* The init files up to number n have changed nothing.
NoInit(n) == \A k \in 1..n : commit_id[k] = None

\* With the init files after number n undone the device is back, unless one of
\* those before has still to be undone.
Undone(n) == cand.dev = saved \/ ~NoInit(n)

BackRound ==
  /\ Len(targets) <= init_stop
  /\ \A k \in 1..Len(targets) : targets[k] = Len(targets) + 1 - k
  /\ \/ ops \in {CommitCompare, LastCompare, <<>>} /\ Undone(Len(targets))
     \/ /\ Len(targets) < init_stop
        /\ ops = RollbackOps("undo", Len(targets) + 1) /\ Undone(Len(targets) + 1)

(* The parts of the invariant. *)

\* The init files begin with the session.
InitInv ==
  phase = "init" =>
    /\ failed_at = 0 /\ init_stop = 0 /\ ConfigBefore(1) = saved
    /\ tsets = test.sets /\ LoadRound

\* What the init files have changed since.
PastInv ==
  phase # "init" =>
    \A j \in 1..init_stop : NoInit(j - 1) => before[j] = saved

\* A set begins where the first one did, if nothing is to be taken away.
SetInv ==
  phase = "set" =>
    /\ ops = <<>> /\ Steady
    /\ NoInit(init_stop) => running.dev = saved
    /\ (init_stop = 0 \/ failed_at = 0) /\ tsets # test.sets => running.dev = set_start

StartInv ==
  /\ phase \in {"files", "end", "restore"} => (NoInit(init_stop) => set_start = saved)
  /\ phase \in {"files", "end"} => failed_at <= set_base /\ ConfigBefore(set_base + 1) = set_start
  /\ phase = "restore" => failed_at >= init_stop

FilesInv ==
  phase = "files" =>
    /\ test.op = LoadOps => LoadRound
    /\ test.op = SingleOps /\ test.end = <<>> => SingleRound

PlacesInv ==
  /\ phase \in {"init", "set", "files", "restore"} => targets = <<>>
  /\ phase = "end" => call.base = set_base /\ EndRound
  /\ phase = "restore" => RestoreRound
  /\ phase = "back" => BackRound

\* An id is looked up for the commit that is next on the list.
CommitInv == committing # "no" => ops # <<>> /\ Head(ops).do = "commit"

ReturnInv ==
  Returns /\ ~raced => InitInv /\ PastInv /\ SetInv /\ StartInv /\ FilesInv /\ PlacesInv

----------------------------------------------------------------------------
(* Lists of operations                                                     *)

LEMMA Tuples ==
  /\ \A a : Head(<<a>>) = a /\ Tail(<<a>>) = <<>> /\ <<a>> # <<>>
  /\ \A a, b : Head(<<a, b>>) = a /\ Tail(<<a, b>>) = <<b>> /\ <<a, b>> # <<>>
OBVIOUS

LEMMA Prefixed ==
  ASSUME NEW S, NEW a \in S, NEW q \in Seq(S)
  PROVE  /\ <<a>> \o q \in Seq(S) /\ <<a>> \o q # <<>>
         /\ Head(<<a>> \o q) = a /\ Tail(<<a>> \o q) = q
<1>1. <<a>> \in Seq(S)
  OBVIOUS
<1>2. QED
  BY <1>1

LEMMA OpLists ==
  /\ LoadOps # <<>> /\ Head(LoadOps).do = "load" /\ Tail(LoadOps) = CommitCompare
  /\ RestoreOps # <<>> /\ Head(RestoreOps).do = "session" /\ Tail(RestoreOps) = CommitCompare
  /\ CommitCompare # <<>> /\ Head(CommitCompare).do = "commit" /\ Tail(CommitCompare) = LastCompare
  /\ LastCompare # <<>> /\ Head(LastCompare).do = "compare" /\ Tail(LastCompare) = <<>>
  /\ SingleOps # <<>> /\ Head(SingleOps).do = "load" /\ Tail(SingleOps) = AfterLoad
  /\ AfterLoad # <<>> /\ Head(AfterLoad).do = "commit" /\ Tail(AfterLoad) = AfterCommit
  /\ AfterCommit # <<>> /\ Head(AfterCommit).do = "compare" /\ Tail(AfterCommit) = RollbackLast
  /\ RollbackLast # <<>> /\ Head(RollbackLast).do = "rollback" /\ Tail(RollbackLast) = CommitCompare
<1>1. /\ Do("load") \in Ops /\ Do("commit") \in Ops /\ Do("compare") \in Ops
      /\ Do("session") \in Ops /\ Do("rollback") \in Ops
  BY DEF Do, Ops, OpNames
<1>2. CommitCompare \in Seq(Ops) /\ LastCompare \in Seq(Ops) /\ <<Do("load")>> \in Seq(Ops)
  BY <1>1 DEF CommitCompare, LastCompare
<1>3. RollbackLast \in Seq(Ops) /\ AfterCommit \in Seq(Ops)
  BY <1>1, <1>2, Prefixed DEF RollbackLast, AfterCommit
<1>4. AfterLoad = <<Do("commit")>> \o AfterCommit
  <2>1. CommitCompare = <<Do("commit")>> \o LastCompare
    BY <1>1 DEF CommitCompare, LastCompare
  <2>2. <<Do("commit")>> \in Seq(Ops)
    BY <1>1
  <2>3. (<<Do("commit")>> \o LastCompare) \o RollbackLast
         = <<Do("commit")>> \o (LastCompare \o RollbackLast)
    BY <1>2, <1>3, <2>2, ConcatAssociative
  <2>4. QED
    BY <2>1, <2>3 DEF AfterLoad, AfterCommit
<1>5. AfterLoad \in Seq(Ops)
  BY <1>1, <1>3, <1>4, Prefixed
<1>6. SingleOps = <<Do("load")>> \o AfterLoad
  <2>1. SingleOps = (<<Do("load")>> \o CommitCompare) \o RollbackLast
    <3>1. SingleOps = ((<<Do("load")>> \o CommitCompare) \o <<Do("rollback")>>) \o CommitCompare
      BY DEF SingleOps, LoadOps
    <3>2. <<Do("rollback")>> \in Seq(Ops) /\ <<Do("load")>> \o CommitCompare \in Seq(Ops)
      BY <1>1, <1>2, Prefixed
    <3>3. QED
      BY <1>2, <3>1, <3>2, ConcatAssociative DEF RollbackLast
  <2>2. QED
    BY <1>2, <1>3, <2>1, ConcatAssociative DEF AfterLoad
<1>7. LoadOps # <<>> /\ Head(LoadOps) = Do("load") /\ Tail(LoadOps) = CommitCompare
  BY <1>1, <1>2, Prefixed DEF LoadOps
<1>8. RestoreOps # <<>> /\ Head(RestoreOps) = Do("session") /\ Tail(RestoreOps) = CommitCompare
  BY <1>1, <1>2, Prefixed DEF RestoreOps
<1>9. /\ CommitCompare # <<>> /\ Head(CommitCompare) = Do("commit")
      /\ Tail(CommitCompare) = LastCompare
      /\ LastCompare # <<>> /\ Head(LastCompare) = Do("compare") /\ Tail(LastCompare) = <<>>
  BY Tuples DEF CommitCompare, LastCompare
<1>10. SingleOps # <<>> /\ Head(SingleOps) = Do("load") /\ Tail(SingleOps) = AfterLoad
  BY <1>1, <1>5, <1>6, Prefixed
<1>11. AfterLoad # <<>> /\ Head(AfterLoad) = Do("commit") /\ Tail(AfterLoad) = AfterCommit
  BY <1>1, <1>3, <1>4, Prefixed
<1>12. AfterCommit # <<>> /\ Head(AfterCommit) = Do("compare") /\ Tail(AfterCommit) = RollbackLast
  BY <1>1, <1>3, Prefixed DEF AfterCommit, LastCompare
<1>13. /\ RollbackLast # <<>> /\ Head(RollbackLast) = Do("rollback")
       /\ Tail(RollbackLast) = CommitCompare
  BY <1>1, <1>2, Prefixed DEF RollbackLast
<1>14. \A name : Do(name).do = name
  BY DEF Do
<1>15. QED
  BY <1>7, <1>8, <1>9, <1>10, <1>11, <1>12, <1>13, <1>14

LEMMA RollbackLists ==
  ASSUME NEW name \in OpNames, NEW n \in Nat
  PROVE  /\ RollbackOps(name, n) # <<>>
         /\ Head(RollbackOps(name, n)).do = name /\ Head(RollbackOps(name, n)).n = n
         /\ Tail(RollbackOps(name, n)) = CommitCompare
<1>1. [do |-> name, n |-> n] \in Ops /\ CommitCompare \in Seq(Ops)
  BY DEF Ops, Do, OpNames, CommitCompare
<1>2. QED
  BY <1>1, Prefixed DEF RollbackOps
----------------------------------------------------------------------------
(* What an operation, or another session, leaves alone                     *)

OpStep == Commit \/ RecordId \/ RollBack \/ Load \/ LoadSession \/ Compare

\* The commits so far, and what the device was before them.
Past ==
  /\ \A n \in 0..init_stop : NoInit(n)' = NoInit(n)
  /\ \A j \in 1..init_stop : before'[j] = before[j]
  /\ \A i \in 1..Len(before) + 1 : ConfigBefore(i)' = ConfigBefore(i)

LEMMA PastKept ==
  ASSUME TypeInv, OpStep \/ OtherCommit
  PROVE  Past
<1>0. /\ init_stop \in Nat /\ Len(commit_id) \in Nat /\ init_stop <= Len(commit_id)
      /\ Len(before) \in Nat /\ Len(commit_id) <= Len(before)
      /\ before \in Seq(Configs) /\ running \in Snapshots /\ running.dev \in Configs
      /\ commit_id \in Seq(Nat) /\ Len(log) \in Nat
  BY DEF TypeInv, TypeOK, IdsTypeOK, MarksTypeOK, NsoTypeOK, Snapshots
<1>1. /\ \A k \in 1..Len(before) : before'[k] = before[k]
      /\ \A i \in 1..Len(before) + 1 : ConfigBefore(i)' = ConfigBefore(i)
  <2>1. CASE Commit
    <3>1. before' = Append(before, running.dev)
      BY <2>1 DEF Commit
    <3>2. /\ Len(before') = Len(before) + 1 /\ before'[Len(before) + 1] = running.dev
          /\ \A k \in 1..Len(before) : before'[k] = before[k]
      BY <1>0, <3>1, Extended
    <3>3. QED
      BY <1>0, <3>2 DEF ConfigBefore
  <2>2. CASE ~Commit
    <3>1. before' = before /\ running'.dev = running.dev
      BY <1>0, <2>2 DEF OpStep, RecordId, RollBack, Load, LoadSession, Compare, OtherCommit,
         nso, ids, Snapshots
    <3>2. QED
      BY <3>1 DEF ConfigBefore
  <2>3. QED
    BY <2>1, <2>2
<1>2. \A k \in 1..Len(commit_id) : commit_id'[k] = commit_id[k]
  <2>1. CASE RecordId
    <3>1. PICK id \in Nat : commit_id' = Append(commit_id, id)
      BY <1>0, <2>1 DEF RecordId, None
    <3>2. QED
      BY <1>0, <3>1, Extended
  <2>2. CASE ~RecordId
    <3>1. commit_id' = commit_id
      BY <2>2 DEF OpStep, Commit, RollBack, Load, LoadSession, Compare, OtherCommit, ids
    <3>2. QED
      BY <3>1
  <2>3. QED
    BY <2>1, <2>2
<1>3. \A n \in 0..init_stop : NoInit(n)' = NoInit(n)
  BY <1>0, <1>2 DEF NoInit
<1>4. QED
  BY <1>0, <1>1, <1>3 DEF Past

\* The next operation is done, or half of it.
Commits ==
  /\ committing = "no" /\ Head(ops).do = "commit"
  /\ committing' \in {"empty", "full"} /\ ops' = ops
  /\ cand' = cand /\ running'.dev = cand.dev
  /\ committing' = "empty" => cand.dev = running.dev
  /\ before'[Len(before')] = running.dev /\ UNCHANGED call

Records ==
  /\ committing # "no" /\ Head(ops).do = "commit"
  /\ committing' = "no" /\ ops' = Tail(ops)
  /\ UNCHANGED nso

Does(name) ==
  /\ committing = "no" /\ Head(ops).do = name
  /\ committing' = "no" /\ ops' = Tail(ops)
  /\ UNCHANGED <<running, log, ids, call>>

LEMMA OpKinds ==
  ASSUME TypeInv, CommitInv, OpStep
  PROVE  /\ ops # <<>>
         /\ UNCHANGED <<phase, tsets, queue, targets, marks, failed_at, raced>>
         /\ call'.base = call.base
         /\ \/ Commits \/ Records
            \/ Does("load") \/ (Does("session") /\ cand'.dev = saved)
            \/ (Does("compare") /\ cand' = cand)
            \/ /\ \E name \in {"rollback", "latest", "undo", "rollback+", "rollback-"} : Does(name)
               /\ RollBack
<1>0. /\ call \in [file : Seq(Files), base : Nat, last : Nat]
      /\ running \in Snapshots /\ cand \in Snapshots /\ before \in Seq(Configs)
      /\ running.dev \in Configs /\ saved \in Configs
  BY DEF TypeInv, TypeOK, PlaceTypeOK, NsoTypeOK, IdsTypeOK, MarksTypeOK, Snapshots
<1>1. CASE Commit
  <2>1. /\ ops # <<>> /\ Head(ops).do = "commit" /\ committing = "no"
        /\ before' = Append(before, running.dev)
        /\ UNCHANGED <<raced, place, marks, failed_at, cand>>
        /\ \/ committing' = "empty" /\ cand = running /\ running' = running
           \/ committing' = "full" /\ running' = cand
    BY <1>1 DEF Commit, At, nso
  <2>2. before'[Len(before')] = running.dev
    BY <1>0, <2>1, Extended
  <2>3. Commits
    BY <2>1, <2>2 DEF Commits, place
  <2>4. QED
    BY <2>1, <2>3 DEF place
<1>2. CASE RecordId
  <2>1. committing # "no" /\ ops # <<>> /\ Head(ops).do = "commit"
    BY <1>2 DEF RecordId, CommitInv
  <2>2. Records /\ call'.base = call.base
    BY <1>0, <1>2, <2>1 DEF RecordId, Records
  <2>3. QED
    BY <1>2, <2>1, <2>2 DEF RecordId
<1>3. CASE RollBack
  <2>1. /\ ops # <<>> /\ committing = "no" /\ ops' = Tail(ops)
        /\ UNCHANGED <<running, log, ids, phase, tsets, queue, call, targets, marks, failed_at>>
        /\ Head(ops).do \in {"rollback", "latest", "undo", "rollback+", "rollback-"}
    BY <1>3 DEF RollBack, Target
  <2>2. QED
    BY <1>3, <2>1 DEF Does, ids
<1>4. CASE Load
  BY <1>4 DEF Load, At, Does, ids
<1>5. CASE LoadSession
  BY <1>0, <1>5 DEF LoadSession, At, Does, ids, Snapshots
<1>6. CASE Compare
  BY <1>6 DEF Compare, At, Does, ids, nso
<1>7. QED
  BY <1>1, <1>2, <1>3, <1>4, <1>5, <1>6 DEF OpStep

LEMMA OthersKeep ==
  ASSUME TypeInv, OtherCommit
  PROVE  /\ running'.dev = running.dev /\ cand'.dev = cand.dev
         /\ Len(log') = Len(log) + 1 /\ \A k \in 1..Len(log) : log'[k] = log[k]
         /\ UNCHANGED <<commit_id, committing, before, place, marks, failed_at>>
         /\ ~raced' => ~raced
<1>1. running \in Snapshots /\ cand \in Snapshots /\ log \in Seq(Snapshots)
  BY DEF TypeInv, TypeOK, NsoTypeOK
<1>2. /\ log' = Append(log, running)
      /\ running' = [running EXCEPT !.rest = others + 1]
      /\ cand' \in {cand, [cand EXCEPT !.rest = others + 1]}
      /\ UNCHANGED <<commit_id, committing, before, place, marks, failed_at>>
      /\ ~raced' => ~raced
  BY DEF OtherCommit
<1>3. QED
  BY <1>1, <1>2, Extended DEF Snapshots

----------------------------------------------------------------------------
(* The operations of a round                                               *)

LEMMA LoadRoundStep ==
  ASSUME TypeInv, CommitInv, LoadRound, OpStep
  PROVE  LoadRound'
<1>1. CASE ops = LoadOps
  BY <1>1, OpKinds, OpLists DEF LoadRound, Commits, Records, Does
<1>2. CASE ops = CommitCompare /\ (committing # "no" => Steady)
  BY <1>2, OpKinds, OpLists DEF LoadRound, Commits, Records, Does, Steady, nso
<1>3. CASE ops = LastCompare /\ Steady
  BY <1>3, OpKinds, OpLists DEF LoadRound, Commits, Records, Does, Steady
<1>4. QED
  BY <1>1, <1>2, <1>3, OpKinds DEF LoadRound

LEMMA HomeRoundStep ==
  ASSUME TypeInv, CommitInv, HomeRound, OpStep
  PROVE  HomeRound'
<1>1. UNCHANGED set_start
  BY OpKinds DEF marks
<1>2. CASE ops = CommitCompare /\ cand.dev = set_start /\ (committing # "no" => Steady)
  BY <1>1, <1>2, OpKinds, OpLists DEF HomeRound, Commits, Records, Does, Steady, nso
<1>3. CASE ops \in {LastCompare, <<>>} /\ cand.dev = set_start /\ Steady
  BY <1>1, <1>3, OpKinds, OpLists DEF HomeRound, Commits, Records, Does, Steady
<1>4. QED
  BY <1>2, <1>3 DEF HomeRound

LEMMA RestoreRoundStep ==
  ASSUME TypeInv, CommitInv, RestoreRound, OpStep
  PROVE  RestoreRound'
<1>1. UNCHANGED saved
  BY OpKinds DEF marks
<1>2. CASE ops = RestoreOps
  BY <1>1, <1>2, OpKinds, OpLists DEF RestoreRound, Commits, Records, Does
<1>3. CASE ops = CommitCompare /\ cand.dev = saved /\ (committing # "no" => Steady)
  BY <1>1, <1>3, OpKinds, OpLists DEF RestoreRound, Commits, Records, Does, Steady, nso
<1>4. CASE ops \in {LastCompare, <<>>} /\ cand.dev = saved /\ Steady
  BY <1>1, <1>4, OpKinds, OpLists DEF RestoreRound, Commits, Records, Does, Steady
<1>5. QED
  BY <1>2, <1>3, <1>4 DEF RestoreRound
LEMMA SingleRoundStep ==
  ASSUME TypeInv, HistoryInv, CommitInv, ~raced, SingleRound, OpStep
  PROVE  SingleRound'
<1>1. UNCHANGED set_start
  BY OpKinds DEF marks
<1>2. CASE ops = SingleOps /\ running.dev = set_start
  BY <1>1, <1>2, OpKinds, OpLists DEF SingleRound, Commits, Records, Does
<1>3. CASE ops = AfterLoad /\ committing = "no" /\ running.dev = set_start
  BY <1>1, <1>3, OpKinds, OpLists DEF SingleRound, Commits, Records, Does, Steady
<1>4. ASSUME ops = AfterLoad, committing # "no",
             \/ committing = "empty" /\ running.dev = set_start /\ Steady
             \/ committing = "full" /\ before[Len(before)] = set_start
      PROVE  SingleRound'
  <2>1. Records
    BY <1>4, OpKinds, OpLists DEF Commits, Does
  <2>2. RecordId
    BY <2>1 DEF Records, OpStep, Commit, At, RollBack, Load, LoadSession, Compare
  <2>3. /\ call'.last = IF committing = "empty" THEN None ELSE Len(log)
        /\ ops' = AfterCommit /\ UNCHANGED <<running, cand, log>>
    BY <1>4, <2>2, OpLists DEF RecordId, nso, TypeInv, TypeOK, PlaceTypeOK
  <2>4. committing = "full" => Len(log) # None /\ log[Len(log)].dev = set_start
    BY <1>4 DEF HistoryInv, NewestIsOurs, None
  <2>5. Undoable(call.last)'
    BY <1>1, <1>4, <2>3, <2>4 DEF Undoable, Steady
  <2>6. QED
    BY <2>3, <2>5 DEF SingleRound
<1>5. CASE ops = AfterCommit /\ Undoable(call.last)
  BY <1>1, <1>5, OpKinds, OpLists DEF SingleRound, Commits, Records, Does, Undoable, Steady
<1>6. ASSUME ops = RollbackLast, Undoable(call.last)
      PROVE  SingleRound'
  <2>1. RollBack /\ ops' = CommitCompare /\ running' = running /\ committing' = "no"
    BY <1>6, OpKinds, OpLists DEF Commits, Records, Does
  <2>2. cand' = IF call.last = None THEN cand ELSE log[call.last]
    BY <1>6, <2>1, OpLists DEF RollBack, Target
  <2>3. cand'.dev = set_start
    BY <1>6, <2>2 DEF Undoable, Steady
  <2>4. QED
    BY <1>1, <2>1, <2>3 DEF SingleRound, HomeRound
<1>7. CASE HomeRound
  BY <1>7, HomeRoundStep DEF SingleRound
<1>8. QED
  BY <1>2, <1>3, <1>4, <1>5, <1>6, <1>7 DEF SingleRound

LEMMA EndRoundStep ==
  ASSUME TypeInv, HistoryInv, CommitInv, ~raced, EndRound, OpStep,
         call.base = set_base, failed_at <= set_base, ConfigBefore(set_base + 1) = set_start
  PROVE  EndRound'
<1>0. set_base \in Nat /\ failed_at \in Nat /\ targets \in Seq(Nat) /\ Len(log) \in Nat
  BY DEF TypeInv, TypeOK, MarksTypeOK, IdsTypeOK, PlaceTypeOK, NsoTypeOK
<1>1. UNCHANGED <<set_start, targets>>
  BY OpKinds DEF marks
<1>2. ASSUME NEW t \in Nat, ops = RollbackOps("rollback+", t),
             IF targets = <<>> THEN t = 0 /\ Steady ELSE targets[Len(targets)] = 0
      PROVE  EndRound'
  <2>1. /\ Head(ops).do = "rollback+" /\ Head(ops).n = t /\ Tail(ops) = CommitCompare
    BY <1>2, RollbackLists DEF OpNames
  <2>2. RollBack /\ ops' = CommitCompare /\ committing = "no" /\ committing' = "no"
    BY <2>1, OpKinds DEF Commits, Records, Does
  <2>3. targets = <<>> => cand'.dev = set_start
    <3>1. SUFFICES ASSUME targets = <<>>
                   PROVE  cand'.dev = set_start
      OBVIOUS
    <3>2. PICK id \in 0..Len(log) : NextId(set_base + 1, id)
                                     /\ cand' = IF id = None THEN cand ELSE log[id]
      <4>1. Forth(t) = set_base + 1
        BY <1>0, <1>2, <3>1 DEF Forth
      <4>2. QED
        BY <2>1, <2>2, <4>1 DEF RollBack, Target
    <3>3. /\ set_base + 1 \in Nat \ {0} /\ set_base + 1 > failed_at /\ id \in Nat
          /\ cand.dev = running.dev
      BY <1>0, <1>2, <3>1 DEF Steady
    <3>4. QED
      BY <2>2, <3>2, <3>3, Reaches
  <2>4. QED
    BY <1>1, <1>2, <2>2, <2>3 DEF EndRound
<1>3. ASSUME ops = CommitCompare, committing # "no" => Steady,
             IF targets = <<>> THEN cand.dev = set_start ELSE targets[Len(targets)] = 0
      PROVE  EndRound'
  <2>1. \/ ops' = CommitCompare /\ committing' # "no" /\ Steady' /\ cand' = cand
        \/ ops' = LastCompare /\ Steady' /\ cand' = cand
    BY <1>3, OpKinds, OpLists DEF Commits, Records, Does, Steady, nso
  <2>2. QED
    BY <1>1, <1>3, <2>1 DEF EndRound
<1>4. ASSUME ops = LastCompare, Steady,
             IF targets = <<>> THEN cand.dev = set_start ELSE targets[Len(targets)] = 0
      PROVE  EndRound'
  <2>1. ops' = <<>> /\ Steady' /\ cand' = cand
    BY <1>4, OpKinds, OpLists DEF Commits, Records, Does, Steady
  <2>2. QED
    BY <1>1, <1>4, <2>1 DEF EndRound
<1>5. ops # <<>>
  BY OpKinds
<1>6. QED
  BY <1>2, <1>3, <1>4, <1>5 DEF EndRound

LEMMA BackRoundStep ==
  ASSUME TypeInv, HistoryInv, CommitInv, ~raced, BackRound, OpStep,
         \A j \in 1..init_stop : NoInit(j - 1) => before[j] = saved
  PROVE  BackRound'
<1>0. /\ init_stop \in Nat /\ targets \in Seq(Nat) /\ Len(targets) \in Nat
      /\ init_stop <= Len(commit_id) /\ Len(commit_id) \in Nat /\ commit_id \in Seq(Nat)
  BY DEF TypeInv, TypeOK, MarksTypeOK, PlaceTypeOK, IdsTypeOK
<1>1. UNCHANGED <<saved, targets, init_stop>>
  BY OpKinds DEF marks
<1>2. Past
  BY PastKept
<1>3. ASSUME NEW n \in 0..init_stop, Undone(n), cand' = cand
      PROVE  Undone(n)'
  BY <1>1, <1>2, <1>3 DEF Undone, Past
<1>4. Len(targets) \in 0..init_stop
  BY <1>0 DEF BackRound
<1>5. ASSUME ops \in {CommitCompare, LastCompare}, Undone(Len(targets))
      PROVE  BackRound'
  <2>1. cand' = cand /\ ops' \in {CommitCompare, LastCompare, <<>>}
    BY <1>5, OpKinds, OpLists DEF Commits, Records, Does, nso
  <2>2. Undone(Len(targets))'
    BY <1>1, <1>3, <1>4, <1>5, <2>1
  <2>3. QED
    BY <1>1, <2>1, <2>2 DEF BackRound
<1>6. ASSUME Len(targets) < init_stop, ops = RollbackOps("undo", Len(targets) + 1),
             Undone(Len(targets) + 1)
      PROVE  BackRound'
  <2>0. PICK t \in 1..init_stop : t = Len(targets) + 1 /\ t - 1 = Len(targets)
    BY <1>0, <1>6
  <2>1. Head(ops).do = "undo" /\ Head(ops).n = t /\ Tail(ops) = CommitCompare
    <3>1. t \in Nat /\ ops = RollbackOps("undo", t) /\ "undo" \in OpNames
      BY <1>0, <1>6, <2>0 DEF OpNames
    <3>2. QED
      BY <3>1, RollbackLists
  <2>2. RollBack /\ ops' = CommitCompare /\ commit_id' = commit_id
    BY <2>1, OpKinds DEF Commits, Records, Does, ids
  <2>3. cand' = IF commit_id[t] = None THEN cand ELSE log[commit_id[t]]
    BY <2>1, <2>2 DEF RollBack, Target
  <2>4. NoInit(t - 1) /\ commit_id[t] = None => NoInit(t)
    <3>1. \A k \in 1..t : k \in 1..t - 1 \/ k = t
      BY <2>0
    <3>2. QED
      BY <3>1 DEF NoInit
  <2>5. Undone(t - 1)'
    <3>1. SUFFICES ASSUME NoInit(t - 1)'
                   PROVE  cand'.dev = saved
      BY <1>1 DEF Undone
    <3>2. NoInit(t - 1)
      BY <2>2, <3>1 DEF NoInit
    <3>3. CASE commit_id[t] = None
      BY <1>6, <2>0, <2>3, <2>4, <3>2, <3>3 DEF Undone
    <3>4. CASE commit_id[t] # None
      <4>1. before[t] = saved
        BY <2>0, <3>2
      <4>2. log[commit_id[t]].dev = before[t]
        <5>1. t \in 1..Len(commit_id)
          BY <1>0
        <5>2. QED
          BY <3>4, <5>1 DEF HistoryInv, IdsHoldBefore
      <4>3. QED
        BY <2>3, <3>4, <4>1, <4>2
    <3>5. QED
      BY <3>3, <3>4
  <2>6. Undone(Len(targets))'
    BY <1>1, <2>0, <2>5
  <2>7. QED
    BY <1>1, <2>2, <2>6 DEF BackRound
<1>7. ops # <<>>
  BY OpKinds
<1>8. QED
  BY <1>5, <1>6, <1>7 DEF BackRound

(* Another session does not disturb them. *)

LEMMA RoundsAndOthers ==
  ASSUME TypeInv, OtherCommit
  PROVE  /\ LoadRound => LoadRound'
         /\ SingleRound => SingleRound'
         /\ EndRound => EndRound'
         /\ RestoreRound => RestoreRound'
         /\ BackRound => BackRound'
<1>1. /\ running'.dev = running.dev /\ cand'.dev = cand.dev
      /\ \A k \in 1..Len(log) : log'[k] = log[k]
      /\ UNCHANGED <<commit_id, committing, before, ops, call, targets, saved, set_start,
                     init_stop>>
  BY OthersKeep DEF place, marks
<1>2. call.last \in Nat /\ call.last <= Len(log) /\ Len(log) \in Nat
  BY DEF TypeInv, TypeOK, PlaceTypeOK, NsoTypeOK
<1>3. Undoable(call.last) => Undoable(call.last)'
  BY <1>1, <1>2 DEF Undoable, Steady, None
<1>4. LoadRound => LoadRound'
  BY <1>1 DEF LoadRound, Steady
<1>5. SingleRound => SingleRound'
  BY <1>1, <1>3 DEF SingleRound, HomeRound, Steady
<1>6. EndRound => EndRound'
  BY <1>1 DEF EndRound, Steady
<1>7. RestoreRound => RestoreRound'
  BY <1>1 DEF RestoreRound, Steady
<1>8. BackRound => BackRound'
  BY <1>1 DEF BackRound, Undone, NoInit
<1>9. QED
  BY <1>4, <1>5, <1>6, <1>7, <1>8
----------------------------------------------------------------------------
(* Between two rounds                                                      *)

LEMMA RoundsEnd ==
  ASSUME ops = <<>>, targets \in Seq(Nat)
  PROVE  /\ LoadRound => Steady
         /\ SingleRound => cand.dev = set_start /\ Steady
         /\ EndRound => IF targets = <<>> THEN cand.dev = set_start /\ Steady
                        ELSE targets[Len(targets)] = 0 /\ (Steady \/ Len(targets) > 1)
         /\ RestoreRound => cand.dev = saved /\ Steady
         /\ BackRound => Undone(Len(targets))
<1>1. \A name \in {"rollback+", "undo"}, n \in Nat : RollbackOps(name, n) # <<>>
  <2>1. "rollback+" \in OpNames /\ "undo" \in OpNames
    BY DEF OpNames
  <2>2. QED
    BY <2>1, RollbackLists
<1>2. Len(targets) + 1 \in Nat
  OBVIOUS
<1>3. LoadRound => Steady
  BY OpLists DEF LoadRound
<1>4. SingleRound => cand.dev = set_start /\ Steady
  BY OpLists DEF SingleRound, HomeRound
<1>5. EndRound => IF targets = <<>> THEN cand.dev = set_start /\ Steady
                  ELSE targets[Len(targets)] = 0 /\ (Steady \/ Len(targets) > 1)
  BY <1>1, OpLists DEF EndRound
<1>6. RestoreRound => cand.dev = saved /\ Steady
  BY OpLists DEF RestoreRound
<1>7. BackRound => Undone(Len(targets))
  BY <1>1, <1>2, OpLists DEF BackRound
<1>8. QED
  BY <1>3, <1>4, <1>5, <1>6, <1>7

LEMMA Joined ==
  ASSUME NEW S, NEW q \in Seq(S), NEW r \in Seq(S), Len(r) > 0
  PROVE  /\ (q \o r)[Len(q \o r)] = r[Len(r)]
         /\ Len(q \o r) = Len(q) + Len(r) /\ q \o r # <<>>
<1>1. Len(q) \in Nat /\ Len(r) \in Nat
  OBVIOUS
<1>2. QED
  BY <1>1

\* The last rollback is the one to the start.
LEMMA EndsAtStart ==
  ASSUME NEW n \in Nat, NEW end, end = EndTargets(n)
  PROVE  /\ test.all => end # <<>> /\ Len(end) > 1
         /\ n > 0 => end # <<>>
         /\ end # <<>> => end[Len(end)] = 0
<1> DEFINE start == IF test.all THEN <<0, n>> ELSE <<>>
           way == [k \in 1..n |-> n - k]
<1>1. way \in Seq(Nat) /\ Len(way) = n /\ (n > 0 => way[n] = 0)
  <2>1. \A k \in 1..n : n - k \in Nat
    OBVIOUS
  <2>2. QED
    BY <2>1
<1>2. /\ start \in Seq(Nat)
      /\ test.all => Len(start) = 2 /\ start # <<>> /\ start[2] = n
      /\ ~test.all => start = <<>>
  <2>1. <<0, n>> \in Seq(Nat) /\ Len(<<0, n>>) = 2 /\ <<0, n>> # <<>> /\ <<0, n>>[2] = n
    OBVIOUS
  <2>2. <<>> \in Seq(Nat)
    OBVIOUS
  <2>3. CASE test.all
    BY <2>1, <2>3
  <2>4. CASE ~test.all
    BY <2>2, <2>4
  <2>5. QED
    BY <2>3, <2>4
<1>3. end = start \o way
  BY DEF EndTargets
<1> HIDE DEF start, way
<1>4. CASE n > 0
  <2>0. Len(way) > 0
    BY <1>1, <1>4
  <2>1. /\ (start \o way)[Len(start \o way)] = way[Len(way)] /\ start \o way # <<>>
        /\ Len(start \o way) = Len(start) + Len(way)
    BY <1>1, <1>2, <2>0, Joined
  <2>2. (start \o way)[Len(start \o way)] = 0 /\ Len(start \o way) = Len(start) + n
    BY <1>1, <1>4, <2>1
  <2>3. test.all => Len(start \o way) > 1
    <3>1. SUFFICES ASSUME test.all
                   PROVE  Len(start \o way) > 1
      OBVIOUS
    <3>2. Len(start) = 2
      BY <1>2, <3>1
    <3>3. QED
      BY <1>4, <2>2, <3>2
  <2>4. QED
    BY <1>3, <2>1, <2>2, <2>3
<1>5. CASE n = 0
  <2>1. way = <<>>
    BY <1>1, <1>5, EmptySeq
  <2>2. end = start
    BY <1>2, <1>3, <2>1, ConcatEmptySeq
  <2>3. test.all => start # <<>> /\ Len(start) > 1 /\ start[Len(start)] = 0
    <3>1. SUFFICES ASSUME test.all
                   PROVE  start # <<>> /\ Len(start) > 1 /\ start[Len(start)] = 0
      OBVIOUS
    <3>2. Len(start) = 2 /\ start # <<>> /\ start[2] = n
      BY <1>2, <3>1
    <3>3. QED
      BY <1>5, <3>2
  <2>4. QED
    BY <1>2, <1>5, <2>2, <2>3
<1>6. QED
  BY <1>4, <1>5

\* What remains of a list of targets.
LEMMA NextTargets ==
  ASSUME NEW q \in Seq(Nat), q # <<>>
  PROVE  /\ Head(q) = q[1] /\ Head(q) \in Nat
         /\ Len(Tail(q)) = Len(q) - 1 /\ Len(q) \in Nat \ {0}
         /\ \A k \in 1..Len(Tail(q)) : Tail(q)[k] = q[k + 1]
         /\ Tail(q) = <<>> <=> Len(q) = 1
         /\ Tail(q) # <<>> => Tail(q)[Len(Tail(q))] = q[Len(q)]
<1>1. /\ Head(q) = q[1] /\ Head(q) \in Nat /\ Tail(q) \in Seq(Nat)
      /\ Len(Tail(q)) = Len(q) - 1 /\ Len(q) \in Nat \ {0}
      /\ \A k \in 1..Len(Tail(q)) : Tail(q)[k] = q[k + 1]
  OBVIOUS
<1>2. Tail(q) = <<>> <=> Len(q) = 1
  <2>1. Len(Tail(q)) = 0 <=> Len(q) = 1
    BY <1>1
  <2>2. Tail(q) = <<>> <=> Len(Tail(q)) = 0
    BY <1>1, EmptySeq
  <2>3. QED
    BY <2>1, <2>2, Zenon
<1>3. Tail(q) # <<>> => Tail(q)[Len(Tail(q))] = q[Len(q)]
  BY <1>1, <1>2
<1>4. QED
  BY <1>1, <1>2, <1>3

----------------------------------------------------------------------------
(* The steps of a test                                                     *)

LEMMA CommitStep == TypeInv /\ CommitInv /\ [Next]_vars => CommitInv'
<1> SUFFICES ASSUME TypeInv, CommitInv, [Next]_vars
             PROVE  CommitInv'
  OBVIOUS
<1>1. CASE Commit
  BY <1>1 DEF Commit, At, CommitInv, place
<1>2. CASE RecordId \/ Fail
  BY <1>2 DEF RecordId, Fail, CommitInv
<1>3. CASE RollBack \/ Load \/ LoadSession \/ Compare
  BY <1>3 DEF RollBack, Load, LoadSession, Compare, At, CommitInv, ids
<1>4. CASE OtherCommit \/ UNCHANGED vars
  BY <1>4 DEF OtherCommit, CommitInv, vars, ids, place
<1>5. CASE InitFile \/ InitDone \/ BeginSet \/ SetFile \/ BeginEnd \/ NextTarget
           \/ EndSet \/ EndTest \/ Done
  BY <1>5 DEF InitFile, InitDone, BeginSet, SetFile, BeginEnd, NextTarget, EndSet, EndTest, Done,
              Idle, CommitInv, ids
<1>6. QED
  BY <1>1, <1>2, <1>3, <1>4, <1>5 DEF Next, Operation

\* The tests and the mishap stay what they are.
LEMMA ReturnsStill ==
  ASSUME TypeInv, [Next]_vars, (Returns /\ ~raced)'
  PROVE  Returns /\ ~raced /\ test' = test
<1>1. test' = test /\ (raced => raced')
  <2>1. CASE OtherCommit
    BY <2>1 DEF OtherCommit, marks
  <2>2. CASE Commit \/ RecordId \/ RollBack \/ Load \/ LoadSession \/ Compare \/ Fail
    BY <2>2 DEF Commit, RecordId, RollBack, Load, LoadSession, Compare, Fail, marks, ids
  <2>3. CASE InitFile \/ InitDone \/ BeginSet \/ SetFile \/ BeginEnd \/ NextTarget
             \/ EndSet \/ EndTest \/ Done
    BY <2>3 DEF InitFile, InitDone, BeginSet, SetFile, BeginEnd, NextTarget, EndSet, EndTest, Done,
                marks, ids
  <2>4. CASE UNCHANGED vars
    BY <2>4 DEF vars, marks, ids
  <2>5. QED
    BY <2>1, <2>2, <2>3, <2>4 DEF Next, Operation
<1>2. QED
  BY <1>1 DEF Returns

AllInv == InitInv /\ PastInv /\ SetInv /\ StartInv /\ FilesInv /\ PlacesInv

\* The rounds go on, whoever else commits.
LEMMA RoundsGoOn ==
  ASSUME TypeInv, HistoryInv, CommitInv, AllInv, Returns, ~raced, OpStep \/ OtherCommit
  PROVE  AllInv'
<1>0. /\ init_stop \in Nat /\ set_base \in Nat /\ Len(before) \in Nat
      /\ init_stop <= Len(commit_id) /\ Len(commit_id) \in Nat /\ set_base <= Len(commit_id)
      /\ Len(commit_id) <= Len(before)
  BY DEF TypeInv, TypeOK, MarksTypeOK, IdsTypeOK, PlaceInv
<1>1. /\ \A n \in 0..init_stop : NoInit(n)' = NoInit(n)
      /\ \A j \in 1..init_stop : before'[j] = before[j]
      /\ \A i \in 1..Len(before) + 1 : ConfigBefore(i)' = ConfigBefore(i)
  BY PastKept DEF Past
<1>2. /\ UNCHANGED <<phase, tsets, targets, marks, failed_at>> /\ call'.base = call.base
      /\ OpStep => ops # <<>>
  BY OpKinds, OthersKeep DEF place
<1>3. UNCHANGED <<test, set_base, init_stop, saved, set_start>>
  BY <1>2 DEF marks
<1>4. /\ ConfigBefore(1)' = ConfigBefore(1)
      /\ ConfigBefore(set_base + 1)' = ConfigBefore(set_base + 1)
      /\ NoInit(init_stop)' = NoInit(init_stop)
  BY <1>0, <1>1, <1>3
<1>5. /\ LoadRound => LoadRound'
      /\ SingleRound => SingleRound'
      /\ RestoreRound => RestoreRound'
  BY LoadRoundStep, SingleRoundStep, RestoreRoundStep, RoundsAndOthers
<1>6. InitInv'
  BY <1>2, <1>3, <1>4, <1>5 DEF AllInv, InitInv
<1>7. PastInv'
  BY <1>0, <1>1, <1>2, <1>3 DEF AllInv, PastInv
<1>8. SetInv'
  <2>1. CASE OpStep
    BY <1>2, <2>1 DEF AllInv, SetInv
  <2>2. CASE OtherCommit
    <3>1. running'.dev = running.dev /\ cand'.dev = cand.dev /\ ops' = ops
      BY <2>2, OthersKeep DEF place
    <3>2. QED
      BY <1>2, <1>3, <1>4, <3>1 DEF AllInv, SetInv, Steady
  <2>3. QED
    BY <2>1, <2>2
<1>9. StartInv'
  BY <1>2, <1>3, <1>4 DEF AllInv, StartInv
<1>10. FilesInv'
  BY <1>2, <1>3, <1>5 DEF AllInv, FilesInv
<1>11. PlacesInv'
  <2>1. phase = "end" => EndRound'
    BY EndRoundStep, RoundsAndOthers DEF AllInv, PlacesInv, StartInv
  <2>2. phase = "back" => BackRound'
    BY BackRoundStep, RoundsAndOthers DEF AllInv, PlacesInv, PastInv
  <2>3. QED
    BY <1>2, <1>3, <1>5, <2>1, <2>2 DEF AllInv, PlacesInv
<1>12. QED
  BY <1>6, <1>7, <1>8, <1>9, <1>10, <1>11 DEF AllInv

\* After a failure the device is restored.
LEMMA FailureReturns ==
  ASSUME TypeInv, HistoryInv, AllInv, Fail
  PROVE  AllInv'
<1>0. /\ init_stop \in Nat /\ Len(commit_id) \in 0..Len(before) /\ init_stop <= Len(commit_id)
      /\ before \in Seq(Configs) /\ Len(commit_id) \in Nat
  BY DEF TypeInv, TypeOK, MarksTypeOK, IdsTypeOK
<1>1. /\ phase' \in {"restore", "teardown", "done"}
      /\ phase' = "restore" => phase \in {"files", "end"} /\ ops' = RestoreOps
      /\ targets' = <<>>
      /\ before' = SubSeq(before, 1, Len(commit_id))
      /\ failed_at' = Len(commit_id)
      /\ UNCHANGED <<commit_id, marks>>
  BY DEF Fail
<1>2. UNCHANGED <<init_stop, saved, set_start>>
  BY <1>1 DEF marks
<1>3. \A j \in 1..init_stop : before'[j] = before[j]
  BY <1>0, <1>1, Beginning
<1>4. PastInv'
  <2>1. phase = "init" => init_stop = 0
    BY DEF AllInv, InitInv
  <2>2. init_stop' = init_stop /\ saved' = saved /\ commit_id' = commit_id
    BY <1>1, <1>2
  <2>3. CASE phase = "init"
    <3>1. \A j \in 1..init_stop : FALSE
      BY <2>1, <2>3
    <3>2. QED
      BY <2>2, <3>1 DEF PastInv
  <2>4. CASE phase # "init"
    <3>1. \A j \in 1..init_stop : NoInit(j - 1) => before[j] = saved
      BY <2>4 DEF AllInv, PastInv
    <3>2. QED
      BY <1>3, <2>2, <3>1 DEF PastInv, NoInit
  <2>5. QED
    BY <2>3, <2>4
<1>5. StartInv'
  BY <1>0, <1>1, <1>2 DEF AllInv, StartInv, NoInit
<1>6. InitInv' /\ SetInv' /\ FilesInv' /\ PlacesInv'
  BY <1>1 DEF InitInv, SetInv, FilesInv, PlacesInv, RestoreRound
<1>7. QED
  BY <1>4, <1>5, <1>6 DEF AllInv

\* A step of the test changes neither the device nor the list of commits.
LEMMA Unmoved ==
  ASSUME TypeInv, CommitInv, ops = <<>>, UNCHANGED <<nso, ids, failed_at>>
  PROVE  /\ UNCHANGED <<running, cand, commit_id, before, failed_at, raced>>
         /\ \A n : NoInit(n)' = NoInit(n)
         /\ \A i : ConfigBefore(i)' = ConfigBefore(i)
         /\ Steady' = Steady
         /\ Len(before) = Len(commit_id) /\ Len(commit_id) \in Nat
         /\ ConfigBefore(Len(commit_id) + 1) = running.dev
<1>1. UNCHANGED <<running, cand, commit_id, before, failed_at, raced>>
  BY DEF nso, ids
<1>2. Len(before) = Len(commit_id) /\ Len(commit_id) \in Nat
  BY DEF CommitInv, TypeInv, TypeOK, IdsTypeOK
<1>3. QED
  BY <1>1, <1>2 DEF NoInit, ConfigBefore, Steady

\* The init files that have changed nothing leave the device as it was.
LEMMA InitKeeps ==
  ASSUME TypeInv, HistoryInv, CommitInv, ops = <<>>, failed_at = 0, ConfigBefore(1) = saved
  PROVE  /\ \A j \in 1..Len(commit_id) : NoInit(j - 1) => before[j] = saved
         /\ NoInit(Len(commit_id)) => running.dev = saved
<1>0. Len(before) = Len(commit_id) /\ Len(commit_id) \in Nat
  BY DEF CommitInv, TypeInv, TypeOK, IdsTypeOK
<1>1. ASSUME NEW j \in 1..Len(commit_id) + 1, NoInit(j - 1)
      PROVE  ConfigBefore(j) = saved
  <2>1. 1 \in 1..Len(before) + 1 /\ j \in 1..Len(before) + 1 /\ failed_at < 1 /\ 1 <= j
    BY <1>0
  <2>2. \A k \in 1..j - 1 : NoId(k)
    BY <1>0, <1>1 DEF NoInit, NoId
  <2>3. ConfigBefore(1) = ConfigBefore(j)
    BY <2>1, <2>2 DEF HistoryInv, EmptyChangesNothing
  <2>4. QED
    BY <2>3
<1>2. \A j \in 1..Len(commit_id) : j \in 1..Len(commit_id) + 1 /\ ConfigBefore(j) = before[j]
  BY <1>0 DEF ConfigBefore
<1>3. LET n == Len(commit_id)
      IN n + 1 \in 1..n + 1 /\ n + 1 - 1 = n /\ ConfigBefore(n + 1) = running.dev
  BY <1>0 DEF ConfigBefore
<1>4. \A j \in 1..Len(commit_id) : NoInit(j - 1) => before[j] = saved
  BY <1>1, <1>2
<1>5. NoInit(Len(commit_id)) => running.dev = saved
  BY <1>1, <1>3
<1>6. QED
  BY <1>4, <1>5

PlanStep == InitFile \/ InitDone \/ BeginSet \/ SetFile \/ BeginEnd \/ NextTarget
            \/ EndSet \/ EndTest \/ Done

LEMMA TestSteps ==
  ASSUME PlanStep
  PROVE  ops = <<>> /\ UNCHANGED <<nso, ids, failed_at, saved, test>>
<1>1. CASE InitFile \/ SetFile \/ BeginEnd \/ NextTarget \/ EndSet \/ EndTest \/ Done
  BY <1>1 DEF InitFile, SetFile, BeginEnd, NextTarget, EndSet, EndTest, Done, Idle, marks
<1>2. CASE InitDone \/ BeginSet
  BY <1>2 DEF InitDone, BeginSet, Idle
<1>3. QED
  BY <1>1, <1>2 DEF PlanStep
\* Steps that leave set_base, set_start and init_stop as they are.
LEMMA MarksKept ==
  ASSUME TypeInv, CommitInv, AllInv, PlanStep, UNCHANGED marks
  PROVE  /\ phase # "init" => PastInv'
         /\ phase' \in {"files", "end"} /\ phase \in {"files", "end"} => StartInv'
<1>1. /\ ops = <<>> /\ UNCHANGED <<nso, ids, failed_at>>
      /\ UNCHANGED <<init_stop, set_base, set_start, saved>>
  BY TestSteps DEF marks
<1>2. /\ UNCHANGED <<before, failed_at>>
      /\ \A n : NoInit(n)' = NoInit(n)
      /\ \A i : ConfigBefore(i)' = ConfigBefore(i)
  BY <1>1, Unmoved
<1>3. ASSUME phase # "init"
      PROVE  PastInv'
  BY <1>1, <1>2, <1>3 DEF AllInv, PastInv, NoInit
<1>4. ASSUME phase' \in {"files", "end"}, phase \in {"files", "end"}
      PROVE  StartInv'
  BY <1>1, <1>2, <1>4 DEF AllInv, StartInv, NoInit, ConfigBefore
<1>5. QED
  BY <1>3, <1>4

LEMMA InitFileReturns ==
  ASSUME TypeInv, CommitInv, AllInv, InitFile
  PROVE  AllInv'
<1>1. /\ phase = "init" /\ phase' = "init" /\ ops = <<>> /\ ops' = LoadOps
      /\ UNCHANGED <<nso, ids, failed_at, tsets, targets, marks>>
  BY DEF InitFile, Idle, Enter
<1>2. ConfigBefore(1)' = ConfigBefore(1)
  BY <1>1, Unmoved
<1>3. InitInv' /\ PlacesInv'
  BY <1>1, <1>2 DEF AllInv, InitInv, PlacesInv, LoadRound, marks
<1>4. PastInv' /\ SetInv' /\ StartInv' /\ FilesInv'
  BY <1>1 DEF PastInv, SetInv, StartInv, FilesInv
<1>5. QED
  BY <1>3, <1>4 DEF AllInv

LEMMA InitDoneReturns ==
  ASSUME TypeInv, HistoryInv, CommitInv, AllInv, InitDone
  PROVE  AllInv'
<1>1. /\ phase = "init" /\ phase' = "set" /\ ops = <<>> /\ ops' = <<>>
      /\ init_stop' = Len(commit_id)
      /\ UNCHANGED <<nso, ids, failed_at, tsets, targets, test, saved>>
  BY DEF InitDone, Idle
<1>2. /\ UNCHANGED <<running, before, commit_id>>
      /\ \A n : NoInit(n)' = NoInit(n)
      /\ Steady' = Steady
  BY <1>1, Unmoved
<1>3. /\ failed_at = 0 /\ ConfigBefore(1) = saved /\ tsets = test.sets /\ targets = <<>>
      /\ LoadRound
  BY <1>1 DEF AllInv, InitInv, PlacesInv
<1>4. Steady
  BY <1>1, <1>3, OpLists DEF LoadRound
<1>5. /\ \A j \in 1..Len(commit_id) : NoInit(j - 1) => before[j] = saved
      /\ NoInit(Len(commit_id)) => running.dev = saved
  BY <1>1, <1>3, InitKeeps
<1>6. PastInv'
  BY <1>1, <1>2, <1>5 DEF PastInv, NoInit
<1>7. SetInv'
  BY <1>1, <1>2, <1>3, <1>4, <1>5 DEF SetInv, NoInit
<1>8. InitInv' /\ StartInv' /\ FilesInv' /\ PlacesInv'
  BY <1>1, <1>3 DEF InitInv, StartInv, FilesInv, PlacesInv
<1>9. QED
  BY <1>6, <1>7, <1>8 DEF AllInv

LEMMA BeginSetReturns ==
  ASSUME TypeInv, HistoryInv, CommitInv, AllInv, BeginSet
  PROVE  AllInv'
<1>1. /\ phase = "set" /\ phase' = "files" /\ ops = <<>> /\ ops' = <<>>
      /\ set_base' = Len(commit_id) /\ set_start' = running.dev
      /\ UNCHANGED <<nso, ids, failed_at, targets, test, init_stop, saved>>
  BY DEF BeginSet, Idle
<1>2. /\ UNCHANGED <<running, cand, before, commit_id, failed_at>>
      /\ ConfigBefore(Len(commit_id) + 1)' = running.dev
      /\ failed_at <= Len(commit_id)
  <2>1. UNCHANGED <<nso, ids, failed_at>>
    BY <1>1
  <2>2. failed_at <= Len(commit_id)
    BY DEF HistoryInv
  <2>3. ConfigBefore(Len(commit_id) + 1) = running.dev
    BY <1>1, <2>1, Unmoved
  <2>4. UNCHANGED <<running, cand, before, commit_id, failed_at>>
    BY <2>1 DEF nso, ids
  <2>5. QED
    BY <2>2, <2>3, <2>4 DEF ConfigBefore
<1>3. Steady /\ (NoInit(init_stop) => running.dev = saved)
  BY <1>1 DEF AllInv, SetInv
<1>4. StartInv'
  <2>1. ConfigBefore(set_base + 1)' = set_start'
    BY <1>1, <1>2 DEF ConfigBefore
  <2>2. NoInit(init_stop)' => set_start' = saved'
    BY <1>1, <1>2, <1>3 DEF NoInit
  <2>3. QED
    BY <1>1, <1>2, <2>1, <2>2 DEF StartInv
<1>5. FilesInv'
  BY <1>1, <1>2, <1>3 DEF FilesInv, LoadRound, SingleRound, HomeRound, Steady
<1>6. PastInv'
  BY <1>1, <1>2 DEF AllInv, PastInv, NoInit
<1>7. InitInv' /\ SetInv' /\ PlacesInv'
  BY <1>1 DEF AllInv, InitInv, SetInv, PlacesInv
<1>8. QED
  BY <1>4, <1>5, <1>6, <1>7 DEF AllInv

LEMMA SetFileReturns ==
  ASSUME TypeInv, CommitInv, AllInv, SetFile
  PROVE  AllInv'
<1>1. /\ phase = "files" /\ phase' = "files" /\ ops = <<>> /\ ops' = test.op
      /\ UNCHANGED <<nso, ids, failed_at, targets, marks>>
  BY DEF SetFile, Idle, Enter
<1>2. PlanStep
  BY DEF PlanStep
<1>3. PastInv' /\ StartInv'
  BY <1>1, <1>2, MarksKept
<1>4. FilesInv'
  <2>1. test' = test /\ set_start' = set_start /\ running' = running
    BY <1>1 DEF marks, nso
  <2>2. test.op = SingleOps /\ test.end = <<>> => cand.dev = set_start /\ Steady
    <3>1. targets \in Seq(Nat)
      BY DEF TypeInv, TypeOK, PlaceTypeOK
    <3>2. QED
      BY <1>1, <3>1, RoundsEnd DEF AllInv, FilesInv
  <2>3. QED
    BY <1>1, <2>1, <2>2 DEF FilesInv, LoadRound, SingleRound, Steady
<1>5. InitInv' /\ SetInv' /\ PlacesInv'
  BY <1>1 DEF AllInv, InitInv, SetInv, PlacesInv
<1>6. QED
  BY <1>3, <1>4, <1>5 DEF AllInv
LEMMA BeginEndReturns ==
  ASSUME TypeInv, CommitInv, AllInv, Returns, BeginEnd
  PROVE  AllInv'
<1> DEFINE n == Len(commit_id) - set_base
<1>1. /\ phase = "files" /\ phase' = "end" /\ ops = <<>>
      /\ call' = [file |-> <<>>, base |-> set_base, last |-> None]
      /\ IF test.end = DefaultEnd THEN ops' = <<>> /\ targets' = EndTargets(n)
                                  ELSE ops' = test.end /\ targets' = targets
      /\ UNCHANGED <<nso, ids, failed_at, marks>>
  BY DEF BeginEnd, Idle, Enter
<1>2. PlanStep
  BY DEF PlanStep
<1>3. PastInv' /\ StartInv'
  BY <1>1, <1>2, MarksKept
<1>4. /\ UNCHANGED <<running, cand, set_base, set_start>> /\ Steady' = Steady
      /\ ConfigBefore(Len(commit_id) + 1) = running.dev
      /\ n \in Nat /\ targets \in Seq(Nat) /\ targets = <<>>
  <2>1. n \in Nat /\ targets \in Seq(Nat)
    BY DEF TypeInv, TypeOK, PlaceInv, PlaceTypeOK, MarksTypeOK, IdsTypeOK
  <2>2. targets = <<>>
    BY <1>1 DEF AllInv, PlacesInv
  <2>3. UNCHANGED <<set_base, set_start>>
    BY <1>1 DEF marks
  <2>4. QED
    BY <1>1, <2>1, <2>2, <2>3, Unmoved
<1> HIDE DEF n
<1>5. /\ test.op = LoadOps => Steady
      /\ test.op = SingleOps /\ test.end = <<>> => cand.dev = set_start /\ Steady
  BY <1>1, <1>4, RoundsEnd DEF AllInv, FilesInv
<1>6. ASSUME test.end = DefaultEnd
      PROVE  EndRound'
  <2>1. DefaultEnd # <<>>
    BY Tuples DEF DefaultEnd
  <2>2. ~test.all => Steady
    BY <1>5, <1>6, <2>1 DEF Returns
  <2>3. ops' = <<>> /\ targets' = EndTargets(n)
    BY <1>1, <1>6
  <2>4. /\ test.all => targets' # <<>> /\ Len(targets') > 1
        /\ n > 0 => targets' # <<>>
        /\ targets' # <<>> => targets'[Len(targets')] = 0
    BY <1>4, <2>3, EndsAtStart
  <2>5. CASE targets' = <<>>
    <3>1. ~test.all /\ n = 0
      BY <1>4, <2>4, <2>5
    <3>2. ConfigBefore(set_base + 1) = set_start
      BY <1>1 DEF AllInv, StartInv
    <3>3. Len(commit_id) = set_base
      BY <3>1 DEF n, TypeInv, TypeOK, MarksTypeOK, IdsTypeOK
    <3>4. running.dev = set_start /\ Steady
      BY <1>4, <2>2, <3>1, <3>2, <3>3
    <3>5. QED
      BY <1>4, <2>3, <2>5, <3>4 DEF EndRound, Steady
  <2>6. CASE targets' # <<>>
    <3>1. targets'[Len(targets')] = 0 /\ (Steady' \/ Len(targets') > 1)
      BY <1>4, <2>2, <2>4, <2>6
    <3>2. QED
      BY <2>3, <2>6, <3>1 DEF EndRound
  <2>7. QED
    BY <2>5, <2>6
<1>7. ASSUME test.end # DefaultEnd
      PROVE  EndRound'
  <2>1. ops' = <<>> /\ targets' = <<>>
    BY <1>1, <1>4, <1>7 DEF Returns
  <2>2. cand.dev = set_start /\ Steady
    BY <1>5, <1>7 DEF Returns
  <2>3. QED
    BY <1>4, <2>1, <2>2 DEF EndRound, Steady
<1>8. EndRound'
  BY <1>6, <1>7
<1>9. PlacesInv'
  BY <1>1, <1>4, <1>8 DEF PlacesInv
<1>10. InitInv' /\ SetInv' /\ FilesInv'
  BY <1>1 DEF InitInv, SetInv, FilesInv
<1>11. QED
  BY <1>3, <1>9, <1>10 DEF AllInv

LEMMA NextTargetReturns ==
  ASSUME TypeInv, CommitInv, AllInv, NextTarget
  PROVE  AllInv'
<1>1. /\ phase \in {"end", "back"} /\ ops = <<>> /\ targets # <<>>
      /\ ops' = RollbackOps(IF phase = "end" THEN "rollback+" ELSE "undo", Head(targets))
      /\ targets' = Tail(targets)
      /\ UNCHANGED <<nso, ids, phase, call, marks, failed_at>>
  BY DEF NextTarget, Idle
<1>2. PlanStep
  BY DEF PlanStep
<1>3. UNCHANGED <<running, cand, commit_id, saved, set_base, set_start, init_stop>>
  BY <1>1 DEF nso, ids, marks
<1>4. targets \in Seq(Nat) /\ init_stop \in Nat
  BY DEF TypeInv, TypeOK, PlaceTypeOK, MarksTypeOK
<1>5. /\ Head(targets) = targets[1] /\ Head(targets) \in Nat
      /\ Len(targets') = Len(targets) - 1 /\ Len(targets) \in Nat \ {0}
      /\ \A k \in 1..Len(targets') : targets'[k] = targets[k + 1]
      /\ targets' = <<>> <=> Len(targets) = 1
      /\ targets' # <<>> => targets'[Len(targets')] = targets[Len(targets)]
  BY <1>1, <1>4, NextTargets
<1>6. PastInv'
  BY <1>1, <1>2, MarksKept
<1>7. StartInv'
  <2>1. CASE phase = "end"
    BY <1>1, <1>2, <2>1, MarksKept
  <2>2. CASE phase = "back"
    BY <1>1, <2>2 DEF StartInv
  <2>3. QED
    BY <1>1, <2>1, <2>2
<1>8. phase = "end" => EndRound'
  <2>1. SUFFICES ASSUME phase = "end"
                 PROVE  EndRound'
    OBVIOUS
  <2>2. targets[Len(targets)] = 0 /\ (Steady \/ Len(targets) > 1)
    BY <1>1, <1>4, <2>1, RoundsEnd DEF AllInv, PlacesInv
  <2>3. ops' = RollbackOps("rollback+", Head(targets))
    BY <1>1, <2>1
  <2>4. targets' = <<>> => Head(targets) = 0 /\ Steady'
    <3>1. SUFFICES ASSUME targets' = <<>>
                   PROVE  Head(targets) = 0 /\ Steady'
      OBVIOUS
    <3>2. Len(targets) = 1
      BY <1>5, <3>1
    <3>3. QED
      BY <1>3, <1>5, <2>2, <3>2 DEF Steady
  <2>5. targets' # <<>> => targets'[Len(targets')] = 0
    BY <1>5, <2>2
  <2>6. QED
    BY <1>5, <2>3, <2>4, <2>5 DEF EndRound
<1>9. phase = "back" => BackRound'
  <2>1. SUFFICES ASSUME phase = "back"
                 PROVE  BackRound'
    OBVIOUS
  <2>2. /\ Len(targets) <= init_stop
        /\ \A k \in 1..Len(targets) : targets[k] = Len(targets) + 1 - k
        /\ Undone(Len(targets))
    <3>1. BackRound
      BY <2>1 DEF AllInv, PlacesInv
    <3>2. QED
      BY <1>1, <1>4, <3>1, RoundsEnd DEF BackRound
  <2>3. Len(targets') + 1 = Len(targets) /\ targets[1] = Len(targets)
    BY <1>5, <2>2
  <2>4. ops' = RollbackOps("undo", Len(targets') + 1)
    BY <1>1, <1>5, <2>1, <2>3
  <2>5. \A k \in 1..Len(targets') : targets'[k] = Len(targets') + 1 - k
    BY <1>5, <2>2, <2>3
  <2>6. Len(targets') < init_stop'
    BY <1>3, <1>4, <1>5, <2>2
  <2>7. Undone(Len(targets) + 1)'
    BY <1>3, <2>2, <2>3 DEF Undone, NoInit
  <2>8. Len(targets') <= init_stop'
    BY <1>3, <1>4, <1>5, <2>2
  <2>9. QED
    BY <2>4, <2>5, <2>6, <2>7, <2>8 DEF BackRound, Undone
<1>10. PlacesInv'
  BY <1>1, <1>3, <1>8, <1>9 DEF AllInv, PlacesInv
<1>11. InitInv' /\ SetInv' /\ FilesInv'
  BY <1>1 DEF InitInv, SetInv, FilesInv
<1>12. QED
  BY <1>6, <1>7, <1>10, <1>11 DEF AllInv
LEMMA EndSetReturns ==
  ASSUME TypeInv, CommitInv, AllInv, EndSet
  PROVE  AllInv'
<1>1. /\ (phase = "end" /\ targets = <<>>) \/ phase = "restore"
      /\ ops = <<>> /\ ops' = <<>> /\ tsets' = Tail(tsets)
      /\ \/ phase' = "set" /\ targets' = targets
         \/ phase' = "back" /\ targets' = [k \in 1..init_stop |-> init_stop + 1 - k]
      /\ UNCHANGED <<nso, ids, marks, failed_at>>
  BY DEF EndSet, Idle
<1>2. PlanStep
  BY DEF PlanStep
<1>3. /\ UNCHANGED <<running, cand, commit_id, failed_at, saved, set_start, init_stop>>
      /\ \A n : NoInit(n)' = NoInit(n)
  BY <1>1, Unmoved DEF marks
<1>4. targets \in Seq(Nat) /\ init_stop \in Nat /\ failed_at \in Nat
  BY DEF TypeInv, TypeOK, PlaceTypeOK, MarksTypeOK, IdsTypeOK
<1>5. /\ phase = "end" => cand.dev = set_start /\ Steady
      /\ phase = "restore" => cand.dev = saved /\ Steady /\ targets = <<>>
      /\ NoInit(init_stop) => set_start = saved
      /\ phase = "restore" => failed_at >= init_stop
  BY <1>1, <1>4, RoundsEnd DEF AllInv, PlacesInv, StartInv
<1>6. PastInv'
  BY <1>1, <1>2, MarksKept
<1>7. /\ Steady /\ (NoInit(init_stop) => cand.dev = saved)
      /\ init_stop = 0 \/ failed_at = 0 => cand.dev = set_start
  <2>1. init_stop = 0 => NoInit(init_stop)
    BY DEF NoInit
  <2>2. phase = "restore" /\ failed_at = 0 => init_stop = 0
    BY <1>4, <1>5
  <2>3. QED
    BY <1>1, <1>5, <2>1, <2>2
<1>8. SetInv'
  BY <1>1, <1>3, <1>7 DEF SetInv, Steady
<1>9. phase' = "back" => BackRound'
  <2>1. SUFFICES ASSUME phase' = "back"
                 PROVE  BackRound'
    OBVIOUS
  <2>2. targets' = [k \in 1..init_stop |-> init_stop + 1 - k]
    BY <1>1, <2>1
  <2>3. Len(targets') = init_stop /\ \A k \in 1..init_stop : targets'[k] = init_stop + 1 - k
    <3>1. \A k \in 1..init_stop : init_stop + 1 - k \in Nat
      BY <1>4
    <3>2. QED
      BY <1>4, <2>2, <3>1
  <2>4. NoInit(init_stop)' => cand'.dev = saved'
    BY <1>3, <1>7
  <2>5. Undone(Len(targets))'
    BY <1>3, <2>3, <2>4 DEF Undone
  <2>6. QED
    BY <1>1, <1>3, <1>4, <2>3, <2>5 DEF BackRound
<1>10. PlacesInv'
  BY <1>1, <1>5, <1>9 DEF PlacesInv
<1>11. InitInv' /\ StartInv' /\ FilesInv'
  BY <1>1 DEF InitInv, StartInv, FilesInv
<1>12. QED
  BY <1>6, <1>8, <1>10, <1>11 DEF AllInv

LEMMA EndTestReturns ==
  ASSUME TypeInv, CommitInv, AllInv, EndTest \/ Done
  PROVE  AllInv'
<1>1. /\ phase \in {"back", "teardown"} /\ phase' \in {"teardown", "done"}
      /\ UNCHANGED <<nso, ids, marks>>
  BY DEF EndTest, Done, Idle
<1>2. PlanStep
  BY DEF PlanStep
<1>3. PastInv'
  BY <1>1, <1>2, MarksKept
<1>4. InitInv' /\ SetInv' /\ StartInv' /\ FilesInv' /\ PlacesInv'
  BY <1>1 DEF InitInv, SetInv, StartInv, FilesInv, PlacesInv
<1>5. QED
  BY <1>3, <1>4 DEF AllInv

LEMMA ReturnStep ==
  TypeInv /\ HistoryInv /\ CommitInv /\ ReturnInv /\ [Next]_vars => ReturnInv'
<1> SUFFICES ASSUME TypeInv, HistoryInv, CommitInv, ReturnInv, [Next]_vars,
                    (Returns /\ ~raced)'
             PROVE  AllInv'
  BY DEF ReturnInv, AllInv
<1>1. Returns /\ ~raced /\ AllInv
  BY ReturnsStill DEF ReturnInv, AllInv
<1>2. CASE OpStep \/ OtherCommit
  BY <1>1, <1>2, RoundsGoOn
<1>3. CASE Fail
  BY <1>1, <1>3, FailureReturns
<1>4. CASE InitFile \/ InitDone
  BY <1>1, <1>4, InitFileReturns, InitDoneReturns
<1>5. CASE BeginSet \/ SetFile \/ BeginEnd
  BY <1>1, <1>5, BeginSetReturns, SetFileReturns, BeginEndReturns
<1>6. CASE NextTarget \/ EndSet \/ EndTest \/ Done
  BY <1>1, <1>6, NextTargetReturns, EndSetReturns, EndTestReturns
<1>7. CASE UNCHANGED vars
  <2>1. UNCHANGED <<running, cand, log, commit_id, committing, before, phase, tsets, call, ops,
                    targets, test, set_base, init_stop, saved, set_start, failed_at>>
    BY <1>7 DEF vars, nso, ids, place, marks
  <2>2. UNCHANGED <<InitInv, PastInv, SetInv>>
    BY <2>1 DEF InitInv, PastInv, SetInv, NoInit, ConfigBefore, LoadRound, Steady
  <2>3. UNCHANGED <<StartInv, FilesInv>>
    BY <2>1 DEF StartInv, FilesInv, NoInit, ConfigBefore, LoadRound, SingleRound, HomeRound,
                Undoable, Steady
  <2>4. UNCHANGED PlacesInv
    BY <2>1 DEF PlacesInv, EndRound, RestoreRound, BackRound, Undone, NoInit, Steady
  <2>5. QED
    BY <1>1, <2>2, <2>3, <2>4 DEF AllInv
<1>8. QED
  BY <1>2, <1>3, <1>4, <1>5, <1>6, <1>7 DEF Next, Operation, OpStep

LEMMA ReturnInit == Init => CommitInv /\ ReturnInv
<1> SUFFICES ASSUME Init
             PROVE  CommitInv /\ ReturnInv
  OBVIOUS
<1>1. /\ phase = "init" /\ committing = "no" /\ failed_at = 0 /\ init_stop = 0
      /\ before = <<>> /\ saved = running.dev /\ tsets = test.sets
      /\ ops = <<>> /\ targets = <<>> /\ cand = running
  BY DEF Init, InitDevice
<1>2. ConfigBefore(1) = saved
  <2>1. Len(before) = 0
    BY <1>1
  <2>2. QED
    BY <1>1, <2>1 DEF ConfigBefore
<1>3. InitInv
  BY <1>1, <1>2 DEF InitInv, LoadRound, Steady
<1>4. PastInv /\ SetInv /\ StartInv /\ FilesInv /\ PlacesInv
  BY <1>1 DEF PastInv, SetInv, StartInv, FilesInv, PlacesInv
<1>5. QED
  BY <1>1, <1>3, <1>4 DEF CommitInv, ReturnInv

LEMMA ReturnInvariant == Spec => [](TypeInv /\ ReturnInv)
<1>1. Spec => []CommitInv
  BY ReturnInit, CommitStep, TypeInvariant, PTL DEF Spec
<1>2. QED
  BY <1>1, ReturnInit, ReturnStep, TypeInvariant, HistoryInvariant, PTL DEF Spec

----------------------------------------------------------------------------
(* The tests come back                                                     *)

\* After the default end operations of test_template_set, or after files that
\* are each rolled back, the device is where the set began, whatever the files
\* do and whatever commits and rollbacks among them were empty.
THEOREM SetReturns == Spec => []SetComesBack
<1>1. TypeInv /\ ReturnInv => SetComesBack
  <2> SUFFICES ASSUME TypeInv, ReturnInv, Idle("end"), targets = <<>>, Returns, ~raced
               PROVE  running.dev = set_start /\ cand.dev = set_start
    BY DEF SetComesBack
  <2>1. EndRound /\ ops = <<>> /\ targets \in Seq(Nat)
    BY DEF ReturnInv, PlacesInv, Idle, TypeInv, TypeOK, PlaceTypeOK
  <2>2. QED
    BY <2>1, RoundsEnd DEF Steady
<1>2. QED
  BY <1>1, ReturnInvariant, PTL

\* Each set begins where the first one did, also after sets that have failed at
\* any of their operations and were restored.
THEOREM SetsBeginAlike == Spec => []SetsStartAlike
<1>1. ReturnInv => SetsStartAlike
  BY DEF ReturnInv, SetInv, SetsStartAlike, Idle, Steady
<1>2. QED
  BY <1>1, ReturnInvariant, PTL

\* The comparison of the configurations before and after the test never finds a
\* difference, whatever the init files and the sets have committed, and whether
\* or not sets have failed.
THEOREM TestReturns == Spec => []TestComesBack
<1>1. TypeInv /\ ReturnInv => TestComesBack
  <2> SUFFICES ASSUME TypeInv, ReturnInv, Idle("back"), targets = <<>>, Returns, ~raced
               PROVE  cand.dev = saved
    BY DEF TestComesBack
  <2>1. BackRound /\ ops = <<>> /\ targets \in Seq(Nat)
    BY DEF ReturnInv, PlacesInv, Idle, TypeInv, TypeOK, PlaceTypeOK
  <2>2. Undone(Len(targets)) /\ Len(targets) = 0
    BY <2>1, RoundsEnd
  <2>3. NoInit(0)
    BY DEF NoInit
  <2>4. QED
    BY <2>2, <2>3 DEF Undone
<1>2. QED
  BY <1>1, ReturnInvariant, PTL
=============================================================================
