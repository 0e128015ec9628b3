-------------------------- MODULE TransitionsProofs ---------------------------
(***************************************************************************)
(* Proofs about Transitions: its types, with those of the filter and of    *)
(* DrNED; that explore-transitions makes each planned transition once; and *)
(* that the filter makes up nothing, for any states, requests and outcomes *)
(* of the commands.  The second half is about the filter on its own: what  *)
(* it makes of the lines that it reads, and the loads that it follows.     *)
(***************************************************************************)
EXTENDS Transitions, SequenceTheorems, FiniteSetTheorems, WellFoundedInduction, TLAPS

----------------------------------------------------------------------------
(* Lines and log states                                                    *)

\* What the filter may be sent: a load tells the state that is loaded.
GoodEvent == {ev \in F!Event : ev.type = "load" => ev.state \in States}

Shows == F!EventTypes \cup {"", "succeeded"}

HandleResult == [handled : BOOLEAN, expansion : Seq(F!LogStates), line : Shows]

LEMMA ResultTypes ==
  ASSUME NEW h \in BOOLEAN, NEW x \in Seq(F!LogStates), NEW l \in Shows
  PROVE  F!Result(h, x, l) \in HandleResult
BY DEF F!Result, HandleResult

\* handle() gives a result, whatever the log state and the event.
LEMMA HandleTypes ==
  ASSUME NEW state \in F!LogStates, NEW ev \in F!Event
  PROVE  F!Handle(state, ev) \in HandleResult
<1>1. ev.type \in Shows
  BY DEF Shows, F!Event
<1>2. {"", "succeeded", "prepare", "failed"} \subseteq Shows
  BY DEF Shows, F!EventTypes, F!CommitEvents, F!ResultEvents
<1>a. ASSUME NEW x \in Seq(F!LogStates)
      PROVE  /\ F!Shown(x, ev) \in HandleResult
             /\ F!Handled(x) \in HandleResult
             /\ F!Unhandled(x) \in HandleResult
             /\ F!Result(FALSE, x, "prepare") \in HandleResult
             /\ F!Result(FALSE, x, "succeeded") \in HandleResult
             /\ F!Result(FALSE, x, "failed") \in HandleResult
  BY <1>1, <1>2, ResultTypes DEF F!Shown, F!Handled, F!Unhandled
<1>e. <<>> \in Seq(F!LogStates)
  OBVIOUS
<1>3. CASE state \in {"transition-test", "transition", "rollbacks", "explore", "walk"}
  <2>1. CASE state = "transition-test"
    <3>1. <<"transition">> \in Seq(F!LogStates)
      BY DEF F!LogStates
    <3> QED
      BY <2>1, <3>1, <1>a DEF F!Handle, F!TransitionTestState
  <2>2. CASE state = "transition"
    <3>1. <<"commits", "load">> \o F!CommitAction \o <<"rollbacks">> \in Seq(F!LogStates)
      BY DEF F!LogStates, F!CommitAction
    <3> QED
      BY <2>2, <3>1, <1>a DEF F!Handle, F!TransitionState
  <2>3. CASE state = "rollbacks"
    <3>1. <<"action-rollback">> \o F!CommitAction \o <<"rollbacks">> \in Seq(F!LogStates)
      BY DEF F!LogStates, F!CommitAction
    <3> QED
      BY <2>3, <3>1, <1>a, <1>e DEF F!Handle, F!RollbacksState
  <2>4. CASE state = "explore"
    <3>1. <<"gen-init-states", "explore-transitions">> \in Seq(F!LogStates)
      BY DEF F!LogStates
    <3> QED
      BY <2>4, <3>1, <1>a DEF F!Handle, F!ExploreState
  <2>5. CASE state = "walk"
    <3>1. <<"commits", "walk-transitions">> \in Seq(F!LogStates)
      BY DEF F!LogStates
    <3> QED
      BY <2>5, <3>1, <1>a DEF F!Handle, F!WalkState
  <2> QED
    BY <1>3, <2>1, <2>2, <2>3, <2>4, <2>5
<1>4. CASE state \in {"explore-transitions", "extended", "walk-transitions", "teardown"}
  <2>1. CASE state = "explore-transitions"
    <3>1. /\ <<"gen-prepare", "transition", "extended", "explore-transitions">> \in Seq(F!LogStates)
          /\ <<"explore-transitions">> \in Seq(F!LogStates)
      BY DEF F!LogStates
    <3> QED
      BY <2>1, <3>1, <1>a DEF F!Handle, F!ExploreTransitionsState
  <2>2. CASE state = "extended"
    <3>1. <<"gen-prepare", "transition", "gen-trans-failed",
                 "gen-init-failed", "teardown", "extended">> \in Seq(F!LogStates)
      BY DEF F!LogStates
    <3> QED
      BY <2>2, <3>1, <1>a, <1>e DEF F!Handle, F!ExtendedTransitionsState
  <2>3. CASE state = "walk-transitions"
    <3>1. /\ <<"transition", "walk-transitions">> \in Seq(F!LogStates)
          /\ <<"teardown", "walk-transitions">> \in Seq(F!LogStates)
          /\ <<"walk-transitions">> \in Seq(F!LogStates)
      BY DEF F!LogStates
    <3> QED
      BY <2>3, <3>1, <1>a, <1>e DEF F!Handle, F!WalkTransitionsState
  <2>4. CASE state = "teardown"
    <3>1. <<"gen-restore">> \o F!CommitAction \o <<"gen-trans-failed">> \in Seq(F!LogStates)
      BY DEF F!LogStates, F!CommitAction
    <3> QED
      BY <2>4, <3>1, <1>a, <1>e DEF F!Handle, F!TeardownState
  <2> QED
    BY <1>4, <2>1, <2>2, <2>3, <2>4
<1>5. CASE state \in {"load", "load-failure", "commit", "commit-result", "commits", "commit-queue"}
  <2>1. /\ <<"load-failure">> \in Seq(F!LogStates)
        /\ <<"commit">> \in Seq(F!LogStates)
        /\ <<"commit-result">> \in Seq(F!LogStates)
        /\ <<"commit-queue">> \in Seq(F!LogStates)
        /\ <<"commit-failed">> \in Seq(F!LogStates)
        /\ <<"commits">> \in Seq(F!LogStates)
        /\ <<"commit-failed", "commit-complete">> \in Seq(F!LogStates)
        /\ <<"gen-result", "commit-complete">> \in Seq(F!LogStates)
    BY DEF F!LogStates
  <2>2. CASE state \in {"load", "load-failure"}
    BY <2>2, <2>1, <1>a, <1>e DEF F!Handle, F!LoadState, F!LoadFailureState
  <2>3. CASE state = "commit"
    BY <2>3, <2>1, <1>a, <1>e DEF F!Handle, F!CommitState
  <2>4. CASE state = "commit-result"
    BY <2>4, <2>1, <1>a, <1>e DEF F!Handle, F!CommitResultState
  <2>5. CASE state = "commits"
    BY <2>5, <2>1, <1>a, <1>e DEF F!Handle, F!CommitsState
  <2>6. CASE state = "commit-queue"
    BY <2>6, <2>1, <1>a, <1>e DEF F!Handle, F!CommitQueueState
  <2> QED
    BY <1>5, <2>2, <2>3, <2>4, <2>5, <2>6
<1>6. CASE state \in {"commit-failed", "commit-complete", "compare"}
  BY <1>6, <1>a, <1>e DEF F!Handle, F!CommitFailureState, F!CommitCompleteState,
     F!CompareState
<1>7. CASE state \in {"action-commit", "action-compare", "action-rollback"}
  <2>1. /\ <<"commit">> \in Seq(F!LogStates)
        /\ <<"compare">> \in Seq(F!LogStates)
    BY DEF F!LogStates
  <2> QED
    BY <1>7, <2>1, <1>a, <1>e DEF F!Handle, F!Action
<1>8. CASE state \in {"gen-prepare", "gen-init-states", "gen-trans-failed",
                      "gen-init-failed", "gen-restore", "gen-result"}
  BY <1>8, <1>a, <1>e DEF F!Handle, F!Gen
<1> QED
  BY <1>3, <1>4, <1>5, <1>6, <1>7, <1>8 DEF F!LogStates

\* complete_transition() and the operators on top of it keep the types.
LEMMA CompleteTypes ==
  ASSUME NEW c \in F!Context, NEW e \in Seq(F!TransitionDesc), NEW failure \in F!Failure
  PROVE  /\ F!Complete(c, e, failure).c \in F!Context
         /\ F!Complete(c, e, failure).e \in Seq(F!TransitionDesc)
<1>1. CASE c.to = NoState
  BY <1>1 DEF F!Complete
<1>2. CASE c.to # NoState
  <2>1. c.to \in States /\ c.state \in F!Name /\ c.exploring_from \in States \cup {NoState}
    BY <1>2 DEF F!Context
  <2>2. [start |-> c.state, to |-> c.to, failure |-> failure] \in F!TransitionDesc
    BY <2>1 DEF F!TransitionDesc
  <2>3. F!NewContext \in F!Context
    BY DEF F!NewContext, F!Context, F!Failure, F!Name
  <2>4. F!Complete(c, e, failure).c \in F!Context
    BY <1>2, <2>1, <2>3 DEF F!Complete, F!Context, F!Name
  <2> QED
    BY <1>2, <2>2, <2>4 DEF F!Complete
<1> QED
  BY <1>1, <1>2

LEMMA UpdateTypes ==
  ASSUME NEW state \in F!LogStates, NEW ev \in GoodEvent,
         NEW c \in F!Context, NEW e \in Seq(F!TransitionDesc),
         state = "load" => ev.type = "load"
  PROVE  /\ F!Update(state, ev, c, e).c \in F!Context
         /\ F!Update(state, ev, c, e).e \in Seq(F!TransitionDesc)
<1> DEFINE done == F!Complete(c, e, "none")
<1>1. {"none", "load", "commit", "compare_config", "rollback"} = F!Failure
  BY DEF F!Failure
<1>2. done.c \in F!Context /\ done.e \in Seq(F!TransitionDesc)
  BY <1>1, CompleteTypes
<1>3. c.event \in F!Failure /\ c.rollback \in BOOLEAN
  BY DEF F!Context
<1>4. CASE state = "explore-transitions"
  <2>1. ev.state \in States \cup {NoState}
    BY DEF GoodEvent, F!Event
  <2>2. CASE ev.type = "start"
    <3>1. F!Update(state, ev, c, e) = F!StartExplore(c, e, ev.state)
      BY <1>4, <2>2 DEF F!Update
    <3>2. PICK x, y : x = done.c /\ y = done.e
      OBVIOUS
    <3>3. x \in F!Context /\ y \in Seq(F!TransitionDesc)
      BY <3>2, <1>2
    <3>4. F!StartExplore(c, e, ev.state)
            = [c |-> [x EXCEPT !.exploring_from = ev.state], e |-> y]
      BY <3>2 DEF F!StartExplore
    <3>5. [x EXCEPT !.exploring_from = ev.state] \in F!Context
      BY <3>3, <2>1 DEF F!Context
    <3> QED
      BY <3>1, <3>3, <3>4, <3>5
  <2>3. CASE ev.type # "start"
    BY <1>4, <2>3 DEF F!Update
  <2> QED
    BY <2>2, <2>3
<1>5. CASE state = "load"
  <2>1. ev.state \in States
    BY <1>5 DEF GoodEvent
  <2>2. F!Update(state, ev, c, e) = F!StartTransition(c, e, ev.state)
    BY <1>5 DEF F!Update
  <2>3. PICK x, y : x = done.c /\ y = done.e
    OBVIOUS
  <2>4. x \in F!Context /\ y \in Seq(F!TransitionDesc)
    BY <2>3, <1>2
  <2>5. F!StartTransition(c, e, ev.state)
          = [c |-> [x EXCEPT !.to = ev.state, !.rollback = FALSE, !.event = "load"],
             e |-> y]
    BY <2>3 DEF F!StartTransition
  <2>6. [x EXCEPT !.to = ev.state, !.rollback = FALSE, !.event = "load"] \in F!Context
    BY <2>1, <2>4, <1>1 DEF F!Context
  <2> QED
    BY <2>2, <2>4, <2>5, <2>6
<1>6. CASE state \in {"load-failure", "commit-failed", "compare"}
  <2>1. F!Update(state, ev, c, e) = F!FailTransition(c, e)
    BY <1>6 DEF F!Update
  <2>2. (IF c.rollback THEN "rollback" ELSE c.event) \in F!Failure
    BY <1>1, <1>3
  <2> QED
    BY <2>1, <2>2, CompleteTypes DEF F!FailTransition
<1>7. CASE state \in {"action-commit", "action-compare", "action-rollback"}
  <2>1. ASSUME NEW t \in {"commit", "compare_config", "rollback"}
        PROVE  F!TransitionEvent(c, e, t).c \in F!Context
               /\ F!TransitionEvent(c, e, t).e \in Seq(F!TransitionDesc)
    <3>1. (c.rollback \/ t = "rollback") \in BOOLEAN
      OBVIOUS
    <3>2. t \in F!Failure
      BY <1>1
    <3> QED
      BY <3>1, <3>2 DEF F!TransitionEvent, F!Context
  <2> QED
    BY <1>7, <2>1 DEF F!Update
<1>8. CASE state \notin {"explore-transitions", "load", "load-failure", "commit-failed",
                         "compare", "action-commit", "action-compare", "action-rollback"}
  BY <1>8 DEF F!Update
<1> QED
  BY <1>4, <1>5, <1>6, <1>7, <1>8

----------------------------------------------------------------------------
(* The types                                                               *)

FilterTypes ==
  /\ event \in GoodEvent \cup {F!NoEvent}
  /\ stack \in Seq(F!LogStates)
  /\ context \in F!Context
  /\ test_events \in Seq(F!TransitionDesc)
  /\ shown \in Shows

LEMMA SendTypes ==
  ASSUME FilterTypes, NEW ev \in GoodEvent, F!Send(ev)
  PROVE  FilterTypes'
BY DEF FilterTypes, F!Send

LEMMA FilterStepTypes ==
  ASSUME FilterTypes, F!Filter
  PROVE  FilterTypes'
<1>1. CASE F!Ignore
  BY <1>1 DEF FilterTypes, F!Ignore
<1>2. CASE F!Pop
  <2>1. stack # <<>> /\ event \in GoodEvent /\ event \in F!Event
    BY <1>2 DEF F!Pop, F!Idle, FilterTypes, GoodEvent
  <2>2. PICK state : state = Head(stack)
    OBVIOUS
  <2>3. state \in F!LogStates /\ Tail(stack) \in Seq(F!LogStates)
    BY <2>1, <2>2 DEF FilterTypes
  <2>4. PICK r : r = F!Handle(state, event)
    OBVIOUS
  <2>5. r \in HandleResult
    BY <2>1, <2>3, <2>4, HandleTypes
  <2>6. stack' = r.expansion \o Tail(stack) /\ shown' = IF r.line = "" THEN shown ELSE r.line
    BY <1>2, <2>2, <2>4 DEF F!Pop
  <2>7. stack' \in Seq(F!LogStates) /\ shown' \in Shows
    <3>1. r.expansion \in Seq(F!LogStates) /\ r.line \in Shows
      BY <2>5 DEF HandleResult
    <3>2. r.expansion \o Tail(stack) \in Seq(F!LogStates)
      BY <2>3, <3>1, ConcatProperties
    <3> QED
      BY <2>6, <3>1, <3>2 DEF FilterTypes
  <2>8. CASE r.handled
    <3>1. /\ event' = F!NoEvent
          /\ context' = F!Update(state, event, context, test_events).c
          /\ test_events' = F!Update(state, event, context, test_events).e
      BY <1>2, <2>2, <2>4, <2>8 DEF F!Pop
    <3>2. state = "load" => event.type = "load"
      BY <2>4, <2>8 DEF F!Handle, F!LoadState, F!Unhandled, F!Result
    <3>3. context \in F!Context /\ test_events \in Seq(F!TransitionDesc)
      BY DEF FilterTypes
    <3>4. context' \in F!Context /\ test_events' \in Seq(F!TransitionDesc)
      BY <2>1, <2>3, <3>1, <3>2, <3>3, UpdateTypes
    <3> QED
      BY <2>7, <3>1, <3>4 DEF FilterTypes
  <2>9. CASE ~r.handled
    <3>1. UNCHANGED <<event, context, test_events>>
      BY <1>2, <2>2, <2>4, <2>9 DEF F!Pop
    <3> QED
      BY <2>7, <3>1 DEF FilterTypes
  <2> QED
    BY <2>8, <2>9
<1> QED
  BY <1>1, <1>2 DEF F!Filter

\* A load names its state.
GoodOp == {o \in D!Op : o.op = "load" => o.state \in States}

\* Where a run may be, and what it has left to do there.
RunInv ==
  /\ job \in D!Job
  /\ rpc \in D!RunPC
  /\ sets \in Seq(Seq(States) \ {<<>>})
  /\ ops \in Seq(GoodOp)
  /\ failed_states \in Seq(States)
  /\ raised \in BOOLEAN
  /\ exit \in {"none", "ok", "failed"}
  /\ rpc # "idle" => job.test # "none"
  /\ rpc = "op" => ops # <<>> /\ sets # <<>>
  /\ rpc = "restore_set" => sets # <<>>
  /\ rpc = "prepare" /\ job.test # "set" => sets # <<>>
  /\ rpc = "idle" \/ exit = "none"

\* What it leaves behind.
LinesInv ==
  /\ out \in Seq(GoodEvent)
  /\ tested \in Seq(D!Tested)

\* A set begins with a load.
LoadFirst == rpc = "op" /\ tested = <<>> => Head(ops).op = "load"

DrnedInv == RunInv /\ LinesInv /\ LoadFirst

\* All lines but the loads; the list of failed states ends a walk.
Quiet == F!EventTypes \ {"load", "failed_states"}

QuietEvent == {ev \in GoodEvent : ev.type # "load"}
CalmEvent  == {ev \in QuietEvent : ev.type # "failed_states"}

LEMMA LinesTypes ==
  ASSUME NEW ts \in Seq(Quiet)
  PROVE  D!Lines(ts) \in Seq(GoodEvent) /\ D!Lines(ts) \in Seq(CalmEvent)
<1>1. ASSUME NEW i \in DOMAIN ts
      PROVE  D!Line(ts[i]) \in GoodEvent /\ D!Line(ts[i]) \in CalmEvent
  <2>1. ts[i] \in Quiet
    OBVIOUS
  <2> QED
    BY <2>1 DEF D!Line, GoodEvent, QuietEvent, CalmEvent, Quiet, F!Event
<1>2. DOMAIN ts = 1..Len(ts) /\ Len(ts) \in Nat
  OBVIOUS
<1> QED
  BY <1>1, <1>2 DEF D!Lines

LEMMA Op1Good ==
  ASSUME RunInv, rpc = "op"
  PROVE  /\ D!Op1 \in GoodOp
         /\ Tail(ops) \in Seq(GoodOp)
         /\ Head(sets) \in Seq(States) \ {<<>>}
         /\ Head(Head(sets)) \in States
         /\ Tail(sets) \in Seq(Seq(States) \ {<<>>})
<1>1. ops # <<>> /\ sets # <<>>
  BY DEF RunInv
<1>2. Head(sets) \in Seq(States) \ {<<>>}
  BY <1>1 DEF RunInv
<1> QED
  BY <1>1, <1>2 DEF RunInv, D!Op1

LEMMA ProceedRun ==
  ASSUME RunInv, rpc = "op", D!Proceed, UNCHANGED job
  PROVE  RunInv'
<1>1. ops' = Tail(ops) /\ UNCHANGED failed_states /\ ops' \in Seq(GoodOp)
  BY Op1Good DEF D!Proceed
<1>2. job.test \in {"raw", "single", "set"}
  BY DEF RunInv, D!Job
<1>3. CASE Tail(ops) # <<>>
  <2>1. UNCHANGED <<rpc, sets, raised, exit>>
    BY <1>3 DEF D!Proceed
  <2> QED
    BY <1>1, <1>3, <2>1 DEF RunInv
<1>4. CASE Tail(ops) = <<>>
  <2>1. CASE job.test = "set"
    <3>1. rpc' = "set" /\ sets' = Tail(sets) /\ UNCHANGED <<raised, exit>>
      BY <1>4, <2>1 DEF D!Proceed
    <3> QED
      BY <1>1, <2>1, <3>1, Op1Good DEF RunInv, D!RunPC
  <2>2. CASE job.test = "single"
    <3>1. rpc' = "restore" /\ raised' \in BOOLEAN /\ UNCHANGED <<sets, exit>>
      BY <1>4, <2>2 DEF D!Proceed
    <3> QED
      BY <1>1, <2>2, <3>1 DEF RunInv, D!RunPC
  <2>3. CASE job.test = "raw"
    <3>1. rpc' = "idle" /\ exit' = "ok" /\ UNCHANGED <<sets, raised>>
      BY <1>4, <2>3 DEF D!Proceed, D!End
    <3> QED
      BY <1>1, <2>3, <3>1 DEF RunInv, D!RunPC
  <2> QED
    BY <1>2, <2>1, <2>2, <2>3
<1> QED
  BY <1>3, <1>4

LEMMA LeaveRun ==
  ASSUME RunInv, rpc = "op", D!Leave, UNCHANGED job
  PROVE  RunInv' /\ rpc' # "op"
<1>1. ops' = <<>> /\ raised' = TRUE /\ UNCHANGED <<sets, failed_states>>
  BY DEF D!Leave
<1>2. ops' \in Seq(GoodOp) /\ raised' \in BOOLEAN
  BY <1>1
<1>3. CASE job.test = "raw"
  <2>1. rpc' = "idle" /\ exit' = "failed"
    BY <1>3 DEF D!Leave, D!End
  <2> QED
    BY <1>1, <1>2, <1>3, <2>1 DEF RunInv, D!RunPC
<1>4. CASE job.test # "raw"
  <2>1. rpc' = "restore" /\ UNCHANGED exit
    BY <1>4 DEF D!Leave
  <2> QED
    BY <1>1, <1>2, <1>4, <2>1 DEF RunInv, D!RunPC
<1> QED
  BY <1>3, <1>4

LEMMA FailRun ==
  ASSUME RunInv, rpc = "op", D!Fail, UNCHANGED job
  PROVE  RunInv' /\ rpc' # "op"
<1>1. CASE D!Leave
  BY <1>1, LeaveRun
<1>2. CASE ~D!Leave
  <2>1. /\ failed_states' = Append(failed_states, Head(Head(sets)))
        /\ ops' = <<>> /\ sets' = sets /\ exit' = exit
        /\ raised' = (Len(sets) = 1)
        /\ rpc' = IF Len(sets) = 1 THEN "restore" ELSE "restore_set"
    BY <1>2 DEF D!Fail
  <2>2. ops' \in Seq(GoodOp) /\ failed_states' \in Seq(States)
    BY <2>1, Op1Good DEF RunInv
  <2>3. (Len(sets) = 1) \in BOOLEAN
    OBVIOUS
  <2>4. raised' \in BOOLEAN
    BY <2>1, <2>3, Zenon
  <2>5. rpc' \in {"restore", "restore_set"}
    BY <2>1
  <2> QED
    BY <2>1, <2>2, <2>4, <2>5 DEF RunInv, D!RunPC
<1> QED
  BY <1>1, <1>2

\* The same loads, whatever has become of them.
SameTests(p, q) ==
  /\ Len(p) = Len(q)
  /\ \A i \in 1..Len(q) : p[i].to = q[i].to /\ p[i].from = q[i].from

\* An entry of the history is changed.
LEMMA ChangeTested ==
  ASSUME NEW q \in Seq(D!Tested), q # <<>>, NEW r \in D!Tested
  PROVE  /\ [q EXCEPT ![Len(q)] = r] \in Seq(D!Tested)
         /\ [q EXCEPT ![Len(q)] = r] # <<>>
         /\ r.to = q[Len(q)].to /\ r.from = q[Len(q)].from
              => SameTests([q EXCEPT ![Len(q)] = r], q)
<1>1. Len(q) \in 1..Len(q) /\ DOMAIN q = 1..Len(q)
  OBVIOUS
<1>2. PICK p : p = [q EXCEPT ![Len(q)] = r]
  OBVIOUS
<1>3. p \in Seq(D!Tested) /\ Len(p) = Len(q)
  BY <1>1, <1>2, ExceptSeq
<1>4. r.to = q[Len(q)].to /\ r.from = q[Len(q)].from => SameTests(p, q)
  BY <1>1, <1>2, <1>3 DEF SameTests
<1> QED
  BY <1>1, <1>2, <1>3, <1>4, EmptySeq

LEMMA OutcomeLines ==
  ASSUME LinesInv, tested # <<>>, D!Op1 \in GoodOp, NEW lines \in Seq(Quiet),
         NEW fails \in BOOLEAN, NEW told \in BOOLEAN, D!Outcome(lines, fails, told)
  PROVE  /\ LinesInv' /\ tested' # <<>> /\ UNCHANGED job
         /\ SameTests(tested', tested)
<1>1. out' = out \o D!Lines(lines) /\ UNCHANGED job
  BY DEF D!Outcome
<1>2. out' \in Seq(GoodEvent)
  BY <1>1, LinesTypes, ConcatProperties DEF LinesInv
<1>3. PICK n : n = Len(tested)
  OBVIOUS
<1>4. PICK r : r = tested[n]
  OBVIOUS
<1>5. r \in D!Tested /\ n \in DOMAIN tested
  BY <1>3, <1>4 DEF LinesInv
<1>6. PICK w : w = (r.astray \/ D!Astray(lines))
  OBVIOUS
<1>7. w \in BOOLEAN
  BY <1>6, Zenon
<1>8. D!Op1.op \in D!Failures
  BY DEF GoodOp, D!Op, D!Failures
<1>9. PICK s : s = [r EXCEPT !.astray = w]
  OBVIOUS
<1>10. s \in D!Tested /\ s.to = r.to /\ s.from = r.from
  BY <1>5, <1>7, <1>9 DEF D!Tested
<1>11. PICK seen : seen = [tested EXCEPT ![n] = s]
  OBVIOUS
<1>12. seen \in Seq(D!Tested) /\ seen # <<>> /\ SameTests(seen, tested)
  BY <1>3, <1>4, <1>10, <1>11, ChangeTested DEF LinesInv
<1>13. \/ tested' = seen
       \/ tested' = [seen EXCEPT ![n].failure = IF tested[n].rolling THEN "rollback"
                                                 ELSE D!Op1.op,
                                 ![n].told = told]
  BY <1>3, <1>4, <1>6, <1>9, <1>11 DEF D!Outcome
<1>14. CASE tested' = seen
  BY <1>1, <1>2, <1>12, <1>14 DEF LinesInv
<1>15. CASE tested' = [seen EXCEPT ![n].failure = IF tested[n].rolling THEN "rollback"
                                                 ELSE D!Op1.op,
                                 ![n].told = told]
  <2>1. PICK f : f = IF tested[n].rolling THEN "rollback" ELSE D!Op1.op
    OBVIOUS
  <2>2. f \in D!Failures
    BY <1>8, <2>1 DEF D!Failures
  <2>3. tested' = [seen EXCEPT ![n].failure = f, ![n].told = told]
    BY <1>15, <2>1
  <2>4. Len(seen) = n /\ n \in DOMAIN seen /\ seen[n] = s
    BY <1>3, <1>5, <1>11, <1>12, <1>10 DEF LinesInv
  <2>5. PICK t : t = [s EXCEPT !.failure = f, !.told = told]
    OBVIOUS
  <2>6. t \in D!Tested /\ t.to = s.to /\ t.from = s.from
    BY <1>10, <2>2, <2>5 DEF D!Tested
  <2>7. tested' = [seen EXCEPT ![n] = t]
    BY <2>3, <2>4, <2>5, <1>12
  <2>8. tested' \in Seq(D!Tested) /\ tested' # <<>> /\ SameTests(tested', seen)
    BY <1>12, <2>4, <2>6, <2>7, ChangeTested
  <2>9. SameTests(tested', tested)
    BY <1>12, <2>8 DEF SameTests
  <2> QED
    BY <1>1, <1>2, <2>8, <2>9 DEF LinesInv
<1> QED
  BY <1>13, <1>14, <1>15

\* The lines of Device.restore() are no loads.
LEMMA RestoreLines ==
  ASSUME NEW lines \in D!RestoreGood \cup D!RestoreBad
  PROVE  lines \in Seq(Quiet)
<1>1. /\ "teardown" \in Quiet /\ "restore" \in Quiet /\ "commit" \in Quiet
      /\ "compare_config" \in Quiet /\ "diff" \in Quiet /\ "empty" \in Quiet
      /\ "nn" \in Quiet /\ "reason" \in Quiet /\ "complete" \in Quiet
  BY DEF Quiet, F!EventTypes, F!CommitEvents, F!ResultEvents
<1>0. /\ <<"commit", "empty", "nn", "empty">> \in Seq(Quiet)
      /\ <<"commit", "nn", "complete">> \in Seq(Quiet)
      /\ <<>> \in Seq(Quiet)
      /\ <<"commit">> \in Seq(Quiet)
      /\ <<"commit", "reason">> \in Seq(Quiet)
      /\ <<"commit", "nn", "reason">> \in Seq(Quiet)
      /\ <<"compare_config">> \in Seq(Quiet)
      /\ <<"compare_config", "compare_config">> \in Seq(Quiet)
      /\ <<"compare_config", "diff", "compare_config">> \in Seq(Quiet)
      /\ <<"compare_config", "diff">> \in Seq(Quiet)
  BY <1>1
<1>2. ASSUME NEW c \in D!RestoreCommit \cup D!RefusedCommit
      PROVE  c \in Seq(Quiet)
  <2>1. \/ c = <<"commit", "empty", "nn", "empty">> \/ c = <<"commit", "nn", "complete">>
        \/ c = <<>> \/ c = <<"commit">> \/ c = <<"commit", "reason">>
        \/ c = <<"commit", "nn", "reason">>
    BY DEF D!RestoreCommit, D!RefusedCommit
  <2> QED
    BY <1>0, <2>1
<1>3. ASSUME NEW l \in D!Laps
      PROVE  l \in Seq(Quiet)
  <2>1. \/ l = <<"compare_config">> \/ l = <<"compare_config", "compare_config">>
        \/ l = <<"compare_config", "diff", "compare_config">>
    BY DEF D!Laps
  <2> QED
    BY <1>0, <2>1
<1>4. ASSUME NEW l \in D!BadLaps
      PROVE  l \in Seq(Quiet)
  <2>1. PICK p \in {<<>>, <<"compare_config">>, <<"compare_config", "diff">>},
             q \in {<<>>, <<"compare_config">>, <<"compare_config", "diff">>} : l = p \o q
    BY DEF D!BadLaps
  <2>2. p \in Seq(Quiet) /\ q \in Seq(Quiet)
    BY <1>0, <2>1
  <2> QED
    BY <2>1, <2>2, ConcatProperties
<1>5. <<"teardown", "restore">> \in Seq(Quiet) /\ <<"teardown">> \in Seq(Quiet)
  BY <1>1
<1>6. ASSUME NEW c \in D!RestoreCommit \cup D!RefusedCommit
      PROVE  <<"teardown", "restore">> \o c \in Seq(Quiet)
  BY <1>2, <1>5, ConcatProperties
<1>7. ASSUME NEW c \in D!RestoreCommit, NEW l \in D!Laps \cup D!BadLaps
      PROVE  <<"teardown", "restore">> \o c \o l \in Seq(Quiet)
  BY <1>3, <1>4, <1>6, ConcatProperties
<1>8. \/ \E c \in D!RestoreCommit, l \in D!Laps \cup D!BadLaps :
            lines = <<"teardown", "restore">> \o c \o l
      \/ \E c \in D!RefusedCommit : lines = <<"teardown", "restore">> \o c
      \/ lines = <<"teardown">>
  BY DEF D!RestoreGood, D!RestoreBad
<1> QED
  BY <1>5, <1>6, <1>7, <1>8

LEMMA BlurTested ==
  ASSUME LinesInv, NEW lines, D!Blur(lines)
  PROVE  /\ tested' \in Seq(D!Tested) /\ (tested # <<>> => tested' # <<>>)
         /\ SameTests(tested', tested)
<1>1. CASE Len(tested) = 0
  <2>1. tested' = tested
    BY <1>1 DEF D!Blur
  <2> QED
    BY <2>1 DEF LinesInv, SameTests
<1>2. CASE Len(tested) # 0
  <2>1. PICK n : n = Len(tested)
    OBVIOUS
  <2>2. PICK r : r = tested[n]
    OBVIOUS
  <2>3. r \in D!Tested /\ n \in DOMAIN tested /\ tested # <<>>
    BY <2>1, <2>2, <1>2 DEF LinesInv
  <2>4. PICK smooth : smooth = (lines \in D!RestoreGood /\ \A i \in DOMAIN lines : lines[i] # "diff")
    OBVIOUS
  <2>5. PICK b : b = (r.blurred \/ ~smooth)
    OBVIOUS
  <2>6. PICK w : w = (r.astray \/ D!Astray(lines))
    OBVIOUS
  <2>7. b \in BOOLEAN
    BY <2>5, Zenon
  <2>8. w \in BOOLEAN
    BY <2>6, Zenon
  <2>9. PICK t : t = [r EXCEPT !.blurred = b, !.astray = w]
    OBVIOUS
  <2>10. t \in D!Tested /\ t.to = r.to /\ t.from = r.from
    BY <2>3, <2>7, <2>8, <2>9 DEF D!Tested
  <2>11. tested' = [tested EXCEPT ![n].blurred = @ \/ ~smooth, ![n].astray = @ \/ D!Astray(lines)]
    BY <2>1, <2>4, <1>2 DEF D!Blur
  <2>12. tested' = [tested EXCEPT ![n].blurred = b, ![n].astray = w]
    BY <2>2, <2>3, <2>5, <2>6, <2>11
  <2>13. tested' = [tested EXCEPT ![n] = t]
    BY <2>2, <2>3, <2>9, <2>12
  <2> QED
    BY <2>1, <2>2, <2>3, <2>10, <2>13, ChangeTested DEF LinesInv
<1> QED
  BY <1>1, <1>2

\* A set begins with a load, and has only loads of its states.
LEMMA AttemptTypes ==
  ASSUME NEW s \in States
  PROVE  /\ D!Attempt(s) \in Seq(GoodOp) /\ Len(D!Attempt(s)) = 3
         /\ D!Attempt(s)[1].op = "load"
         /\ D!Rollback \in Seq(GoodOp) /\ Len(D!Rollback) = 3
<1>1. [op |-> "load", state |-> s] \in GoodOp
  BY DEF GoodOp, D!Op
<1>2. ASSUME NEW o \in {"commit", "compare_config", "rollback"}
      PROVE  D!Do(o) \in GoodOp
  BY DEF D!Do, GoodOp, D!Op
<1> QED
  BY <1>1, <1>2 DEF D!Attempt, D!Rollback

LEMMA SetOpsTypes ==
  ASSUME NEW tset \in Seq(States) \ {<<>>}, NEW rollback \in BOOLEAN
  PROVE  /\ D!SetOps(tset, rollback) \in Seq(GoodOp)
         /\ D!SetOps(tset, rollback) # <<>>
         /\ Head(D!SetOps(tset, rollback)).op = "load"
<1> DEFINE turn(k)  == ((k - 1) \div 3) + 1
           place(k) == ((k - 1) % 3) + 1
<1>1. PICK turns : turns = Len(tset) + (IF rollback THEN Len(tset) + 2 ELSE 0)
  OBVIOUS
<1>2. Len(tset) \in Nat /\ Len(tset) > 0 /\ turns \in Nat /\ turns > 0
  BY <1>1, EmptySeq
<1>3. ASSUME NEW k \in 1..(3 * turns)
      PROVE  (IF turn(k) <= Len(tset) THEN D!Attempt(tset[turn(k)])[place(k)]
              ELSE D!Rollback[place(k)]) \in GoodOp
  <2>1. place(k) \in 1..3 /\ turn(k) \in Nat /\ turn(k) >= 1
    BY <1>2
  <2>2. CASE turn(k) <= Len(tset)
    <3>1. tset[turn(k)] \in States
      BY <2>1, <2>2, <1>2
    <3>2. D!Attempt(tset[turn(k)])[place(k)] \in GoodOp
      BY <2>1, <3>1, AttemptTypes
    <3> QED
      BY <2>2, <3>2
  <2>3. CASE ~(turn(k) <= Len(tset))
    <3>1. tset[1] \in States
      BY <1>2
    <3>2. D!Rollback[place(k)] \in GoodOp
      BY <2>1, <3>1, AttemptTypes
    <3> QED
      BY <2>3, <3>2
  <2> QED
    BY <2>2, <2>3
<1>4. PICK q : q = D!SetOps(tset, rollback)
  OBVIOUS
<1>5. q = [k \in 1..(3 * turns) |->
             IF turn(k) <= Len(tset) THEN D!Attempt(tset[turn(k)])[place(k)]
             ELSE D!Rollback[place(k)]]
  BY <1>1, <1>4 DEF D!SetOps
<1>6. 3 * turns \in Nat /\ 3 * turns > 0
  BY <1>2
<1>7. q \in Seq(GoodOp) /\ Len(q) = 3 * turns
  <2> HIDE DEF turn, place
  <2> QED
    BY <1>3, <1>5, <1>6, IsASeq
<1>8. q[1] = D!Attempt(tset[1])[1]
  <2>1. turn(1) = 1 /\ place(1) = 1
    OBVIOUS
  <2>2. 1 \in 1..(3 * turns)
    BY <1>6
  <2> HIDE DEF turn, place
  <2> QED
    BY <1>5, <2>1, <2>2, <1>2
<1>9. tset[1] \in States
  BY <1>2
<1>10. q[1].op = "load"
  BY <1>8, <1>9, AttemptTypes
<1>11. q # <<>> /\ Head(q) = q[1]
  BY <1>6, <1>7, EmptySeq
<1> QED
  BY <1>4, <1>7, <1>10, <1>11

LEMMA OpStep ==
  ASSUME DrnedInv, rpc = "op", D!Proceed \/ D!Fail, UNCHANGED job,
         LinesInv', tested' # <<>>
  PROVE  DrnedInv'
BY ProceedRun, FailRun DEF DrnedInv, LoadFirst

\* After the load, an operation is about the last state loaded.
LEMMA SomeTested ==
  ASSUME DrnedInv, rpc = "op", D!Op1.op # "load"
  PROVE  tested # <<>>
BY DEF DrnedInv, LoadFirst, D!Op1

LEMMA PrepareInv ==
  ASSUME DrnedInv, D!Prepare
  PROVE  DrnedInv'
<1>1. rpc = "prepare" /\ UNCHANGED <<job, sets, failed_states, tested>>
  BY DEF D!Prepare
<1>2. /\ D!Lines(<<"noqueue", "empty">>) \in Seq(GoodEvent)
      /\ D!Lines(<<"noqueue", "reason">>) \in Seq(GoodEvent)
  <2>1. "noqueue" \in Quiet /\ "empty" \in Quiet /\ "reason" \in Quiet
    BY DEF Quiet, F!EventTypes, F!CommitEvents, F!ResultEvents
  <2>2. <<"noqueue", "empty">> \in Seq(Quiet) /\ <<"noqueue", "reason">> \in Seq(Quiet)
    BY <2>1
  <2> QED
    BY <2>2, LinesTypes
<1>3. /\ out \o D!Lines(<<"noqueue", "empty">>) \in Seq(GoodEvent)
      /\ out \o D!Lines(<<"noqueue", "reason">>) \in Seq(GoodEvent)
  BY <1>2, ConcatProperties DEF DrnedInv, LinesInv
<1>4. LinesInv'
  <2>1. \/ out' = out \/ out' = out \o D!Lines(<<"noqueue", "empty">>)
        \/ out' = out \o D!Lines(<<"noqueue", "reason">>)
    BY DEF D!Prepare
  <2> QED
    BY <1>1, <1>3, <2>1 DEF DrnedInv, LinesInv
<1>5. CASE D!End("failed") /\ UNCHANGED <<ops, raised>>
  <2>1. rpc' = "idle" /\ exit' = "failed" /\ UNCHANGED <<ops, raised>>
    BY <1>5 DEF D!End
  <2> QED
    BY <1>1, <1>4, <2>1 DEF DrnedInv, RunInv, LoadFirst, D!RunPC
<1>6. CASE /\ IF job.test = "set"
              THEN /\ rpc' = IF sets = <<>> THEN "restore" ELSE "set"
                   /\ raised' = (sets = <<>>)
                   /\ UNCHANGED ops
              ELSE /\ rpc' = "op"
                   /\ ops' = D!Attempt(Head(Head(sets))) \o
                               (IF job.test = "single" THEN D!Rollback ELSE <<>>)
                   /\ UNCHANGED raised
           /\ UNCHANGED exit
  <2>1. CASE job.test = "set"
    <3>1. rpc' \in {"set", "restore"} /\ UNCHANGED <<ops, exit>>
      BY <1>6, <2>1
    <3>2. raised' \in BOOLEAN
      BY <1>6, <2>1, Zenon
    <3> QED
      BY <1>1, <1>4, <2>1, <3>1, <3>2 DEF DrnedInv, RunInv, LoadFirst, D!RunPC
  <2>2. CASE job.test # "set"
    <3>1. sets # <<>> /\ sets \in Seq(Seq(States) \ {<<>>})
      BY <1>1, <2>2 DEF DrnedInv, RunInv
    <3>2. Head(sets) \in Seq(States) \ {<<>>}
      BY <3>1
    <3>3. PICK s : s = Head(Head(sets))
      OBVIOUS
    <3>4. s \in States
      BY <3>2, <3>3
    <3>5. PICK p : p = D!Attempt(s)
      OBVIOUS
    <3>6. PICK q : q = IF job.test = "single" THEN D!Rollback ELSE <<>>
      OBVIOUS
    <3>7. p \in Seq(GoodOp) /\ q \in Seq(GoodOp) /\ Len(p) = 3 /\ p[1].op = "load"
      BY <3>4, <3>5, <3>6, AttemptTypes
    <3>8. rpc' = "op" /\ ops' = p \o q /\ UNCHANGED <<exit, raised>>
      BY <1>6, <2>2, <3>3, <3>5, <3>6
    <3>9. p \o q \in Seq(GoodOp) /\ Len(p \o q) = 3 + Len(q) /\ (p \o q)[1] = p[1]
      <4>1. p \in Seq(GoodOp) /\ q \in Seq(GoodOp)
        BY <3>7
      <4>2. /\ p \o q \in Seq(GoodOp) /\ Len(p \o q) = Len(p) + Len(q)
            /\ \A i \in 1..(Len(p) + Len(q)) :
                 (p \o q)[i] = IF i <= Len(p) THEN p[i] ELSE q[i - Len(p)]
        BY <4>1, ConcatProperties
      <4>3. 1 \in 1..(Len(p) + Len(q)) /\ 1 <= Len(p) /\ Len(p) = 3
        BY <3>7
      <4> QED
        BY <4>2, <4>3
    <3>10. p \o q # <<>> /\ Head(p \o q) = p[1]
      BY <3>7, <3>9, EmptySeq
    <3> QED
      BY <1>1, <1>4, <2>2, <3>1, <3>7, <3>8, <3>9, <3>10 DEF DrnedInv, RunInv, LoadFirst, D!RunPC
  <2> QED
    BY <2>1, <2>2
<1> QED
  BY <1>5, <1>6 DEF D!Prepare

LEMMA BeginSetInv ==
  ASSUME DrnedInv, D!BeginSet
  PROVE  DrnedInv'
<1>1. rpc = "set" /\ sets # <<>> /\ UNCHANGED <<job, sets, failed_states, raised, exit, tested>>
  BY DEF D!BeginSet
<1>2. Head(sets) \in Seq(States) \ {<<>>} /\ job.rollback \in BOOLEAN
  BY <1>1 DEF DrnedInv, RunInv, D!Job
<1>3. ops' = D!SetOps(Head(sets), job.rollback) /\ rpc' = "op"
  BY DEF D!BeginSet
<1>4. ops' \in Seq(GoodOp) /\ ops' # <<>> /\ Head(ops').op = "load"
  BY <1>2, <1>3, SetOpsTypes
<1>5. D!Line("py_test") \in GoodEvent
  BY DEF D!Line, GoodEvent, F!Event, F!EventTypes
<1>6. out' = out \/ out' = Append(out, D!Line("py_test"))
  BY DEF D!BeginSet
<1>7. out' \in Seq(GoodEvent)
  BY <1>5, <1>6 DEF DrnedInv, LinesInv
<1> QED
  BY <1>1, <1>3, <1>4, <1>7 DEF DrnedInv, RunInv, LinesInv, LoadFirst, D!RunPC

LEMMA EndSetsInv ==
  ASSUME DrnedInv, D!EndSets
  PROVE  DrnedInv'
<1>1. job.rollback \in BOOLEAN
  BY DEF DrnedInv, RunInv, D!Job
<1>2. raised' \in BOOLEAN
  BY <1>1 DEF D!EndSets
<1>3. rpc = "set" /\ rpc' = "restore" /\ UNCHANGED <<job, sets, ops, failed_states, out, exit, tested>>
  BY DEF D!EndSets
<1> QED
  BY <1>2, <1>3 DEF DrnedInv, RunInv, LinesInv, LoadFirst, D!RunPC

LEMMA LoadedTypes ==
  ASSUME RunInv, rpc = "op", D!Op1.op = "load", NEW failure \in {"none", "load"}
  PROVE  D!Loaded(failure) \in D!Tested
<1>1. D!Op1.state \in States
  BY Op1Good DEF GoodOp
<1>2. job.test \in {"raw", "single", "set"} /\ job.from \in States \cup {NoState}
  BY DEF RunInv, D!Job
<1>3. failure \in D!Failures
  BY DEF D!Failures
<1> QED
  BY <1>1, <1>2, <1>3 DEF D!Loaded, D!Tested

\* A line of the operation itself.
LEMMA OpLine ==
  ASSUME RunInv, rpc = "op"
  PROVE  [type |-> D!Op1.op, state |-> D!Op1.state] \in GoodEvent
<1>1. D!Op1 \in GoodOp
  BY Op1Good
<1>2. D!Op1.op \in F!EventTypes
  BY <1>1 DEF GoodOp, D!Op, F!EventTypes
<1> QED
  BY <1>1, <1>2 DEF GoodOp, D!Op, GoodEvent, F!Event

LEMMA LoadInv ==
  ASSUME DrnedInv, D!Load
  PROVE  DrnedInv'
<1>1. rpc = "op" /\ D!Op1.op = "load" /\ UNCHANGED job
  BY DEF D!Load
<1>2. PICK failure \in {"none", "load"} :
        /\ IF failure = "none" THEN D!Proceed ELSE D!Fail
        /\ tested' = Append(tested, D!Loaded(failure))
  BY DEF D!Load
<1>3. PICK t : t = D!Loaded(failure)
  OBVIOUS
<1>4. t \in D!Tested
  BY <1>1, <1>3, LoadedTypes DEF DrnedInv
<1>5. tested' \in Seq(D!Tested) /\ Len(tested') = Len(tested) + 1 /\ Len(tested) \in Nat
  BY <1>2, <1>3, <1>4 DEF DrnedInv, LinesInv
<1>6. PICK ev : ev = [type |-> "load", state |-> D!Op1.state]
  OBVIOUS
<1>7. ev \in GoodEvent
  BY <1>1, <1>6, OpLine DEF DrnedInv
<1>8. out' = Append(out, ev)
  BY <1>6 DEF D!Load
<1>9. LinesInv' /\ tested' # <<>>
  BY <1>5, <1>7, <1>8, EmptySeq DEF DrnedInv, LinesInv
<1> QED
  BY <1>1, <1>2, <1>9, OpStep

LEMMA CommitLines ==
  ASSUME RunInv
  PROVE  /\ <<"commit", "empty", D!CommitCommand, "empty">> \in Seq(Quiet)
         /\ <<"commit", D!CommitCommand>> \o
              (IF job.queue THEN <<"completed">> ELSE <<>>) \o <<"complete">> \in Seq(Quiet)
         /\ \A told \in BOOLEAN :
              <<"commit", "queue", "failed">> \o
                 (IF told THEN <<"reason">> ELSE <<>>) \o <<"complete">> \in Seq(Quiet)
         /\ <<"commit">> \in Seq(Quiet) /\ <<"commit", "reason">> \in Seq(Quiet)
         /\ <<"commit", D!CommitCommand>> \in Seq(Quiet)
         /\ <<"commit", D!CommitCommand, "reason">> \in Seq(Quiet)
<1>1. /\ "commit" \in Quiet /\ "empty" \in Quiet /\ "completed" \in Quiet
      /\ "complete" \in Quiet /\ "queue" \in Quiet /\ "noqueue" \in Quiet
      /\ "failed" \in Quiet /\ "reason" \in Quiet
  BY DEF Quiet, F!EventTypes, F!CommitEvents, F!ResultEvents
<1>2. PICK k : k = D!CommitCommand
  OBVIOUS
<1>3. k \in Quiet
  BY <1>1, <1>2 DEF D!CommitCommand
<1>4. /\ <<"commit", "empty", k, "empty">> \in Seq(Quiet)
      /\ <<"commit", k>> \in Seq(Quiet)
      /\ <<"completed">> \in Seq(Quiet) /\ <<>> \in Seq(Quiet) /\ <<"complete">> \in Seq(Quiet)
      /\ <<"commit", "queue", "failed">> \in Seq(Quiet) /\ <<"reason">> \in Seq(Quiet)
      /\ <<"commit">> \in Seq(Quiet) /\ <<"commit", "reason">> \in Seq(Quiet)
      /\ <<"commit", k, "reason">> \in Seq(Quiet)
  BY <1>1, <1>3
<1>5. <<"commit", k>> \o (IF job.queue THEN <<"completed">> ELSE <<>>) \o <<"complete">>
        \in Seq(Quiet)
  BY <1>4, ConcatProperties
<1>6. ASSUME NEW told \in BOOLEAN
      PROVE  <<"commit", "queue", "failed">> \o
                 (IF told THEN <<"reason">> ELSE <<>>) \o <<"complete">> \in Seq(Quiet)
  BY <1>4, ConcatProperties
<1> QED
  BY <1>2, <1>4, <1>5, <1>6

LEMMA CommitOutcome ==
  ASSUME DrnedInv, D!CommitSucceeds \/ D!QueueItemFails \/ D!CommitAborted
  PROVE  \E lines \in Seq(Quiet), fails, told \in BOOLEAN : D!Outcome(lines, fails, told)
<1>1. CASE D!CommitSucceeds
  BY <1>1, CommitLines DEF D!CommitSucceeds, DrnedInv
<1>2. CASE D!QueueItemFails
  BY <1>2, CommitLines DEF D!QueueItemFails, DrnedInv
<1>3. CASE D!CommitAborted
  <2>1. (~job.queue) \in BOOLEAN
    OBVIOUS
  <2>2. \/ \E lines \in {<<"commit">>, <<"commit", "reason">>, <<"commit", D!CommitCommand>>} :
             D!Outcome(lines, TRUE, FALSE)
        \/ D!Outcome(<<"commit", D!CommitCommand, "reason">>, TRUE, ~job.queue)
    BY <1>3 DEF D!CommitAborted
  <2>3. CASE D!Outcome(<<"commit", D!CommitCommand, "reason">>, TRUE, ~job.queue)
    <3>1. <<"commit", D!CommitCommand, "reason">> \in Seq(Quiet)
      BY CommitLines DEF DrnedInv
    <3>2. PICK told : told = ~job.queue
      OBVIOUS
    <3>3. told \in BOOLEAN
      BY <3>2, Zenon
    <3>4. D!Outcome(<<"commit", D!CommitCommand, "reason">>, TRUE, told)
      BY <2>3, <3>2, Zenon
    <3>5. TRUE \in BOOLEAN
      BY Zenon
    <3> QED
      BY <3>1, <3>3, <3>4, <3>5, Zenon
  <2>4. CASE \E lines \in {<<"commit">>, <<"commit", "reason">>, <<"commit", D!CommitCommand>>} :
             D!Outcome(lines, TRUE, FALSE)
    BY <2>4, CommitLines DEF DrnedInv
  <2> QED
    BY <2>2, <2>3, <2>4
<1> QED
  BY <1>1, <1>2, <1>3

LEMMA CommitInv ==
  ASSUME DrnedInv, D!CommitSucceeds \/ D!QueueItemFails \/ D!CommitAborted
  PROVE  DrnedInv'
<1>1. rpc = "op" /\ D!Op1.op = "commit" /\ (D!Proceed \/ D!Fail)
  BY DEF D!CommitSucceeds, D!QueueItemFails, D!CommitAborted
<1>2. PICK lines \in Seq(Quiet), fails \in BOOLEAN, told \in BOOLEAN :
        D!Outcome(lines, fails, told)
  BY CommitOutcome
<1>3. LinesInv' /\ tested' # <<>> /\ UNCHANGED job
  BY <1>1, <1>2, SomeTested, Op1Good, OutcomeLines DEF DrnedInv
<1> QED
  BY <1>1, <1>3, OpStep

LEMMA CompareInv ==
  ASSUME DrnedInv, D!Compare
  PROVE  DrnedInv'
<1>1. rpc = "op" /\ D!Op1.op = "compare_config" /\ (D!Proceed \/ D!Fail)
  BY DEF D!Compare
<1>2. "compare_config" \in Quiet /\ "diff" \in Quiet
  BY DEF Quiet, F!EventTypes
<1>3. <<"compare_config">> \in Seq(Quiet) /\ <<"compare_config", "diff">> \in Seq(Quiet)
  BY <1>2
<1>4. PICK lines \in Seq(Quiet), fails \in BOOLEAN, told \in BOOLEAN :
        D!Outcome(lines, fails, told)
  BY <1>3 DEF D!Compare
<1>5. LinesInv' /\ tested' # <<>> /\ UNCHANGED job
  BY <1>1, <1>4, SomeTested, Op1Good, OutcomeLines DEF DrnedInv
<1> QED
  BY <1>1, <1>5, OpStep

LEMMA RollBackTested ==
  ASSUME DrnedInv, D!RollBack
  PROVE  /\ tested' \in Seq(D!Tested) /\ tested' # <<>>
         /\ SameTests(tested', tested)
<1>1. rpc = "op" /\ D!Op1.op = "rollback"
  BY DEF D!RollBack
<1>2. tested # <<>>
  BY <1>1, SomeTested
<1>3. PICK n : n = Len(tested)
  OBVIOUS
<1>4. PICK r : r = tested[n]
  OBVIOUS
<1>5. r \in D!Tested /\ n \in DOMAIN tested
  BY <1>2, <1>3, <1>4 DEF DrnedInv, LinesInv
<1>6. PICK fails \in BOOLEAN :
        tested' = [tested EXCEPT ![n].rolling = TRUE,
                    ![n].failure = IF fails /\ @ = "none" THEN "rollback" ELSE @]
  BY <1>3 DEF D!RollBack
<1>7. PICK f : f = IF fails /\ r.failure = "none" THEN "rollback" ELSE r.failure
  OBVIOUS
<1>8. f \in D!Failures
  BY <1>5, <1>7 DEF D!Tested, D!Failures
<1>9. PICK t : t = [r EXCEPT !.rolling = TRUE, !.failure = f]
  OBVIOUS
<1>10. t \in D!Tested /\ t.to = r.to /\ t.from = r.from
  BY <1>5, <1>8, <1>9 DEF D!Tested
<1>11. tested' = [tested EXCEPT ![n].rolling = TRUE, ![n].failure = f]
  <2>1. [r EXCEPT !.rolling = TRUE].failure = r.failure
    BY <1>5 DEF D!Tested
  <2> QED
    BY <1>4, <1>5, <1>6, <1>7, <2>1 DEF DrnedInv, LinesInv
<1>12. tested' = [tested EXCEPT ![n] = t]
  BY <1>4, <1>5, <1>9, <1>11 DEF DrnedInv, LinesInv
<1> QED
  BY <1>2, <1>3, <1>4, <1>10, <1>12, ChangeTested DEF DrnedInv, LinesInv

LEMMA RollBackInv ==
  ASSUME DrnedInv, D!RollBack
  PROVE  DrnedInv'
<1>1. rpc = "op" /\ D!Op1.op = "rollback" /\ (D!Proceed \/ D!Fail) /\ UNCHANGED job
  BY DEF D!RollBack
<1>2. D!Line("rollback") \in GoodEvent
  BY DEF D!Line, GoodEvent, F!Event, F!EventTypes
<1>3. out' \in Seq(GoodEvent)
  BY <1>2 DEF DrnedInv, LinesInv, D!RollBack
<1> QED
  BY <1>1, <1>3, RollBackTested, OpStep DEF LinesInv

LEMMA InterruptedInv ==
  ASSUME DrnedInv, D!Interrupted
  PROVE  DrnedInv'
<1>1. rpc = "op" /\ D!Leave /\ UNCHANGED job
  BY DEF D!Interrupted
<1>2. LinesInv'
  <2>1. CASE UNCHANGED <<out, tested>>
    BY <2>1 DEF DrnedInv, LinesInv
  <2>2. CASE /\ out' = Append(out, [type |-> D!Op1.op, state |-> D!Op1.state])
             /\ tested' = IF D!Op1.op = "load" THEN Append(tested, D!Loaded("none"))
                          ELSE tested
    <3>1. PICK ev : ev = [type |-> D!Op1.op, state |-> D!Op1.state]
      OBVIOUS
    <3>2. ev \in GoodEvent
      BY <1>1, <3>1, OpLine DEF DrnedInv
    <3>3. out' \in Seq(GoodEvent)
      BY <2>2, <3>1, <3>2 DEF DrnedInv, LinesInv
    <3>4. tested' \in Seq(D!Tested)
      <4>1. CASE D!Op1.op = "load"
        <5>1. PICK t : t = D!Loaded("none")
          OBVIOUS
        <5>2. t \in D!Tested
          BY <1>1, <4>1, <5>1, LoadedTypes DEF DrnedInv
        <5> QED
          BY <2>2, <4>1, <5>1, <5>2 DEF DrnedInv, LinesInv
      <4>2. CASE D!Op1.op # "load"
        BY <2>2, <4>2 DEF DrnedInv, LinesInv
      <4> QED
        BY <4>1, <4>2
    <3> QED
      BY <3>3, <3>4 DEF LinesInv
  <2>3. CASE out' = out \o D!Lines(<<"commit", "empty">>) /\ UNCHANGED tested
    <3>1. "commit" \in Quiet /\ "empty" \in Quiet
      BY DEF Quiet, F!EventTypes, F!CommitEvents, F!ResultEvents
    <3>2. <<"commit", "empty">> \in Seq(Quiet)
      BY <3>1
    <3>3. out' \in Seq(GoodEvent)
      BY <2>3, <3>2, LinesTypes, ConcatProperties DEF DrnedInv, LinesInv
    <3> QED
      BY <2>3, <3>3 DEF DrnedInv, LinesInv
  <2> QED
    BY <2>1, <2>2, <2>3 DEF D!Interrupted
<1>3. RunInv' /\ rpc' # "op"
  BY <1>1, LeaveRun DEF DrnedInv
<1> QED
  BY <1>2, <1>3 DEF DrnedInv, LoadFirst

LEMMA RestoreInv ==
  ASSUME DrnedInv, D!RestoreAfterSet \/ D!RestoreAtEnd \/ D!Killed
  PROVE  DrnedInv'
<1>1. CASE D!RestoreAfterSet
  <2>1. PICK lines \in D!RestoreGood \cup D!RestoreBad :
          /\ out' = out \o D!Lines(lines)
          /\ D!Blur(lines)
          /\ \/ rpc' = "set" /\ sets' = Tail(sets) /\ UNCHANGED raised
             \/ rpc' = "restore" /\ raised' = TRUE /\ UNCHANGED sets
    BY <1>1 DEF D!RestoreAfterSet
  <2>2. rpc = "restore_set" /\ UNCHANGED <<job, ops, failed_states, exit>>
    BY <1>1 DEF D!RestoreAfterSet
  <2>3. lines \in Seq(Quiet)
    BY RestoreLines
  <2>4. LinesInv'
    BY <2>1, <2>3, LinesTypes, BlurTested, ConcatProperties DEF DrnedInv, LinesInv
  <2>5. sets # <<>> /\ sets \in Seq(Seq(States) \ {<<>>})
    BY <2>2 DEF DrnedInv, RunInv
  <2>6. sets' \in Seq(Seq(States) \ {<<>>})
    <3>1. Tail(sets) \in Seq(Seq(States) \ {<<>>})
      BY <2>5, HeadTailProperties
    <3> QED
      BY <2>1, <2>5, <3>1
  <2>7. raised' \in BOOLEAN /\ rpc' \in {"set", "restore"}
    BY <2>1 DEF DrnedInv, RunInv
  <2> QED
    BY <2>2, <2>4, <2>6, <2>7 DEF DrnedInv, RunInv, LoadFirst, D!RunPC
<1>2. CASE D!RestoreAtEnd
  <2>1. PICK lines \in D!RestoreGood \cup D!RestoreBad :
          /\ \/ out' = out \o D!Lines(lines) \o
                  (IF failed_states = <<>> THEN <<>> ELSE <<D!Line("failed_states")>>)
             \/ out' = out \o D!Lines(lines)
          /\ D!Blur(lines)
    BY <1>2 DEF D!RestoreAtEnd
  <2>2. /\ UNCHANGED <<job, sets, ops, failed_states, raised>>
        /\ rpc' = "idle" /\ exit' \in {"ok", "failed"}
    BY <1>2 DEF D!RestoreAtEnd, D!End
  <2>3. D!Line("failed_states") \in GoodEvent
    BY DEF D!Line, GoodEvent, F!Event, F!EventTypes
  <2>4. (IF failed_states = <<>> THEN <<>> ELSE <<D!Line("failed_states")>>) \in Seq(GoodEvent)
    BY <2>3
  <2>5. out' \in Seq(GoodEvent)
    <3>1. PICK a, b : /\ a = D!Lines(lines)
                      /\ b = IF failed_states = <<>> THEN <<>> ELSE <<D!Line("failed_states")>>
      OBVIOUS
    <3>2. a \in Seq(GoodEvent) /\ b \in Seq(GoodEvent) /\ out \in Seq(GoodEvent)
      BY <2>4, <3>1, RestoreLines, LinesTypes DEF DrnedInv, LinesInv
    <3>3. out' = out \o a \o b \/ out' = out \o a
      BY <2>1, <3>1
    <3>4. out \o a \in Seq(GoodEvent)
      BY <3>2, ConcatProperties
    <3> QED
      BY <3>2, <3>3, <3>4, ConcatProperties
  <2>6. tested' \in Seq(D!Tested)
    BY <2>1, BlurTested DEF DrnedInv
  <2> QED
    BY <2>2, <2>5, <2>6 DEF DrnedInv, RunInv, LinesInv, LoadFirst, D!RunPC
<1>3. CASE D!Killed
  <2>1. /\ UNCHANGED <<job, sets, ops, failed_states, raised, out, tested>>
        /\ rpc' = "idle" /\ exit' = "failed"
    BY <1>3 DEF D!Killed, D!End
  <2> QED
    BY <2>1 DEF DrnedInv, RunInv, LinesInv, LoadFirst, D!RunPC
<1> QED
  BY <1>1, <1>2, <1>3

LEMMA DrnedStepInv ==
  ASSUME DrnedInv, D!Step
  PROVE  DrnedInv'
BY PrepareInv, BeginSetInv, EndSetsInv, LoadInv, CommitInv, CompareInv, RollBackInv,
   InterruptedInv, RestoreInv DEF D!Step

\* A run that is over has a status.
LEMMA EndsWithStatus ==
  ASSUME RunInv, D!Step, rpc' = "idle"
  PROVE  rpc # "idle" /\ exit' # "none"
<1>1. rpc # "idle"
  BY DEF D!Step, D!Prepare, D!BeginSet, D!EndSets, D!Load, D!CommitSucceeds, D!QueueItemFails,
     D!CommitAborted, D!Compare, D!RollBack, D!Interrupted, D!RestoreAfterSet, D!RestoreAtEnd,
     D!Killed
<1>2. ASSUME rpc = "op", D!Proceed
      PROVE  exit' # "none"
  <2>1. CASE Tail(ops) # <<>>
    BY <1>2, <2>1, <1>1 DEF D!Proceed
  <2>2. CASE Tail(ops) = <<>>
    <3>1. CASE job.test = "set"
      BY <1>2, <2>2, <3>1 DEF D!Proceed
    <3>2. CASE job.test = "single"
      BY <1>2, <2>2, <3>2 DEF D!Proceed
    <3>3. CASE job.test = "raw"
      BY <1>2, <2>2, <3>3 DEF D!Proceed, D!End
    <3>4. job.test \in {"set", "single", "raw"}
      BY <1>2 DEF RunInv, D!Job
    <3> QED
      BY <3>1, <3>2, <3>3, <3>4
  <2> QED
    BY <2>1, <2>2
<1>3. ASSUME D!Leave
      PROVE  exit' # "none"
  BY <1>3, <1>1 DEF D!Leave, D!End
<1>4. ASSUME D!Fail
      PROVE  exit' # "none"
  BY <1>3, <1>4 DEF D!Fail
<1>5. CASE D!Prepare \/ D!BeginSet \/ D!EndSets
  BY <1>1, <1>5 DEF D!Prepare, D!BeginSet, D!EndSets, D!End
<1>6. CASE D!Load \/ D!CommitSucceeds \/ D!QueueItemFails \/ D!CommitAborted \/ D!Compare
           \/ D!RollBack \/ D!Interrupted
  <2>1. rpc = "op" /\ (D!Proceed \/ D!Fail \/ D!Leave)
    BY <1>6 DEF D!Load, D!CommitSucceeds, D!QueueItemFails, D!CommitAborted, D!Compare,
       D!RollBack, D!Interrupted
  <2> QED
    BY <2>1, <1>2, <1>3, <1>4
<1>7. CASE D!RestoreAfterSet \/ D!RestoreAtEnd \/ D!Killed
  BY <1>1, <1>7 DEF D!RestoreAfterSet, D!RestoreAtEnd, D!Killed, D!End
<1> QED
  BY <1>1, <1>5, <1>6, <1>7 DEF D!Step

LEMMA StartInv ==
  ASSUME DrnedInv, NEW j \in D!Job, j.test # "none", NEW walk \in Seq(Seq(States) \ {<<>>}),
         walk # <<>> \/ j.test = "set", D!Start(j, walk)
  PROVE  DrnedInv' /\ rpc' = "prepare"
<1>1. /\ job' = j /\ rpc' = "prepare" /\ sets' = walk /\ ops' = <<>> /\ failed_states' = <<>>
      /\ raised' = FALSE /\ exit' = "none" /\ UNCHANGED <<out, tested>>
  BY DEF D!Start
<1>2. ops' \in Seq(GoodOp) /\ failed_states' \in Seq(States)
  BY <1>1
<1> QED
  BY <1>1, <1>2 DEF DrnedInv, RunInv, LinesInv, LoadFirst, D!RunPC

----------------------------------------------------------------------------
(* The transitions that are planned                                        *)

\* Dividing the number of a transition by the transitions of a state gives a
\* state.
LEMMA Quotient ==
  ASSUME NEW n \in Nat, NEW m \in Nat \ {0}, NEW j \in Nat, j < n * m,
         NEW d \in Int, NEW r \in 0..(m - 1), j = m * d + r
  PROVE  d \in 0..(n - 1)
<1>2. j \in Nat /\ j < n * m /\ m > 0 /\ n * m \in Nat
  OBVIOUS
<1>5. d \in Int /\ r \in 0..(m - 1) /\ j = m * d + r
  OBVIOUS
<1>6. d >= 0
  <2>1. CASE d < 0
    <3>1. d <= -1
      BY <1>5, <2>1
    <3>2. m * d <= m * (-1)
      BY <1>2, <1>5, <3>1
    <3>3. m * d \in Int /\ m * (-1) = -m
      BY <1>2, <1>5
    <3> QED
      BY <1>2, <1>5, <3>2, <3>3
  <2> QED
    BY <1>5, <2>1
<1>7. d < n
  <2>1. CASE d >= n
    <3>1. m * d >= m * n
      BY <1>2, <1>5, <2>1
    <3>2. m * d \in Int /\ m * n = n * m
      BY <1>2, <1>5
    <3> QED
      BY <1>2, <1>5, <3>1, <3>2
  <2> QED
    BY <1>5, <2>1
<1> QED
  BY <1>5, <1>6, <1>7

\* The transitions from state i of q to the others, in the order of q.
LEMMA PermutationsAre ==
  ASSUME NEW q \in Seq(States), Len(q) > 1
  PROVE  /\ Permutations2(q) \in Seq(States \X States)
         /\ Len(Permutations2(q)) = Len(q) * (Len(q) - 1)
         /\ \A k \in DOMAIN Permutations2(q) :
              \E i, j \in DOMAIN q :
                /\ i = ((k - 1) \div (Len(q) - 1)) + 1
                /\ i # j
                /\ k - 1 = (Len(q) - 1) * (i - 1) + (IF j < i THEN j - 1 ELSE j - 2)
                /\ Permutations2(q)[k] = <<q[i], q[j]>>
<1>1. PICK n : n = Len(q)
  OBVIOUS
<1>2. PICK m : m = n - 1
  OBVIOUS
<1>3. n \in Nat /\ m \in Nat \ {0} /\ n * m \in Nat /\ DOMAIN q = 1..n
  BY <1>1, <1>2
<1> DEFINE first(k) == ((k - 1) \div m) + 1
           other(k) == ((k - 1) % m) + 1
           second(k) == IF other(k) < first(k) THEN other(k) ELSE other(k) + 1
<1>4. ASSUME NEW k \in 1..(n * m)
      PROVE  /\ first(k) \in 1..n /\ second(k) \in 1..n /\ first(k) # second(k)
             /\ k - 1 = m * (first(k) - 1) +
                        (IF second(k) < first(k) THEN second(k) - 1 ELSE second(k) - 2)
  <2>0. PICK x : x = k - 1
    OBVIOUS
  <2>1. PICK d : d = x \div m
    OBVIOUS
  <2>2. PICK r : r = x % m
    OBVIOUS
  <2>3. d \in 0..(n - 1) /\ r \in 0..(m - 1) /\ k - 1 = m * d + r
    <3>1. x \in Nat /\ x < n * m
      BY <1>3, <2>0
    <3>2. d \in 0..(n - 1) /\ r \in 0..(m - 1) /\ x = m * d + r
      <4>1. d \in Int /\ r \in 0..(m - 1) /\ x = m * d + r
        BY <1>3, <2>1, <2>2, <3>1
      <4> QED
        BY <1>3, <3>1, <4>1, Quotient
    <3> QED
      BY <2>0, <3>2
  <2>4. first(k) = d + 1 /\ other(k) = r + 1
    BY <2>0, <2>1, <2>2, Zenon
  <2>5. PICK i : i = d + 1
    OBVIOUS
  <2>6. PICK j : j = IF r + 1 < d + 1 THEN r + 1 ELSE r + 2
    OBVIOUS
  <2>7. i \in 1..n /\ j \in 1..n /\ i # j
    BY <1>2, <1>3, <2>3, <2>5, <2>6
  <2>8. i - 1 = d /\ r = (IF j < i THEN j - 1 ELSE j - 2)
    BY <1>3, <2>3, <2>5, <2>6
  <2>9. k - 1 = m * (i - 1) + (IF j < i THEN j - 1 ELSE j - 2)
    BY <2>3, <2>8, Zenon
  <2>10. first(k) = i /\ second(k) = j
    <3>1. (r + 1) + 1 = r + 2
      BY <2>3, <1>3
    <3> QED
      BY <2>4, <2>5, <2>6, <3>1, Zenon
  <2> HIDE DEF first, second
  <2> QED
    BY <2>7, <2>9, <2>10
<1>5. PICK p : p = Permutations2(q)
  OBVIOUS
<1>6. p = [k \in 1..(n * m) |-> <<q[first(k)], q[second(k)]>>]
  BY <1>1, <1>2, <1>5, Zenon DEF Permutations2
<1> HIDE DEF first, other, second
<1>7. ASSUME NEW k \in 1..(n * m)
      PROVE  p[k] = <<q[first(k)], q[second(k)]>> /\ p[k] \in States \X States
  BY <1>3, <1>4, <1>6
<1>8. p \in Seq(States \X States) /\ Len(p) = n * m
  <2>1. p \in [1..(n * m) -> States \X States]
    BY <1>6, <1>7
  <2>2. p \in Seq(States \X States)
    BY <1>3, <2>1
  <2>3. DOMAIN p = 1..(n * m)
    BY <2>1
  <2> QED
    BY <1>3, <2>2, <2>3, LenProperties
<1>9. ASSUME NEW k \in DOMAIN p
      PROVE  \E i, j \in DOMAIN q :
                /\ i = ((k - 1) \div m) + 1
                /\ i # j
                /\ k - 1 = m * (i - 1) + (IF j < i THEN j - 1 ELSE j - 2)
                /\ p[k] = <<q[i], q[j]>>
  <2>1. k \in 1..(n * m)
    BY <1>6
  <2>2. first(k) = ((k - 1) \div m) + 1
    BY DEF first
  <2> QED
    BY <1>3, <1>4, <1>7, <2>1, <2>2
<1> QED
  BY <1>1, <1>2, <1>5, <1>8, <1>9

\* Every transition comes once, goes to another state, and those from one state
\* come one after the other.
Listing(p) ==
  /\ \A i, j \in DOMAIN p : p[i] = p[j] => i = j
  /\ \A i \in DOMAIN p : p[i][1] # p[i][2]
  /\ \A i, j, k \in DOMAIN p : i <= j /\ j <= k /\ p[i][1] = p[k][1] => p[j][1] = p[i][1]

LEMMA ColumnOrder ==
  ASSUME NEW m \in Nat \ {0}, NEW i1 \in Nat, NEW i2 \in Nat,
         NEW r1 \in 0..(m - 1), NEW r2 \in 0..(m - 1),
         m * i1 + r1 <= m * i2 + r2
  PROVE  i1 <= i2
<1>1. CASE i1 > i2
  <2>1. m * i1 >= m * (i2 + 1)
    BY <1>1
  <2>2. m * (i2 + 1) = m * i2 + m /\ m * i1 \in Int /\ m * i2 \in Int
    OBVIOUS
  <2> QED
    BY <2>1, <2>2
<1> QED
  BY <1>1

LEMMA PermutationsListing ==
  ASSUME NEW q \in Seq(States), Len(q) > 1,
         \A i, j \in DOMAIN q : i # j => q[i] # q[j]
  PROVE  Listing(Permutations2(q))
<1>1. PICK p : p = Permutations2(q)
  OBVIOUS
<1>2. PICK m : m = Len(q) - 1
  OBVIOUS
<1>3. m \in Nat \ {0} /\ DOMAIN q = 1..(m + 1)
  BY <1>2
<1> DEFINE at(i, j) == IF j < i THEN j - 1 ELSE j - 2
<1>4. ASSUME NEW k \in DOMAIN p
      PROVE  \E i, j \in DOMAIN q :
               i # j /\ k - 1 = m * (i - 1) + at(i, j) /\ p[k] = <<q[i], q[j]>>
  BY <1>1, <1>2, PermutationsAre
<1>5. ASSUME NEW i \in DOMAIN q, NEW j \in DOMAIN q, i # j
      PROVE  at(i, j) \in 0..(m - 1) /\ i - 1 \in Nat
  BY <1>3, <1>5
<1>6. DOMAIN p \subseteq Int
  BY <1>1, PermutationsAre
<1> HIDE DEF at
<1>7. ASSUME NEW k1 \in DOMAIN p, NEW k2 \in DOMAIN p, p[k1] = p[k2]
      PROVE  k1 = k2
  <2>1. PICK i1 \in DOMAIN q, j1 \in DOMAIN q :
          i1 # j1 /\ k1 - 1 = m * (i1 - 1) + at(i1, j1) /\ p[k1] = <<q[i1], q[j1]>>
    BY <1>4
  <2>2. PICK i2 \in DOMAIN q, j2 \in DOMAIN q :
          i2 # j2 /\ k2 - 1 = m * (i2 - 1) + at(i2, j2) /\ p[k2] = <<q[i2], q[j2]>>
    BY <1>4
  <2>3. q[i1] = q[i2] /\ q[j1] = q[j2]
    <3>1. p[k1][1] = p[k2][1] /\ p[k1][2] = p[k2][2]
      BY <1>7
    <3> QED
      BY <2>1, <2>2, <3>1
  <2>4. i1 = i2 /\ j1 = j2
    BY <2>3
  <2>5. k1 - 1 = k2 - 1
    BY <2>1, <2>2, <2>4, Zenon
  <2> QED
    BY <1>6, <2>5
<1>8. ASSUME NEW k \in DOMAIN p
      PROVE  p[k][1] # p[k][2]
  <2>1. PICK i \in DOMAIN q, j \in DOMAIN q : i # j /\ p[k] = <<q[i], q[j]>>
    BY <1>4
  <2>2. q[i] # q[j]
    BY <2>1
  <2> QED
    BY <2>1, <2>2
<1>9. ASSUME NEW k1 \in DOMAIN p, NEW k2 \in DOMAIN p, NEW k3 \in DOMAIN p,
             k1 <= k2, k2 <= k3, p[k1][1] = p[k3][1]
      PROVE  p[k2][1] = p[k1][1]
  <2>1. PICK i1 \in DOMAIN q, j1 \in DOMAIN q :
          i1 # j1 /\ k1 - 1 = m * (i1 - 1) + at(i1, j1) /\ p[k1] = <<q[i1], q[j1]>>
    BY <1>4
  <2>2. PICK i2 \in DOMAIN q, j2 \in DOMAIN q :
          i2 # j2 /\ k2 - 1 = m * (i2 - 1) + at(i2, j2) /\ p[k2] = <<q[i2], q[j2]>>
    BY <1>4
  <2>3. PICK i3 \in DOMAIN q, j3 \in DOMAIN q :
          i3 # j3 /\ k3 - 1 = m * (i3 - 1) + at(i3, j3) /\ p[k3] = <<q[i3], q[j3]>>
    BY <1>4
  <2>4. i1 = i3
    BY <1>9, <2>1, <2>3
  <2>5. k1 - 1 <= k2 - 1 /\ k2 - 1 <= k3 - 1
    BY <1>6, <1>9
  <2>6. m * (i1 - 1) + at(i1, j1) <= m * (i2 - 1) + at(i2, j2)
    BY <2>1, <2>2, <2>5, Zenon
  <2>7. m * (i2 - 1) + at(i2, j2) <= m * (i3 - 1) + at(i3, j3)
    BY <2>2, <2>3, <2>5, Zenon
  <2>8. i1 - 1 <= i2 - 1
    BY <1>3, <1>5, <2>1, <2>2, <2>6, ColumnOrder
  <2>9. i2 - 1 <= i3 - 1
    BY <1>3, <1>5, <2>2, <2>3, <2>7, ColumnOrder
  <2>10. i1 = i2
    BY <1>3, <2>4, <2>8, <2>9
  <2> QED
    BY <2>1, <2>2, <2>10
<1>10. Listing(p)
  BY <1>7, <1>8, <1>9 DEF Listing
<1> QED
  BY <1>1, <1>10

LEMMA PlannedTypes ==
  ASSUME request \in Request
  PROVE  /\ Planned \in Seq(States \X States)
         /\ Len(request.states) > 1 => Planned # <<>> /\ Listing(Planned)
<1>1. /\ request.states \in Seq(States) /\ request.cases \in Nat
      /\ \A i, j \in DOMAIN request.states : i # j => request.states[i] # request.states[j]
  BY DEF Request
<1>2. PICK all : all = Permutations2(request.states)
  OBVIOUS
<1>3. CASE Len(request.states) <= 1
  <2>1. Len(request.states) * (Len(request.states) - 1) = 0
    <3>1. PICK n : n = Len(request.states)
      OBVIOUS
    <3>2. n = 0 \/ n = 1
      <4>1. n \in Nat /\ n <= 1
        BY <1>1, <1>3, <3>1
      <4> QED
        BY <4>1
    <3>3. n * (n - 1) = 0
      BY <3>2
    <3> QED
      BY <3>1, <3>3
  <2>2. DOMAIN all = {}
    BY <1>2, <2>1 DEF Permutations2
  <2>3. all = <<>>
    <3>1. \E f : all = [k \in 1..0 |-> f[k]]
      <4>1. 1..0 = {}
        OBVIOUS
      <4>2. all = [k \in {} |-> all[k]]
        BY <1>2, <2>1, <4>1 DEF Permutations2
      <4> QED
        BY <4>1, <4>2
    <3>2. all \in Seq(States) /\ Len(all) = 0
      BY <3>1, <2>2, IsASeq
    <3> QED
      BY <3>2, EmptySeq
  <2>4. Planned = <<>>
    BY <1>1, <1>2, <2>3 DEF Planned
  <2>5. <<>> \in Seq(States \X States)
    OBVIOUS
  <2> QED
    BY <1>1, <1>3, <2>4, <2>5
<1>4. CASE Len(request.states) > 1
  <2>1. all \in Seq(States \X States) /\ Listing(all)
    BY <1>1, <1>2, <1>4, PermutationsAre, PermutationsListing
  <2>2. Len(all) > 0
    <3>1. Len(all) = Len(request.states) * (Len(request.states) - 1)
      BY <1>1, <1>2, <1>4, PermutationsAre
    <3> QED
      BY <1>1, <1>4, <3>1
  <2>3. CASE request.cases \in 1..Len(all)
    <3>1. PICK p : p = SubSeq(all, 1, request.cases)
      OBVIOUS
    <3>2. p \in Seq(States \X States) /\ Len(p) = request.cases
          /\ \A i \in 1..request.cases : p[i] = all[i]
      BY <1>1, <2>1, <2>3, <3>1, SubSeqProperties
    <3>3. Listing(p)
      <4>1. DOMAIN p = 1..request.cases /\ DOMAIN all = 1..Len(all)
        BY <2>1, <3>2
      <4>2. \A i \in DOMAIN p : i \in DOMAIN all /\ p[i] = all[i]
        BY <1>1, <2>3, <3>2, <4>1
      <4> QED
        BY <2>1, <4>2 DEF Listing
    <3>4. p # <<>>
      BY <2>3, <3>2, EmptySeq
    <3>5. Planned = p
      BY <1>2, <2>3, <3>1 DEF Planned
    <3> QED
      BY <3>2, <3>3, <3>4, <3>5
  <2>4. CASE request.cases \notin 1..Len(all)
    <3>1. Planned = all
      BY <1>2, <2>4 DEF Planned
    <3>2. all # <<>>
      BY <2>2, EmptySeq
    <3> QED
      BY <2>1, <3>1, <3>2
  <2> QED
    BY <2>3, <2>4
<1> QED
  BY <1>1, <1>3, <1>4

----------------------------------------------------------------------------
(* The types of the whole                                                  *)

OwnTypes ==
  /\ request \in Request
  /\ tpc \in TPC
  /\ say \in Seq(GoodEvent)
  /\ pairs \in Seq(States \X States)
  /\ {prev_state, failed_state} \subseteq States \cup {NoState}
  /\ failures \in BOOLEAN
  /\ result \in {"none", "success", "failure", "error"}
  /\ stored.stored \in BOOLEAN /\ stored.events \in Seq(F!TransitionDesc)
  /\ tried \in Seq(States \X States \X {"ok", "failed"})
  /\ lost \in BOOLEAN

\* A run was started when the operation waits for it, and it is about the
\* first of the pairs.
WaitInv ==
  /\ tpc \in {"initialize", "transition"} => pairs # <<>>
  /\ tpc \in {"running", "initialize", "transition"} /\ rpc = "idle" => exit # "none"

TypeInv == FilterTypes /\ DrnedInv /\ OwnTypes /\ WaitInv

LEMMA TypeInvImpliesTypeOK ==
  TypeInv => TypeOK
<1> SUFFICES ASSUME TypeInv PROVE TypeOK
  OBVIOUS
<1>1. GoodEvent \subseteq F!Event
  BY DEF GoodEvent
<1>2. F!TypeOK
  BY <1>1 DEF TypeInv, FilterTypes, F!TypeOK, Shows
<1>3. sets \in Seq(Seq(States))
  BY DEF TypeInv, DrnedInv, RunInv
<1>4. ops \in Seq(D!Op)
  BY DEF TypeInv, DrnedInv, RunInv, GoodOp
<1>5. ASSUME NEW i \in DOMAIN out
      PROVE  DOMAIN out[i] = {"type", "state"}
  <2>1. out[i] \in GoodEvent
    BY DEF TypeInv, DrnedInv, LinesInv
  <2> QED
    BY <2>1 DEF GoodEvent, F!Event
<1>6. D!TypeOK
  BY <1>3, <1>4, <1>5 DEF TypeInv, DrnedInv, RunInv, LinesInv, D!TypeOK
<1>7. say \in Seq(F!Event)
  BY <1>1 DEF TypeInv, OwnTypes
<1> QED
  BY <1>2, <1>6, <1>7 DEF TypeInv, OwnTypes, TypeOK

LEMMA InitTypes ==
  Init => TypeInv
<1> SUFFICES ASSUME Init PROVE TypeInv
  OBVIOUS
<1>1. request \in Request
  BY TransitionsAssumption DEF Init
<1>2. OwnTypes /\ WaitInv
  <2>1. /\ tpc = "begin" /\ say = <<>> /\ pairs = <<>> /\ prev_state = NoState
        /\ failed_state = NoState /\ failures = FALSE /\ result = "none"
        /\ stored = NotStored /\ tried = <<>> /\ lost = FALSE
    BY DEF Init
  <2>2. /\ say \in Seq(GoodEvent) /\ pairs \in Seq(States \X States)
        /\ tried \in Seq(States \X States \X {"ok", "failed"})
    BY <2>1
  <2>3. stored.stored \in BOOLEAN /\ stored.events \in Seq(F!TransitionDesc)
    BY <2>1 DEF NotStored
  <2> QED
    BY <1>1, <2>1, <2>2, <2>3 DEF OwnTypes, WaitInv, TPC
<1>3. DrnedInv
  <2>1. /\ job = D!NoJob /\ rpc = "idle" /\ sets = <<>> /\ ops = <<>>
        /\ failed_states = <<>> /\ raised = FALSE /\ out = <<>> /\ exit = "none"
        /\ tested = <<>>
    BY DEF Init, D!Init
  <2>2. /\ sets \in Seq(Seq(States) \ {<<>>}) /\ ops \in Seq(GoodOp)
        /\ failed_states \in Seq(States) /\ out \in Seq(GoodEvent) /\ tested \in Seq(D!Tested)
    BY <2>1
  <2>3. job \in D!Job
    BY <2>1 DEF D!NoJob, D!Job
  <2> QED
    BY <2>1, <2>2, <2>3 DEF DrnedInv, RunInv, LinesInv, LoadFirst, D!RunPC
<1>4. FilterTypes
  <2>1. request.action \in {"transition", "explore", "walk"}
    BY <1>1 DEF Request
  <2>2. PICK first \in {"transition-test", "explore", "walk"} : F!InitFilter(first)
    BY <2>1 DEF Init
  <2>3. first \in F!LogStates
    BY DEF F!LogStates
  <2>a. /\ stack = <<first>> /\ test_events = <<>>
        /\ event \in {F!Line("initial_prepare"), F!NoEvent}
        /\ context = F!NewContext /\ shown = ""
    BY <2>2 DEF F!InitFilter
  <2>4. stack \in Seq(F!LogStates)
    <3>1. <<first>> \in Seq(F!LogStates)
      BY <2>3
    <3> QED
      BY <2>a, <3>1, Zenon
  <2>5. F!Line("initial_prepare") \in GoodEvent
    BY DEF F!Line, GoodEvent, F!Event, F!EventTypes
  <2>6. F!NewContext \in F!Context
    BY DEF F!NewContext, F!Context, F!Failure, F!Name
  <2>7. test_events \in Seq(F!TransitionDesc)
    <3>1. <<>> \in Seq(F!TransitionDesc)
      OBVIOUS
    <3> QED
      BY <2>a, <3>1, Zenon
  <2> QED
    BY <2>a, <2>4, <2>5, <2>6, <2>7 DEF FilterTypes, Shows
<1> QED
  BY <1>2, <1>3, <1>4 DEF TypeInv

\* The pair that is next, and what is left then.
LEMMA PairTypes ==
  ASSUME OwnTypes, pairs # <<>>
  PROVE  from \in States /\ to \in States /\ Tail(pairs) \in Seq(States \X States)
<1>1. pairs \in Seq(States \X States)
  BY DEF OwnTypes
<1>2. Head(pairs) \in States \X States
  BY <1>1
<1> QED
  BY <1>1, <1>2, HeadTailProperties DEF from, to

LEMMA EventOf ==
  ASSUME NEW s \in States \cup {NoState}
  PROVE  F!Of("start", s) \in GoodEvent
BY DEF F!Of, GoodEvent, F!Event, F!EventTypes

LEMMA EventLine ==
  /\ F!Line("init_states") \in GoodEvent
  /\ F!Line("prepare") \in GoodEvent /\ F!Line("init_failed") \in GoodEvent
  /\ F!Line("transition") \in GoodEvent /\ F!Line("trans_failed") \in GoodEvent
  /\ F!Line("terminate") \in GoodEvent
BY DEF F!Line, GoodEvent, F!Event, F!EventTypes

\* A run of one state that explore-transitions starts.
LEMMA RunTypes ==
  ASSUME TypeInv, NEW test \in {"raw", "single"}, NEW f \in States \cup {NoState},
         NEW s \in States, Run(test, f, <<<<s>>>>)
  PROVE  DrnedInv' /\ rpc' = "prepare"
<1>1. PICK j : j = [test |-> test, queue |-> request.queue,
                    rollback |-> request.rollback, from |-> f]
  OBVIOUS
<1>2. j \in D!Job /\ j.test # "none"
  BY <1>1 DEF TypeInv, OwnTypes, Request, D!Job
<1>3. PICK walk : walk = <<<<s>>>>
  OBVIOUS
<1>4. walk \in Seq(Seq(States) \ {<<>>}) /\ walk # <<>>
  <2>1. <<s>> \in Seq(States) \ {<<>>}
    BY EmptySeq
  <2> QED
    BY <1>3, <2>1
<1>5. D!Start(j, walk)
  BY <1>1, <1>3 DEF Run
<1> QED
  BY <1>2, <1>4, <1>5, StartInv DEF TypeInv

LEMMA ExploreTypes ==
  ASSUME TypeInv,
         BeginExplore \/ SkipFailed \/ EndExplore \/ StartingWith \/ InitFailed
           \/ MakeTransition \/ EndTransition
  PROVE  TypeInv'
<1>1. CASE BeginExplore
  <2>1. PICK plan1 : plan1 = Planned
    OBVIOUS
  <2>2. plan1 \in Seq(States \X States)
    BY <2>1, PlannedTypes DEF TypeInv, OwnTypes
  <2>3. \/ result' = "failure" /\ tpc' = "terminate" /\ UNCHANGED <<pairs, say>>
        \/ /\ pairs' = plan1 /\ say' = <<F!Line("init_states")>> /\ tpc' = "next"
           /\ UNCHANGED result
    BY <1>1, <2>1 DEF BeginExplore, Finish
  <2>4. say' \in Seq(GoodEvent) /\ pairs' \in Seq(States \X States)
    <3>1. <<F!Line("init_states")>> \in Seq(GoodEvent)
      BY EventLine
    <3> QED
      BY <2>2, <2>3, <3>1 DEF TypeInv, OwnTypes
  <2>5. UNCHANGED <<filter, drned, request, prev_state, failed_state, failures,
                    stored, tried, lost>>
    BY <1>1 DEF BeginExplore
  <2>6. OwnTypes' /\ WaitInv'
    BY <2>3, <2>4, <2>5 DEF TypeInv, OwnTypes, WaitInv, TPC
  <2> QED
    BY <2>5, <2>6 DEF TypeInv, FilterTypes, DrnedInv, RunInv, LinesInv, LoadFirst, filter, drned
<1>2. CASE SkipFailed
  <2>1. /\ tpc = "next" /\ pairs' = Tail(pairs) /\ pairs # <<>>
        /\ UNCHANGED <<filter, drned, prev_state, failed_state, failures, request,
                       tpc, say, result, stored, tried, lost>>
    BY <1>2 DEF SkipFailed
  <2>2. OwnTypes' /\ WaitInv'
    BY <2>1, PairTypes DEF TypeInv, OwnTypes, WaitInv, TPC
  <2> QED
    BY <2>1, <2>2 DEF TypeInv, FilterTypes, DrnedInv, RunInv, LinesInv, LoadFirst, filter, drned
<1>3. CASE EndExplore
  <2>1. /\ result' \in {"success", "failure"} /\ tpc' = "terminate"
        /\ UNCHANGED <<filter, drned, plan, request, say, stored, tried, lost>>
    BY <1>3 DEF EndExplore, Finish
  <2>2. OwnTypes' /\ WaitInv'
    BY <2>1 DEF TypeInv, OwnTypes, WaitInv, TPC, plan
  <2> QED
    BY <2>1, <2>2 DEF TypeInv, FilterTypes, DrnedInv, RunInv, LinesInv, LoadFirst, filter, drned
<1>4. CASE StartingWith
  <2>1. /\ tpc = "next" /\ pairs # <<>> /\ tpc' = "initialize"
        /\ say' = <<F!Of("start", from), F!Line("prepare")>>
        /\ Run("raw", NoState, <<<<from>>>>)
        /\ UNCHANGED <<filter, plan, request, result, stored, tried, lost>>
    BY <1>4 DEF StartingWith
  <2>2. from \in States
    BY <2>1, PairTypes DEF TypeInv
  <2>3. say' \in Seq(GoodEvent)
    BY <2>1, <2>2, EventOf, EventLine
  <2>4. DrnedInv' /\ rpc' = "prepare"
    BY <2>1, <2>2, RunTypes
  <2>5. OwnTypes' /\ WaitInv'
    BY <2>1, <2>3, <2>4 DEF TypeInv, OwnTypes, WaitInv, TPC, plan
  <2> QED
    BY <2>1, <2>4, <2>5 DEF TypeInv, FilterTypes, filter
<1>5. CASE InitFailed
  <2>1. /\ tpc = "initialize" /\ rpc = "idle" /\ exit # "ok" /\ tpc' = "next"
        /\ say' = <<F!Line("init_failed")>> /\ failures' = TRUE /\ failed_state' = from
        /\ pairs' = Tail(pairs) /\ tried' = Append(tried, <<from, from, exit>>)
        /\ UNCHANGED <<filter, drned, prev_state, request, result, stored, lost>>
    BY <1>5 DEF InitFailed, RunOver
  <2>2. pairs # <<>> /\ exit = "failed"
    BY <2>1 DEF TypeInv, WaitInv, DrnedInv, RunInv
  <2>3. from \in States /\ Tail(pairs) \in Seq(States \X States)
    BY <2>2, PairTypes DEF TypeInv
  <2>4. PICK t : t = <<from, from, exit>>
    OBVIOUS
  <2>5. t \in States \X States \X {"ok", "failed"}
    BY <2>2, <2>3, <2>4
  <2>6. tried' \in Seq(States \X States \X {"ok", "failed"})
    BY <2>1, <2>4, <2>5, AppendProperties DEF TypeInv, OwnTypes
  <2>7. say' \in Seq(GoodEvent)
    BY <2>1, <2>3, EventOf, EventLine
  <2>8. OwnTypes' /\ WaitInv'
    BY <2>1, <2>3, <2>6, <2>7 DEF TypeInv, OwnTypes, WaitInv, TPC
  <2> QED
    BY <2>1, <2>8 DEF TypeInv, FilterTypes, DrnedInv, RunInv, LinesInv, LoadFirst, filter, drned
<1>6. CASE MakeTransition
  <2>1. /\ tpc \in {"initialize", "next"} /\ tpc' = "transition"
        /\ tpc = "next" => pairs # <<>>
        /\ \/ exit = "ok" /\ tried' = Append(tried, <<from, from, exit>>)
           \/ UNCHANGED tried
        /\ prev_state' = from
        /\ say' = <<F!Line("transition"), F!Line("prepare")>>
        /\ Run("single", from, <<<<to>>>>)
        /\ UNCHANGED <<filter, pairs, failed_state, failures, request, result, stored, lost>>
    BY <1>6 DEF MakeTransition
  <2>2. pairs # <<>>
    BY <2>1 DEF TypeInv, WaitInv
  <2>3. from \in States /\ to \in States
    BY <2>2, PairTypes DEF TypeInv
  <2>4. tried' \in Seq(States \X States \X {"ok", "failed"})
    <3>1. CASE exit = "ok" /\ tried' = Append(tried, <<from, from, exit>>)
      <4>1. PICK t : t = <<from, from, exit>>
        OBVIOUS
      <4>2. t \in States \X States \X {"ok", "failed"}
        BY <2>3, <3>1, <4>1
      <4> QED
        BY <3>1, <4>1, <4>2, AppendProperties DEF TypeInv, OwnTypes
    <3>2. CASE UNCHANGED tried
      BY <3>2 DEF TypeInv, OwnTypes
    <3> QED
      BY <2>1, <3>1, <3>2
  <2>5. say' \in Seq(GoodEvent)
    BY <2>1, <2>3, EventOf, EventLine
  <2>6. DrnedInv' /\ rpc' = "prepare"
    BY <2>1, <2>3, RunTypes
  <2>7. OwnTypes' /\ WaitInv'
    BY <2>1, <2>2, <2>3, <2>4, <2>5, <2>6 DEF TypeInv, OwnTypes, WaitInv, TPC
  <2> QED
    BY <2>1, <2>6, <2>7 DEF TypeInv, FilterTypes, filter
<1>7. CASE EndTransition
  <2>1. /\ tpc = "transition" /\ rpc = "idle" /\ tpc' = "next"
        /\ \/ UNCHANGED <<failures, say>>
           \/ failures' = TRUE /\ say' = <<F!Line("trans_failed")>>
        /\ pairs' = Tail(pairs) /\ tried' = Append(tried, <<from, to, exit>>)
        /\ UNCHANGED <<filter, drned, prev_state, failed_state, request, result, stored, lost>>
    BY <1>7 DEF EndTransition, RunOver
  <2>2. pairs # <<>> /\ exit \in {"ok", "failed"}
    BY <2>1 DEF TypeInv, WaitInv, DrnedInv, RunInv
  <2>3. from \in States /\ to \in States /\ Tail(pairs) \in Seq(States \X States)
    BY <2>2, PairTypes DEF TypeInv
  <2>4. PICK t : t = <<from, to, exit>>
    OBVIOUS
  <2>5. t \in States \X States \X {"ok", "failed"}
    BY <2>2, <2>3, <2>4
  <2>6. tried' \in Seq(States \X States \X {"ok", "failed"})
    BY <2>1, <2>4, <2>5, AppendProperties DEF TypeInv, OwnTypes
  <2>7. say' \in Seq(GoodEvent) /\ failures' \in BOOLEAN
    <3>1. <<F!Line("trans_failed")>> \in Seq(GoodEvent)
      BY EventLine
    <3> QED
      BY <2>1, <3>1 DEF TypeInv, OwnTypes
  <2>8. OwnTypes' /\ WaitInv'
    BY <2>1, <2>3, <2>6, <2>7 DEF TypeInv, OwnTypes, WaitInv, TPC
  <2> QED
    BY <2>1, <2>8 DEF TypeInv, FilterTypes, DrnedInv, RunInv, LinesInv, LoadFirst, filter, drned
<1> QED
  BY <1>1, <1>2, <1>3, <1>4, <1>5, <1>6, <1>7

LEMMA LineTypes ==
  ASSUME TypeInv, SendOwn \/ SendLine \/ FilterStep \/ LoseLines \/ DrnedStep
  PROVE  TypeInv'
<1>1. CASE SendOwn
  <2>1. /\ say # <<>> /\ F!Send(Head(say)) /\ say' = Tail(say)
        /\ UNCHANGED <<drned, plan, request, tpc, result, stored, tried, lost>>
    BY <1>1 DEF SendOwn
  <2>2. say \in Seq(GoodEvent)
    BY DEF TypeInv, OwnTypes
  <2>3. Head(say) \in GoodEvent /\ Tail(say) \in Seq(GoodEvent)
    BY <2>1, <2>2, HeadTailProperties
  <2>4. FilterTypes'
    BY <2>1, <2>3, SendTypes DEF TypeInv
  <2> QED
    BY <2>1, <2>3, <2>4
       DEF TypeInv, OwnTypes, WaitInv, plan, DrnedInv, RunInv, LinesInv, LoadFirst, drned
<1>2. CASE SendLine
  <2>1. /\ out # <<>> /\ F!Send(Head(out)) /\ out' = Tail(out)
        /\ UNCHANGED <<job, rpc, sets, ops, failed_states, raised, exit, tested,
                       plan, request, tpc, say, result, stored, tried, lost>>
    BY <1>2 DEF SendLine
  <2>2. out \in Seq(GoodEvent)
    BY DEF TypeInv, DrnedInv, LinesInv
  <2>3. Head(out) \in GoodEvent /\ Tail(out) \in Seq(GoodEvent)
    BY <2>1, <2>2, HeadTailProperties
  <2>4. FilterTypes'
    BY <2>1, <2>3, SendTypes DEF TypeInv
  <2> QED
    BY <2>1, <2>3, <2>4
       DEF TypeInv, OwnTypes, WaitInv, plan, DrnedInv, RunInv, LinesInv, LoadFirst
<1>3. CASE FilterStep
  <2>1. F!Filter /\ UNCHANGED <<drned, plan, request, tpc, say, result, stored, tried, lost>>
    BY <1>3 DEF FilterStep
  <2>2. FilterTypes'
    BY <2>1, FilterStepTypes DEF TypeInv
  <2> QED
    BY <2>1, <2>2
       DEF TypeInv, OwnTypes, WaitInv, plan, DrnedInv, RunInv, LinesInv, LoadFirst, drned
<1>4. CASE LoseLines
  <2>1. /\ out' = <<>> /\ lost' = TRUE
        /\ UNCHANGED <<filter, job, rpc, sets, ops, failed_states, raised, exit,
                       tested, plan, request, tpc, say, result, stored, tried>>
    BY <1>4 DEF LoseLines
  <2>2. out' \in Seq(GoodEvent)
    BY <2>1
  <2> QED
    BY <2>1, <2>2
       DEF TypeInv, FilterTypes, filter, OwnTypes, WaitInv, plan, DrnedInv, RunInv, LinesInv,
           LoadFirst
<1>5. CASE DrnedStep
  <2>1. D!Step /\ UNCHANGED <<filter, plan, request, tpc, say, result, stored, tried, lost>>
    BY <1>5 DEF DrnedStep
  <2>2. DrnedInv'
    BY <2>1, DrnedStepInv DEF TypeInv
  <2>3. rpc' = "idle" => exit' # "none"
    BY <2>1, EndsWithStatus DEF TypeInv, DrnedInv
  <2>4. OwnTypes' /\ WaitInv'
    BY <2>1, <2>3 DEF TypeInv, OwnTypes, WaitInv, plan
  <2> QED
    BY <2>1, <2>2, <2>4 DEF TypeInv, FilterTypes, filter
<1> QED
  BY <1>1, <1>2, <1>3, <1>4, <1>5

\* A run that could not be started has been told of.
LEMMA NotStartedSays ==
  ASSUME OwnTypes, NotStarted
  PROVE  \/ say' = <<>>
         \/ say' = <<F!Line("transition")>>
         \/ from \in States /\ say' = <<F!Of("start", from)>>
BY PairTypes DEF NotStarted

LEMMA EndTypes ==
  ASSUME TypeInv,
         NotStarted \/ BeginRun \/ EndRun \/ Terminate \/ Close \/ Store
  PROVE  TypeInv'
<1>1. CASE NotStarted \/ EndRun
  <2>1. /\ result' \in {"success", "failure", "error"} /\ tpc' = "terminate"
        /\ UNCHANGED <<filter, drned, plan, request, stored, tried, lost>>
    BY <1>1 DEF NotStarted, EndRun, Finish
  <2>2. say' \in Seq(GoodEvent)
    <3>1. CASE NotStarted
      <4>1. \/ say' = <<>>
            \/ say' = <<F!Line("transition")>>
            \/ from \in States /\ say' = <<F!Of("start", from)>>
        BY <3>1, NotStartedSays DEF TypeInv
      <4>2. PICK ev : ev = F!Line("transition")
        OBVIOUS
      <4>3. PICK f : f = F!Of("start", from)
        OBVIOUS
      <4>4. ev \in GoodEvent
        BY <4>2, EventLine
      <4>5. from \in States => f \in GoodEvent
        BY <4>3, EventOf
      <4>6. <<>> \in Seq(GoodEvent) /\ <<ev>> \in Seq(GoodEvent)
        BY <4>4
      <4>7. from \in States => <<f>> \in Seq(GoodEvent)
        BY <4>5
      <4> QED
        BY <4>1, <4>2, <4>3, <4>6, <4>7, Zenon
    <3>2. CASE EndRun
      BY <3>2 DEF EndRun, TypeInv, OwnTypes
    <3> QED
      BY <1>1, <3>1, <3>2
  <2>3. OwnTypes' /\ WaitInv'
    BY <2>1, <2>2 DEF TypeInv, OwnTypes, WaitInv, TPC, plan
  <2> QED
    BY <2>1, <2>3 DEF TypeInv, FilterTypes, DrnedInv, RunInv, LinesInv, LoadFirst, filter, drned
<1>2. CASE BeginRun
  <2>1. /\ request.action # "explore" /\ tpc' = "running"
        /\ IF request.action = "walk" THEN Run("set", NoState, request.sets)
           ELSE Run(IF request.rollback THEN "single" ELSE "raw", NoState, request.sets)
        /\ UNCHANGED <<filter, plan, request, say, result, stored, tried, lost>>
    BY <1>2 DEF BeginRun
  <2>2. PICK test : test = IF request.action = "walk" THEN "set"
                           ELSE IF request.rollback THEN "single" ELSE "raw"
    OBVIOUS
  <2>3. Run(test, NoState, request.sets)
    BY <2>1, <2>2
  <2>4. PICK j : j = [test |-> test, queue |-> request.queue,
                      rollback |-> request.rollback, from |-> NoState]
    OBVIOUS
  <2>5. request \in Request
    BY DEF TypeInv, OwnTypes
  <2>6. j \in D!Job /\ j.test = test /\ test # "none"
    BY <2>2, <2>4, <2>5 DEF Request, D!Job
  <2>7. request.sets \in Seq(Seq(States) \ {<<>>})
    <3>1. /\ request.sets \in Seq(Seq(States))
          /\ \A i \in DOMAIN request.sets : request.sets[i] # <<>>
      BY <2>5 DEF Request
    <3>2. PICK q : q = request.sets
      OBVIOUS
    <3>3. q \in Seq(Seq(States)) /\ DOMAIN q = 1..Len(q) /\ Len(q) \in Nat
      BY <3>1, <3>2
    <3>4. ASSUME NEW i \in 1..Len(q)
          PROVE  q[i] \in Seq(States) \ {<<>>}
      <4>1. q[i] \in Seq(States)
        BY <3>3, ElementOfSeq
      <4>2. q[i] # <<>>
        BY <3>1, <3>2, <3>3
      <4> QED
        BY <4>1, <4>2
    <3>5. q \in Seq(Seq(States) \ {<<>>})
      BY <3>3, <3>4
    <3> QED
      BY <3>2, <3>5
  <2>8. request.sets # <<>> \/ j.test = "set"
    BY <2>1, <2>2, <2>5, <2>6 DEF Request
  <2>9. D!Start(j, request.sets)
    BY <2>3, <2>4 DEF Run
  <2>10. DrnedInv' /\ rpc' = "prepare"
    BY <2>6, <2>7, <2>8, <2>9, StartInv DEF TypeInv
  <2>11. OwnTypes' /\ WaitInv'
    BY <2>1, <2>10 DEF TypeInv, OwnTypes, WaitInv, TPC, plan
  <2> QED
    BY <2>1, <2>10, <2>11 DEF TypeInv, FilterTypes, filter
<1>3. CASE Terminate
  <2>1. /\ F!Send(F!Line("terminate")) /\ tpc' = "close"
        /\ UNCHANGED <<drned, plan, request, say, result, stored, tried, lost>>
    BY <1>3 DEF Terminate
  <2>2. FilterTypes'
    BY <2>1, EventLine, SendTypes DEF TypeInv
  <2>3. OwnTypes' /\ WaitInv'
    BY <2>1 DEF TypeInv, OwnTypes, WaitInv, TPC, plan
  <2> QED
    BY <2>1, <2>2, <2>3 DEF TypeInv, DrnedInv, RunInv, LinesInv, LoadFirst, drned
<1>4. CASE Close
  <2>1. /\ F!CloseContext /\ tpc' \in {"done", "store"}
        /\ UNCHANGED <<drned, plan, request, say, result, stored, tried, lost>>
    BY <1>4 DEF Close
  <2>2. "none" \in F!Failure
    BY DEF F!Failure
  <2>3. /\ context' = F!Complete(context, test_events, "none").c
        /\ test_events' = F!Complete(context, test_events, "none").e
        /\ UNCHANGED <<event, stack, shown>>
    BY <2>1 DEF F!CloseContext
  <2>4. FilterTypes'
    BY <2>2, <2>3, CompleteTypes DEF TypeInv, FilterTypes
  <2>5. OwnTypes' /\ WaitInv'
    BY <2>1 DEF TypeInv, OwnTypes, WaitInv, TPC, plan
  <2> QED
    BY <2>1, <2>4, <2>5 DEF TypeInv, DrnedInv, RunInv, LinesInv, LoadFirst, drned
<1>5. CASE Store
  <2>1. /\ stored' = Stored(test_events) /\ tpc' = "done"
        /\ UNCHANGED <<filter, drned, plan, request, say, result, tried, lost>>
    BY <1>5 DEF Store
  <2>2. stored'.stored \in BOOLEAN /\ stored'.events \in Seq(F!TransitionDesc)
    BY <2>1 DEF Stored, TypeInv, FilterTypes
  <2>3. OwnTypes' /\ WaitInv'
    BY <2>1, <2>2 DEF TypeInv, OwnTypes, WaitInv, TPC, plan
  <2> QED
    BY <2>1, <2>3 DEF TypeInv, FilterTypes, DrnedInv, RunInv, LinesInv, LoadFirst, filter, drned
<1> QED
  BY <1>1, <1>2, <1>3, <1>4, <1>5

LEMMA NextTypes ==
  TypeInv /\ [Next]_vars => TypeInv'
<1> SUFFICES ASSUME TypeInv, [Next]_vars PROVE TypeInv'
  OBVIOUS
<1>1. CASE Next
  BY <1>1, LineTypes, ExploreTypes, EndTypes DEF Next
<1>2. CASE UNCHANGED vars
  BY <1>2 DEF vars, filter, drned, plan, TypeInv, FilterTypes, DrnedInv, RunInv, LinesInv,
     LoadFirst, OwnTypes, WaitInv
<1> QED
  BY <1>1, <1>2

LEMMA TypesInvariant == Spec => []TypeInv
BY InitTypes, NextTypes, PTL DEF Spec

\* Whatever the device does and whatever lines get lost: the filter always
\* knows how to go on with a line, the operations on a state set never run out
\* of what they are about, and a run that is waited for has a status.
THEOREM TypesAreRight == Spec => []TypeOK
BY TypesInvariant, TypeInvImpliesTypeOK, PTL

----------------------------------------------------------------------------
(* explore-transitions comes through                                       *)

Ending == tpc \in {"terminate", "close", "store", "done"}

\* It has begun, with something to do, and nothing has been raised.
Exploring ==
  /\ request.action = "explore" /\ Len(request.states) > 1
  /\ tpc # "begin"
  /\ Ending => result # "error"

\* How many of the planned transitions are done with.
Gone == Len(Planned) - Len(pairs)

PairsInv ==
  /\ Len(pairs) <= Len(Planned)
  /\ \A i \in DOMAIN pairs : pairs[i] = Planned[Gone + i]

\* q is what was tried, p what is planned, and n of it are done with.
WasTried(q, f, t) == \E k \in DOMAIN q : q[k][1] = f /\ q[k][2] = t
NotInitialized(q, f) == \E k \in DOMAIN q : q[k] = <<f, f, "failed">>

\* There was a run that ended like this.
RanWith(q, f, t, x) ==
  \E k \in DOMAIN q : q[k][1] = f /\ q[k][2] = t /\ q[k][3] = x

\* Nothing is run twice.
Once(q) ==
  \A i, j \in DOMAIN q : q[i][1] = q[j][1] /\ q[i][2] = q[j][2] => i = j

\* What is run is a transition that is done with, or the start of one, or of
\* the one from g that is being made.
Sound(q, p, n, g) ==
  \A k \in DOMAIN q :
    IF q[k][1] = q[k][2]
    THEN q[k][1] = g \/ \E i \in 1..n : p[i][1] = q[k][1]
    ELSE \E i \in 1..n : p[i][1] = q[k][1] /\ p[i][2] = q[k][2]

\* What is done with was run, unless its start could not be initialized.
Progress(q, p, n) ==
  \A i \in 1..n :
    /\ WasTried(q, p[i][1], p[i][1])
    /\ WasTried(q, p[i][1], p[i][2]) <=> ~NotInitialized(q, p[i][1])

Current == IF tpc = "transition" THEN from ELSE NoState

\* What prev_state and failed_state remember of the last run.
StateInv ==
  /\ failed_state # NoState => NotInitialized(tried, failed_state)
  /\ prev_state # NoState =>
       RanWith(tried, prev_state, prev_state, "ok")
  /\ tpc = "next" /\ Gone > 0 => Planned[Gone][1] \in {prev_state, failed_state}
  /\ tpc = "initialize" => ~WasTried(tried, from, from)
  /\ tpc = "transition" => prev_state = from

SomeFailed(q) == \E k \in DOMAIN q : q[k][3] = "failed"

OverInv ==
  Ending => /\ pairs = <<>> \/ request.timed
            /\ result = "success" <=> ~failures

BeforeInv ==
  /\ tpc = "begin" => /\ tried = <<>> /\ ~failures
                      /\ prev_state = NoState /\ failed_state = NoState
  /\ tpc = "running" => request.action # "explore"

TriedInv ==
  /\ PairsInv
  /\ Once(tried)
  /\ Sound(tried, Planned, Gone, Current)
  /\ Progress(tried, Planned, Gone)
  /\ StateInv
  /\ failures <=> SomeFailed(tried)

ExploreInv == BeforeInv /\ (Exploring => TriedInv /\ OverInv)

Tries == States \X States \X {"ok", "failed"}

\* r is q and one run more.
Longer(q, r, f, t, x) == r = Append(q, <<f, t, x>>)

LEMMA OneMore ==
  ASSUME NEW q \in Seq(Tries),
         NEW f \in States, NEW t \in States, NEW x \in {"ok", "failed"},
         NEW r, Longer(q, r, f, t, x)
  PROVE  /\ r \in Seq(Tries)
         /\ \A a, b : WasTried(r, a, b) <=> WasTried(q, a, b) \/ (a = f /\ b = t)
         /\ \A a : NotInitialized(r, a) <=>
                     NotInitialized(q, a) \/ (a = f /\ a = t /\ x = "failed")
         /\ Once(q) /\ ~WasTried(q, f, t) => Once(r)
         /\ SomeFailed(r) <=> SomeFailed(q) \/ x = "failed"
         /\ \A k \in DOMAIN r : r[k] = <<f, t, x>> \/ \E j \in DOMAIN q : r[k] = q[j]
<1>1. PICK e0 : e0 = <<f, t, x>>
  OBVIOUS
<1>2. /\ e0 \in Tries
      /\ e0[1] = f /\ e0[2] = t /\ e0[3] = x
  BY <1>1 DEF Tries
<1>3. PICK n : n = Len(q)
  OBVIOUS
<1>4. /\ n \in Nat /\ DOMAIN q = 1..n
      /\ r \in Seq(Tries) /\ Len(r) = n + 1
      /\ \A k \in 1..n : r[k] = q[k]
      /\ r[n + 1] = e0
  BY <1>1, <1>2, <1>3, AppendProperties DEF Longer
<1>5. DOMAIN r = 1..(n + 1)
  BY <1>4
<1>6. ASSUME NEW k
      PROVE  k \in DOMAIN r <=> k \in DOMAIN q \/ k = n + 1
  BY <1>4, <1>5
<1>7. \A k \in DOMAIN q : r[k] = q[k]
  BY <1>4
<1>8. ASSUME NEW a, NEW b
      PROVE  WasTried(r, a, b) <=> WasTried(q, a, b) \/ (a = f /\ b = t)
  BY <1>2, <1>4, <1>6, <1>7, Zenon DEF WasTried
<1>9. ASSUME NEW e
      PROVE  (\E k \in DOMAIN r : r[k] = e) <=> (e = e0 \/ \E k \in DOMAIN q : q[k] = e)
  BY <1>4, <1>6, <1>7, Zenon
<1>10. ASSUME NEW a
       PROVE  NotInitialized(r, a) <=>
                NotInitialized(q, a) \/ (a = f /\ a = t /\ x = "failed")
  <2>1. NotInitialized(r, a) <=> NotInitialized(q, a) \/ <<a, a, "failed">> = e0
    BY <1>9, Zenon DEF NotInitialized
  <2>2. <<a, a, "failed">> = e0 <=> (a = f /\ a = t /\ x = "failed")
    BY <1>1
  <2> QED
    BY <2>1, <2>2, Zenon
<1>11. ASSUME Once(q), ~WasTried(q, f, t)
       PROVE  Once(r)
  <2> SUFFICES ASSUME NEW i \in DOMAIN r, NEW j \in DOMAIN r,
                      r[i][1] = r[j][1], r[i][2] = r[j][2]
               PROVE  i = j
    BY Zenon DEF Once
  <2>1. \A k \in DOMAIN q : ~(q[k][1] = f /\ q[k][2] = t)
    BY <1>11, Zenon DEF WasTried
  <2>2. \A k \in DOMAIN q : ~(r[k][1] = f /\ r[k][2] = t)
    BY <2>1, <1>7
  <2>3. r[n + 1][1] = f /\ r[n + 1][2] = t
    BY <1>2, <1>4
  <2>4. CASE i \in DOMAIN q /\ j \in DOMAIN q
    BY <1>7, <1>11, <2>4, Zenon DEF Once
  <2>5. CASE i \notin DOMAIN q \/ j \notin DOMAIN q
    BY <1>6, <2>2, <2>3, <2>5, Zenon
  <2> QED
    BY <2>4, <2>5
<1>12. SomeFailed(r) <=> SomeFailed(q) \/ x = "failed"
  BY <1>2, <1>4, <1>6, <1>7, Zenon DEF SomeFailed
<1>13. ASSUME NEW k \in DOMAIN r
       PROVE  r[k] = <<f, t, x>> \/ \E j \in DOMAIN q : r[k] = q[j]
  BY <1>1, <1>4, <1>6, <1>7, Zenon
<1> QED
  BY <1>1, <1>4, <1>8, <1>10, <1>11, <1>12, <1>13, Zenon

\* A run that there was is still there.
LEMMA OneMoreRan ==
  ASSUME NEW q \in Seq(Tries),
         NEW f \in States, NEW t \in States, NEW x \in {"ok", "failed"},
         NEW r, Longer(q, r, f, t, x)
  PROVE  /\ RanWith(r, f, t, x)
         /\ \A a, b, c : RanWith(q, a, b, c) => RanWith(r, a, b, c)
<1>1. PICK e0 : e0 = <<f, t, x>>
  OBVIOUS
<1>2. e0 \in Tries /\ e0[1] = f /\ e0[2] = t /\ e0[3] = x
  BY <1>1 DEF Tries
<1>3. /\ Len(q) \in Nat /\ DOMAIN q = 1..Len(q)
      /\ DOMAIN r = 1..(Len(q) + 1)
      /\ \A k \in 1..Len(q) : r[k] = q[k]
      /\ r[Len(q) + 1] = e0
  BY <1>1, <1>2, AppendProperties DEF Longer
<1>4. Len(q) + 1 \in DOMAIN r /\ \A k \in DOMAIN q : k \in DOMAIN r /\ r[k] = q[k]
  BY <1>3
<1> QED
  BY <1>2, <1>3, <1>4, Zenon DEF RanWith

\* The next transition goes from f to t; n transitions of p are done with.
Upcoming(p, n, f, t) ==
  /\ p \in Seq(States \X States) /\ Listing(p)
  /\ n \in Nat /\ n + 1 \in DOMAIN p
  /\ p[n + 1][1] = f /\ p[n + 1][2] = t

LEMMA UpcomingFacts ==
  ASSUME NEW p, NEW n, NEW f, NEW t, Upcoming(p, n, f, t)
  PROVE  /\ f \in States /\ t \in States /\ f # t
         /\ n \in Nat /\ 1..(n + 1) \subseteq DOMAIN p
         /\ \A i : i \in 1..(n + 1) <=> i \in 1..n \/ i = n + 1
         /\ \A i \in 1..n : ~(p[i][1] = f /\ p[i][2] = t)
<1>1. p \in Seq(States \X States) /\ n \in Nat /\ n + 1 \in DOMAIN p
  BY DEF Upcoming
<1>2. \A i \in DOMAIN p : p[i] \in States \X States
  BY <1>1
<1>3. DOMAIN p = 1..Len(p) /\ Len(p) \in Nat
  BY <1>1
<1>4. 1..(n + 1) \subseteq DOMAIN p
  BY <1>1, <1>3
<1>5. f \in States /\ t \in States
  BY <1>1, <1>2 DEF Upcoming
<1>6. f # t
  BY DEF Upcoming, Listing
<1>7. ASSUME NEW i \in 1..n, p[i][1] = f, p[i][2] = t
      PROVE  FALSE
  <2>1. i \in DOMAIN p /\ n + 1 \in DOMAIN p /\ i # n + 1
    BY <1>1, <1>4
  <2>2. p[i] = p[n + 1]
    BY <1>2, <1>7, <2>1 DEF Upcoming
  <2> QED
    BY <2>1, <2>2, Zenon DEF Upcoming, Listing
<1>8. \A i : i \in 1..(n + 1) <=> i \in 1..n \/ i = n + 1
  BY <1>1
<1> QED
  BY <1>1, <1>4, <1>5, <1>6, <1>7, <1>8

\* What is next has not been made.
LEMMA NotMadeYet ==
  ASSUME NEW p, NEW n, NEW f, NEW t, Upcoming(p, n, f, t),
         NEW q, NEW g, Sound(q, p, n, g)
  PROVE  ~WasTried(q, f, t)
<1> SUFFICES ASSUME NEW k \in DOMAIN q, q[k][1] = f, q[k][2] = t
             PROVE  FALSE
  BY DEF WasTried
<1>1. PICK i \in 1..n : p[i][1] = f /\ p[i][2] = t
  BY UpcomingFacts DEF Sound
<1> QED
  BY <1>1, UpcomingFacts

\* A state that the last one does not start from was not initialized before.
LEMMA NotInitializedYet ==
  ASSUME NEW p, NEW n, NEW f, NEW t, Upcoming(p, n, f, t),
         NEW q, Sound(q, p, n, NoState), n > 0 => p[n][1] # f
  PROVE  ~WasTried(q, f, f)
<1> SUFFICES ASSUME NEW k \in DOMAIN q, q[k][1] = f, q[k][2] = f
             PROVE  FALSE
  BY DEF WasTried
<1>1. f # NoState
  BY UpcomingFacts, TransitionsAssumption
<1>2. PICK i \in 1..n : p[i][1] = f
  BY <1>1 DEF Sound
<1>3. i \in DOMAIN p /\ n \in DOMAIN p /\ n + 1 \in DOMAIN p /\ i <= n /\ n <= n + 1
  <2>1. n \in Nat /\ 1..(n + 1) \subseteq DOMAIN p
    BY UpcomingFacts
  <2>2. i \in 1..(n + 1) /\ n \in 1..(n + 1) /\ n + 1 \in 1..(n + 1)
    BY <2>1
  <2> QED
    BY <2>1, <2>2
<1>4. p[n][1] = p[i][1]
  BY <1>2, <1>3, Zenon DEF Upcoming, Listing
<1>5. n > 0
  BY UpcomingFacts
<1> QED
  BY <1>2, <1>4, <1>5

LEMMA SoundAny ==
  ASSUME NEW q \in Seq(Tries), NEW p, NEW n, NEW g, Sound(q, p, n, NoState)
  PROVE  Sound(q, p, n, g)
<1>1. ASSUME NEW k \in DOMAIN q
      PROVE  q[k][1] # NoState
  <2>1. q[k] \in Tries
    OBVIOUS
  <2> QED
    BY <2>1, TransitionsAssumption DEF Tries
<1> QED
  BY <1>1 DEF Sound

\* One more is done with.
LEMMA SoundOn ==
  ASSUME NEW p, NEW n, NEW f, NEW t, Upcoming(p, n, f, t),
         NEW q, Sound(q, p, n, f)
  PROVE  Sound(q, p, n + 1, NoState)
<1>1. p[n + 1][1] = f
  BY DEF Upcoming
<1>2. \A i \in 1..n : i \in 1..(n + 1)
  BY UpcomingFacts
<1>3. n + 1 \in 1..(n + 1)
  BY UpcomingFacts
<1> QED
  BY <1>1, <1>2, <1>3 DEF Sound

\* Nothing was made, since the start could not be initialized.
LEMMA SkipProgress ==
  ASSUME NEW p, NEW n, NEW f, NEW t, Upcoming(p, n, f, t),
         NEW q, Progress(q, p, n), NotInitialized(q, f), ~WasTried(q, f, t)
  PROVE  Progress(q, p, n + 1)
<1>1. WasTried(q, f, f)
  <2>1. PICK k \in DOMAIN q : q[k] = <<f, f, "failed">>
    BY DEF NotInitialized
  <2>2. q[k][1] = f /\ q[k][2] = f
    BY <2>1
  <2> QED
    BY <2>2 DEF WasTried
<1>2. p[n + 1][1] = f /\ p[n + 1][2] = t
  BY DEF Upcoming
<1>3. \A i \in 1..(n + 1) : i \in 1..n \/ i = n + 1
  BY UpcomingFacts
<1> QED
  BY <1>1, <1>2, <1>3, Zenon DEF Progress

\* A state has been tried to be initialized.
LEMMA InitializeOne ==
  ASSUME NEW p, NEW n, NEW f, NEW t, Upcoming(p, n, f, t),
         NEW q \in Seq(Tries), Progress(q, p, n), Sound(q, p, n, NoState),
         ~WasTried(q, f, f),
         NEW x \in {"ok", "failed"}, NEW r, Longer(q, r, f, f, x)
  PROVE  Progress(r, p, n) /\ Sound(r, p, n, f)
<1>1. f \in States
  BY UpcomingFacts
<1>2. /\ \A a, b : WasTried(r, a, b) <=> WasTried(q, a, b) \/ (a = f /\ b = f)
      /\ \A a : NotInitialized(r, a) <=>
                  NotInitialized(q, a) \/ (a = f /\ a = f /\ x = "failed")
  BY <1>1, OneMore
<1>3. ASSUME NEW i \in 1..n
      PROVE  p[i][1] # f
  BY DEF Progress
<1>4. Progress(r, p, n)
  BY <1>2, <1>3, Zenon DEF Progress
<1>5. ASSUME NEW k \in DOMAIN r
      PROVE  \/ \E j \in DOMAIN q : r[k] = q[j]
             \/ r[k] = <<f, f, x>>
  BY <1>1, OneMore
<1>6. Sound(r, p, n, f)
  <2> SUFFICES ASSUME NEW k \in DOMAIN r
               PROVE  IF r[k][1] = r[k][2]
                      THEN r[k][1] = f \/ \E i \in 1..n : p[i][1] = r[k][1]
                      ELSE \E i \in 1..n : p[i][1] = r[k][1] /\ p[i][2] = r[k][2]
    BY DEF Sound
  <2>1. CASE r[k] = <<f, f, x>>
    BY <2>1
  <2>2. ASSUME NEW j \in DOMAIN q, r[k] = q[j]
        PROVE  IF r[k][1] = r[k][2]
               THEN r[k][1] = f \/ \E i \in 1..n : p[i][1] = r[k][1]
               ELSE \E i \in 1..n : p[i][1] = r[k][1] /\ p[i][2] = r[k][2]
    <3>1. Sound(q, p, n, f)
      BY SoundAny
    <3> QED
      BY <2>2, <3>1 DEF Sound
  <2> QED
    BY <1>5, <2>1, <2>2
<1> QED
  BY <1>4, <1>6

\* A transition has been made, from a state that had been initialized.
LEMMA MakeOne ==
  ASSUME NEW p, NEW n, NEW f, NEW t, Upcoming(p, n, f, t),
         NEW q \in Seq(Tries), Progress(q, p, n), Sound(q, p, n, f),
         WasTried(q, f, f), ~NotInitialized(q, f),
         NEW x \in {"ok", "failed"}, NEW r, Longer(q, r, f, t, x)
  PROVE  Progress(r, p, n + 1) /\ Sound(r, p, n + 1, NoState)
<1>1. f \in States /\ t \in States /\ f # t
  BY UpcomingFacts
<1>2. /\ \A a, b : WasTried(r, a, b) <=> WasTried(q, a, b) \/ (a = f /\ b = t)
      /\ \A a : NotInitialized(r, a) <=>
                  NotInitialized(q, a) \/ (a = f /\ a = t /\ x = "failed")
  BY <1>1, OneMore
<1>3. p[n + 1][1] = f /\ p[n + 1][2] = t
  BY DEF Upcoming
<1>4. \A i \in 1..(n + 1) : i \in 1..n \/ i = n + 1
  BY UpcomingFacts
<1>5. \A i \in 1..n : ~(p[i][1] = f /\ p[i][2] = t)
  BY UpcomingFacts
<1>6. ASSUME NEW i \in 1..(n + 1)
      PROVE  /\ WasTried(r, p[i][1], p[i][1])
             /\ WasTried(r, p[i][1], p[i][2]) <=> ~NotInitialized(r, p[i][1])
  <2>1. CASE i = n + 1
    BY <1>1, <1>2, <1>3, <2>1, Zenon
  <2>2. CASE i \in 1..n
    BY <1>1, <1>2, <1>5, <2>2, Zenon DEF Progress
  <2> QED
    BY <1>4, <2>1, <2>2
<1>7. Progress(r, p, n + 1)
  BY <1>6 DEF Progress
<1>8. Sound(q, p, n + 1, NoState)
  BY SoundOn
<1>9. ASSUME NEW k \in DOMAIN r
      PROVE  \/ \E j \in DOMAIN q : r[k] = q[j]
             \/ r[k] = <<f, t, x>>
  BY <1>1, OneMore
<1>10. Sound(r, p, n + 1, NoState)
  <2> SUFFICES ASSUME NEW k \in DOMAIN r
               PROVE  IF r[k][1] = r[k][2]
                      THEN r[k][1] = NoState \/ \E i \in 1..(n + 1) : p[i][1] = r[k][1]
                      ELSE \E i \in 1..(n + 1) : p[i][1] = r[k][1] /\ p[i][2] = r[k][2]
    BY DEF Sound
  <2>1. CASE r[k] = <<f, t, x>>
    <3>1. n + 1 \in 1..(n + 1)
      BY UpcomingFacts
    <3>2. r[k][1] = f /\ r[k][2] = t
      BY <2>1
    <3> QED
      BY <1>1, <1>3, <3>1, <3>2
  <2>2. ASSUME NEW j \in DOMAIN q, r[k] = q[j]
        PROVE  IF r[k][1] = r[k][2]
               THEN r[k][1] = NoState \/ \E i \in 1..(n + 1) : p[i][1] = r[k][1]
               ELSE \E i \in 1..(n + 1) : p[i][1] = r[k][1] /\ p[i][2] = r[k][2]
    BY <1>8, <2>2 DEF Sound
  <2> QED
    BY <1>9, <2>1, <2>2
<1> QED
  BY <1>7, <1>10

\* The first of the pairs is what is next.
LEMMA NextPair ==
  ASSUME TypeInv, Exploring, PairsInv, pairs # <<>>
  PROVE  Upcoming(Planned, Gone, from, to)
<1>1. Planned \in Seq(States \X States) /\ Listing(Planned)
  BY PlannedTypes DEF TypeInv, OwnTypes, Exploring
<1>2. pairs \in Seq(States \X States)
  BY DEF TypeInv, OwnTypes
<1>3. Len(Planned) \in Nat /\ Len(pairs) \in Nat /\ Len(pairs) > 0
  BY <1>1, <1>2, EmptySeq
<1>4. Gone \in Nat /\ Gone + 1 \in 1..Len(Planned) /\ 1 \in 1..Len(pairs)
  BY <1>3 DEF Gone, PairsInv
<1>5. Head(pairs) = Planned[Gone + 1]
  <2>1. Head(pairs) = pairs[1] /\ 1 \in DOMAIN pairs
    BY <1>2, <1>4
  <2> QED
    BY <2>1 DEF PairsInv
<1>6. Gone + 1 \in DOMAIN Planned
  BY <1>1, <1>4
<1> QED
  BY <1>1, <1>4, <1>5, <1>6 DEF Upcoming, from, to

\* It is done with.
LEMMA PairDone ==
  ASSUME TypeInv, Exploring, PairsInv, pairs # <<>>,
         pairs' = Tail(pairs), request' = request
  PROVE  /\ Planned' = Planned /\ Gone' = Gone + 1 /\ PairsInv'
         /\ Planned[Gone + 1][1] = from
<1>1. Planned \in Seq(States \X States)
  BY PlannedTypes DEF TypeInv, OwnTypes, Exploring
<1>2. pairs \in Seq(States \X States)
  BY DEF TypeInv, OwnTypes
<1>3. Planned' = Planned
  BY DEF Planned, Permutations2
<1>4. /\ Len(Planned) \in Nat /\ Len(pairs) \in Nat /\ Len(pairs) > 0
      /\ Len(pairs') = Len(pairs) - 1
      /\ \A i \in 1..Len(pairs') : pairs'[i] = pairs[i + 1]
  BY <1>1, <1>2, EmptySeq, HeadTailProperties
<1>5. Gone' = Gone + 1
  BY <1>3, <1>4 DEF Gone
<1>6. ASSUME NEW i \in DOMAIN pairs'
      PROVE  pairs'[i] = Planned'[Gone' + i]
  <2>1. i \in 1..Len(pairs') /\ i \in Nat /\ i + 1 \in DOMAIN pairs
    BY <1>2, <1>4
  <2>2. pairs'[i] = Planned[Gone + (i + 1)]
    BY <1>4, <2>1 DEF PairsInv
  <2>3. Gone + (i + 1) = Gone' + i
    BY <1>4, <1>5, <2>1 DEF Gone
  <2> QED
    BY <1>3, <2>2, <2>3
<1>7. PairsInv'
  BY <1>3, <1>4, <1>6 DEF PairsInv
<1>8. Planned[Gone + 1][1] = from
  BY NextPair DEF Upcoming
<1> QED
  BY <1>3, <1>5, <1>7, <1>8

LEMMA SamePairs ==
  ASSUME PairsInv, request' = request, pairs' = pairs
  PROVE  Planned' = Planned /\ Gone' = Gone /\ PairsInv'
<1>1. Planned' = Planned
  BY DEF Planned, Permutations2
<1>2. Gone' = Gone
  BY <1>1 DEF Gone
<1> QED
  BY <1>1, <1>2 DEF PairsInv

\* Steps that are not about the pairs.
LEMMA ExploreWaits ==
  ASSUME ExploreInv, UNCHANGED <<plan, request, tpc, result, tried>>
  PROVE  ExploreInv'
<1>1. BeforeInv'
  BY DEF ExploreInv, BeforeInv, plan
<1>2. ASSUME Exploring' PROVE TriedInv' /\ OverInv'
  <2>1. Exploring /\ TriedInv /\ OverInv
    BY <1>2 DEF Exploring, Ending, ExploreInv
  <2>2. Planned' = Planned /\ Gone' = Gone /\ PairsInv'
    BY <2>1, SamePairs DEF TriedInv, plan
  <2>3. Current' = Current
    BY DEF Current, from, plan
  <2>4. StateInv'
    BY <2>1, <2>2 DEF TriedInv, StateInv, NotInitialized, WasTried, RanWith, from, plan
  <2>5. Once(tried)' /\ (failures <=> SomeFailed(tried))'
    BY <2>1 DEF TriedInv, Once, SomeFailed, plan
  <2>6. Sound(tried, Planned, Gone, Current)'
    BY <2>1, <2>2, <2>3 DEF TriedInv, Sound
  <2>7. Progress(tried, Planned, Gone)'
    BY <2>1, <2>2 DEF TriedInv, Progress, NotInitialized, WasTried
  <2> QED
    BY <2>1, <2>2, <2>4, <2>5, <2>6, <2>7 DEF TriedInv, OverInv, Ending, plan
<1> QED
  BY <1>1, <1>2 DEF ExploreInv

LEMMA BeginExploreInv ==
  ASSUME TypeInv, ExploreInv, BeginExplore
  PROVE  ExploreInv'
<1>1. /\ tpc = "begin" /\ tpc' \in {"next", "terminate"}
      /\ UNCHANGED <<request, prev_state, failed_state, failures, tried>>
      /\ tpc' = "next" => pairs' = Planned
      /\ tpc' = "terminate" => Planned = <<>>
  BY DEF BeginExplore, Finish
<1>2. /\ tried' = <<>> /\ failures' = FALSE
      /\ prev_state' = NoState /\ failed_state' = NoState
  BY <1>1, Zenon DEF ExploreInv, BeforeInv, TypeInv, OwnTypes
<1>3. BeforeInv'
  BY <1>1 DEF BeforeInv
<1>4. ASSUME Exploring' PROVE TriedInv' /\ OverInv'
  <2>1. Planned \in Seq(States \X States) /\ Planned # <<>> /\ Planned' = Planned
    <3>1. request \in Request /\ Len(request.states) > 1
      BY <1>1, <1>4 DEF TypeInv, OwnTypes, Exploring
    <3> QED
      BY <1>1, <3>1, PlannedTypes DEF Planned, Permutations2
  <2>2. tpc' = "next" /\ pairs' = Planned'
    BY <1>1, <2>1
  <2>3. Gone' = 0 /\ PairsInv'
    <3>1. Len(Planned) \in Nat /\ DOMAIN Planned = 1..Len(Planned)
      BY <2>1
    <3> QED
      BY <2>1, <2>2, <3>1 DEF Gone, PairsInv
  <2>4. StateInv'
    BY <1>2, <2>2, <2>3 DEF StateInv
  <2>5. Once(tried)' /\ Sound(tried, Planned, Gone, Current)' /\ Progress(tried, Planned, Gone)'
    BY <1>2, <2>3 DEF Once, Sound, Progress
  <2>6. (failures <=> SomeFailed(tried))'
    BY <1>2 DEF SomeFailed
  <2> QED
    BY <2>2, <2>3, <2>4, <2>5, <2>6 DEF TriedInv, OverInv, Ending
<1> QED
  BY <1>3, <1>4 DEF ExploreInv

LEMMA SkipFailedInv ==
  ASSUME TypeInv, ExploreInv, SkipFailed
  PROVE  ExploreInv'
<1>1. /\ tpc = "next" /\ pairs # <<>> /\ from = failed_state /\ pairs' = Tail(pairs)
      /\ UNCHANGED <<prev_state, failed_state, failures, request, tpc, result, tried>>
  BY DEF SkipFailed
<1>2. BeforeInv'
  BY <1>1 DEF BeforeInv
<1>3. ASSUME Exploring' PROVE TriedInv' /\ OverInv'
  <2>1. Exploring /\ TriedInv
    BY <1>1, <1>3 DEF Exploring, Ending, ExploreInv
  <2>2. PICK p, n, f, t : p = Planned /\ n = Gone /\ f = from /\ t = to
    OBVIOUS
  <2>3. Upcoming(p, n, f, t)
    BY <1>1, <2>1, <2>2, NextPair DEF TriedInv
  <2>4. p = Planned' /\ Gone' = n + 1 /\ PairsInv' /\ p[n + 1][1] = f
    BY <1>1, <2>1, <2>2, PairDone DEF TriedInv
  <2>5. Sound(tried, p, n, NoState) /\ Progress(tried, p, n)
    BY <1>1, <2>1, <2>2 DEF TriedInv, Current
  <2>6. NotInitialized(tried, f)
    <3>1. f # NoState
      BY <2>3, UpcomingFacts, TransitionsAssumption
    <3> QED
      BY <1>1, <2>1, <2>2, <3>1 DEF TriedInv, StateInv
  <2>7. ~WasTried(tried, f, t)
    BY <2>3, <2>5, NotMadeYet
  <2>8. Progress(tried, p, n + 1)
    BY <2>3, <2>5, <2>6, <2>7, SkipProgress
  <2>9. Sound(tried, p, n + 1, NoState)
    <3>1. tried \in Seq(Tries)
      BY DEF TypeInv, OwnTypes, Tries
    <3>2. Sound(tried, p, n, f)
      BY <2>5, <3>1, SoundAny
    <3> QED
      BY <2>3, <3>2, SoundOn
  <2>10. Progress(tried, Planned, Gone)' /\ Sound(tried, Planned, Gone, Current)'
    BY <1>1, <2>4, <2>8, <2>9 DEF Current
  <2>11. StateInv'
    <3>1. Planned'[Gone'][1] \in {prev_state', failed_state'}
      BY <1>1, <2>2, <2>4
    <3> QED
      BY <1>1, <2>1, <3>1 DEF TriedInv, StateInv, NotInitialized, RanWith
  <2>12. Once(tried)' /\ (failures <=> SomeFailed(tried))'
    BY <1>1, <2>1 DEF TriedInv, Once, SomeFailed
  <2> QED
    BY <1>1, <2>4, <2>10, <2>11, <2>12 DEF TriedInv, OverInv, Ending
<1> QED
  BY <1>2, <1>3 DEF ExploreInv

LEMMA EndExploreInv ==
  ASSUME TypeInv, ExploreInv, EndExplore
  PROVE  ExploreInv'
<1>1. /\ tpc = "next" /\ tpc' = "terminate"
      /\ result' = IF failures THEN "failure" ELSE "success"
      /\ pairs = <<>> \/ request.timed
      /\ UNCHANGED <<plan, request, tried>>
  BY DEF EndExplore, Finish
<1>2. BeforeInv'
  BY <1>1 DEF BeforeInv
<1>3. ASSUME Exploring' PROVE TriedInv' /\ OverInv'
  <2>1. Exploring /\ TriedInv
    BY <1>1, <1>3 DEF Exploring, Ending, ExploreInv
  <2>2. Planned' = Planned /\ Gone' = Gone /\ PairsInv'
    BY <1>1, <2>1, SamePairs DEF TriedInv, plan
  <2>3. Current' = Current
    BY <1>1 DEF Current
  <2>4. StateInv'
    BY <1>1, <2>1 DEF TriedInv, StateInv, NotInitialized, RanWith, plan
  <2>5. Once(tried)' /\ (failures <=> SomeFailed(tried))'
    BY <1>1, <2>1 DEF TriedInv, Once, SomeFailed, plan
  <2>6. Sound(tried, Planned, Gone, Current)' /\ Progress(tried, Planned, Gone)'
    BY <1>1, <2>1, <2>2, <2>3 DEF TriedInv
  <2>7. OverInv'
    BY <1>1 DEF OverInv, plan
  <2> QED
    BY <2>2, <2>4, <2>5, <2>6, <2>7 DEF TriedInv
<1> QED
  BY <1>2, <1>3 DEF ExploreInv

LEMMA StartingWithInv ==
  ASSUME TypeInv, ExploreInv, StartingWith
  PROVE  ExploreInv'
<1>1. /\ tpc = "next" /\ pairs # <<>> /\ from \notin {failed_state, prev_state}
      /\ tpc' = "initialize"
      /\ UNCHANGED <<plan, request, result, tried>>
  BY DEF StartingWith
<1>2. BeforeInv'
  BY <1>1 DEF BeforeInv
<1>3. ASSUME Exploring' PROVE TriedInv' /\ OverInv'
  <2>1. Exploring /\ TriedInv
    BY <1>1, <1>3 DEF Exploring, Ending, ExploreInv
  <2>2. Planned' = Planned /\ Gone' = Gone /\ PairsInv' /\ from' = from
    BY <1>1, <2>1, SamePairs DEF TriedInv, plan, from
  <2>3. Current' = NoState /\ Current = NoState
    BY <1>1 DEF Current
  <2>4. ~WasTried(tried, from, from)
    <3>1. PICK p, n, f, t : p = Planned /\ n = Gone /\ f = from /\ t = to
      OBVIOUS
    <3>2. Upcoming(p, n, f, t)
      BY <1>1, <2>1, <3>1, NextPair DEF TriedInv
    <3>3. Sound(tried, p, n, NoState)
      BY <2>1, <2>3, <3>1 DEF TriedInv
    <3>4. n > 0 => p[n][1] # f
      BY <1>1, <2>1, <3>1 DEF TriedInv, StateInv
    <3> QED
      BY <3>1, <3>2, <3>3, <3>4, NotInitializedYet
  <2>5. StateInv'
    BY <1>1, <2>1, <2>2, <2>4 DEF TriedInv, StateInv, NotInitialized, WasTried, RanWith, plan
  <2>6. Once(tried)' /\ (failures <=> SomeFailed(tried))'
    BY <1>1, <2>1 DEF TriedInv, Once, SomeFailed, plan
  <2>7. Sound(tried, Planned, Gone, Current)' /\ Progress(tried, Planned, Gone)'
    BY <1>1, <2>1, <2>2, <2>3 DEF TriedInv
  <2> QED
    BY <1>1, <2>2, <2>5, <2>6, <2>7 DEF TriedInv, OverInv, Ending
<1> QED
  BY <1>2, <1>3 DEF ExploreInv

LEMMA InitFailedInv ==
  ASSUME TypeInv, ExploreInv, InitFailed
  PROVE  ExploreInv'
<1>1. /\ tpc = "initialize" /\ rpc = "idle" /\ exit # "ok" /\ failures' = TRUE
      /\ failed_state' = from /\ pairs' = Tail(pairs) /\ tpc' = "next"
      /\ tried' = Append(tried, <<from, from, exit>>)
      /\ UNCHANGED <<prev_state, request, result>>
  BY DEF InitFailed, RunOver
<1>2. pairs # <<>> /\ exit = "failed"
  BY <1>1 DEF TypeInv, WaitInv, DrnedInv, RunInv
<1>3. BeforeInv'
  BY <1>1 DEF BeforeInv
<1>4. ASSUME Exploring' PROVE TriedInv' /\ OverInv'
  <2>1. Exploring /\ TriedInv
    BY <1>1, <1>4 DEF Exploring, Ending, ExploreInv
  <2>2. PICK p, n, f, t : p = Planned /\ n = Gone /\ f = from /\ t = to
    OBVIOUS
  <2>3. PICK q, r : q = tried /\ r = tried'
    OBVIOUS
  <2>4. Upcoming(p, n, f, t)
    BY <1>2, <2>1, <2>2, NextPair DEF TriedInv
  <2>5. p = Planned' /\ Gone' = n + 1 /\ PairsInv' /\ p[n + 1][1] = f
    BY <1>1, <1>2, <2>1, <2>2, PairDone DEF TriedInv
  <2>6. q \in Seq(Tries) /\ f \in States /\ f # t
    BY <2>3, <2>4, UpcomingFacts DEF TypeInv, OwnTypes, Tries
  <2>7. /\ Sound(q, p, n, NoState) /\ Progress(q, p, n) /\ ~WasTried(q, f, f)
        /\ Once(q) /\ (failures <=> SomeFailed(q))
    BY <1>1, <2>1, <2>2, <2>3 DEF TriedInv, Current, StateInv
  <2>8. Longer(q, r, f, f, "failed")
    BY <1>1, <1>2, <2>2, <2>3 DEF Longer
  <2>9. Progress(r, p, n) /\ Sound(r, p, n, f)
    BY <2>4, <2>6, <2>7, <2>8, InitializeOne
  <2>10. /\ \A a, b : WasTried(r, a, b) <=> WasTried(q, a, b) \/ (a = f /\ b = f)
         /\ \A a : NotInitialized(q, a) => NotInitialized(r, a)
         /\ NotInitialized(r, f)
         /\ Once(q) /\ ~WasTried(q, f, f) => Once(r)
         /\ SomeFailed(r)
    BY <2>6, <2>8, OneMore
  <2>11. ~WasTried(r, f, t)
    BY <2>4, <2>6, <2>7, <2>10, NotMadeYet
  <2>12. Progress(r, p, n + 1) /\ Sound(r, p, n + 1, NoState)
    BY <2>4, <2>9, <2>10, <2>11, SkipProgress, SoundOn
  <2>13. Progress(tried, Planned, Gone)' /\ Sound(tried, Planned, Gone, Current)'
    BY <1>1, <2>3, <2>5, <2>12 DEF Current
  <2>14. StateInv'
    <3>1. failed_state' # NoState => NotInitialized(tried', failed_state')
      BY <1>1, <2>2, <2>3, <2>10
    <3>2. prev_state' # NoState => RanWith(tried', prev_state', prev_state', "ok")
      <4>1. \A a, b, c : RanWith(q, a, b, c) => RanWith(r, a, b, c)
        BY <2>6, <2>8, OneMoreRan
      <4> QED
        BY <1>1, <2>1, <2>3, <4>1, Zenon DEF TriedInv, StateInv
    <3>3. Planned'[Gone'][1] \in {prev_state', failed_state'}
      BY <1>1, <2>2, <2>5
    <3> QED
      BY <1>1, <3>1, <3>2, <3>3 DEF StateInv
  <2>15. Once(tried)' /\ (failures <=> SomeFailed(tried))'
    BY <1>1, <2>3, <2>7, <2>10
  <2> QED
    BY <1>1, <2>5, <2>13, <2>14, <2>15 DEF TriedInv, OverInv, Ending
<1> QED
  BY <1>3, <1>4 DEF ExploreInv

LEMMA MakeTransitionInv ==
  ASSUME TypeInv, ExploreInv, MakeTransition
  PROVE  ExploreInv'
<1>1. /\ tpc' = "transition" /\ prev_state' = from
      /\ UNCHANGED <<pairs, failed_state, failures, request, result>>
      /\ \/ /\ tpc = "initialize" /\ exit = "ok"
            /\ tried' = Append(tried, <<from, from, exit>>)
         \/ /\ tpc = "next" /\ pairs # <<>> /\ from = prev_state
            /\ UNCHANGED tried
  BY DEF MakeTransition
<1>2. pairs # <<>>
  BY <1>1 DEF TypeInv, WaitInv
<1>3. BeforeInv'
  BY <1>1 DEF BeforeInv
<1>4. ASSUME Exploring' PROVE TriedInv' /\ OverInv'
  <2>1. Exploring /\ TriedInv
    BY <1>1, <1>4 DEF Exploring, Ending, ExploreInv
  <2>2. PICK p, n, f, t : p = Planned /\ n = Gone /\ f = from /\ t = to
    OBVIOUS
  <2>3. PICK q, r : q = tried /\ r = tried'
    OBVIOUS
  <2>4. Upcoming(p, n, f, t)
    BY <1>2, <2>1, <2>2, NextPair DEF TriedInv
  <2>5. p = Planned' /\ n = Gone' /\ PairsInv' /\ f = from'
    BY <1>1, <2>1, <2>2, SamePairs DEF TriedInv, from
  <2>6. q \in Seq(Tries) /\ f \in States /\ f # t /\ f # NoState
    BY <2>3, <2>4, UpcomingFacts, TransitionsAssumption DEF TypeInv, OwnTypes, Tries
  <2>7. /\ Sound(q, p, n, NoState) /\ Progress(q, p, n)
        /\ Once(q) /\ (failures <=> SomeFailed(q))
        /\ failed_state # NoState => NotInitialized(q, failed_state)
    BY <1>1, <2>1, <2>2, <2>3 DEF TriedInv, Current, StateInv
  <2>8. /\ Progress(r, p, n) /\ Sound(r, p, n, f) /\ Once(r)
        /\ failures <=> SomeFailed(r)
        /\ \A a : NotInitialized(q, a) => NotInitialized(r, a)
        /\ RanWith(r, f, f, "ok")
    <3>1. CASE tpc = "initialize"
      <4>1. Longer(q, r, f, f, "ok")
        BY <1>1, <2>2, <2>3, <3>1 DEF Longer
      <4>2. ~WasTried(q, f, f)
        BY <2>1, <2>2, <2>3, <3>1 DEF TriedInv, StateInv
      <4>3. Progress(r, p, n) /\ Sound(r, p, n, f)
        BY <2>4, <2>6, <2>7, <4>1, <4>2, InitializeOne
      <4>4. /\ \A a : NotInitialized(q, a) => NotInitialized(r, a)
            /\ Once(q) /\ ~WasTried(q, f, f) => Once(r)
            /\ SomeFailed(r) <=> SomeFailed(q)
            /\ RanWith(r, f, f, "ok")
        <5>1. "ok" \in {"ok", "failed"} /\ "ok" # "failed"
          OBVIOUS
        <5>2. /\ \A a : NotInitialized(r, a) <=>
                          NotInitialized(q, a) \/ (a = f /\ a = f /\ "ok" = "failed")
              /\ Once(q) /\ ~WasTried(q, f, f) => Once(r)
              /\ SomeFailed(r) <=> SomeFailed(q) \/ "ok" = "failed"
          BY <2>6, <4>1, <5>1, OneMore
        <5>3. RanWith(r, f, f, "ok")
          BY <2>6, <4>1, <5>1, OneMoreRan
        <5> QED
          BY <5>1, <5>2, <5>3, Zenon
      <4> QED
        BY <2>7, <4>2, <4>3, <4>4
    <3>2. CASE tpc = "next"
      <4>1. r = q /\ f = prev_state
        BY <1>1, <2>2, <2>3, <3>2
      <4>2. Sound(q, p, n, f)
        BY <2>6, <2>7, SoundAny
      <4>3. RanWith(q, f, f, "ok")
        BY <2>1, <2>3, <2>6, <4>1 DEF TriedInv, StateInv
      <4> QED
        BY <2>7, <4>1, <4>2, <4>3
    <3> QED
      BY <1>1, <3>1, <3>2
  <2>9. Progress(tried, Planned, Gone)' /\ Sound(tried, Planned, Gone, Current)'
    BY <1>1, <2>3, <2>5, <2>8 DEF Current
  <2>10. StateInv'
    BY <1>1, <2>2, <2>3, <2>5, <2>7, <2>8 DEF StateInv
  <2>11. Once(tried)' /\ (failures <=> SomeFailed(tried))'
    BY <1>1, <2>3, <2>8
  <2> QED
    BY <1>1, <2>5, <2>9, <2>10, <2>11 DEF TriedInv, OverInv, Ending
<1> QED
  BY <1>3, <1>4 DEF ExploreInv

LEMMA EndTransitionInv ==
  ASSUME TypeInv, ExploreInv, EndTransition
  PROVE  ExploreInv'
<1>1. /\ tpc = "transition" /\ rpc = "idle" /\ tpc' = "next" /\ pairs' = Tail(pairs)
      /\ tried' = Append(tried, <<from, to, exit>>)
      /\ IF exit = "ok" THEN UNCHANGED failures ELSE failures' = TRUE
      /\ UNCHANGED <<prev_state, failed_state, request, result>>
  BY DEF EndTransition, RunOver
<1>2. pairs # <<>> /\ exit \in {"ok", "failed"}
  BY <1>1 DEF TypeInv, WaitInv, DrnedInv, RunInv
<1>3. BeforeInv'
  BY <1>1 DEF BeforeInv
<1>4. ASSUME Exploring' PROVE TriedInv' /\ OverInv'
  <2>1. Exploring /\ TriedInv
    BY <1>1, <1>4 DEF Exploring, Ending, ExploreInv
  <2>2. PICK p, n, f, t : p = Planned /\ n = Gone /\ f = from /\ t = to
    OBVIOUS
  <2>3. PICK q, r, x : q = tried /\ r = tried' /\ x = exit
    OBVIOUS
  <2>4. Upcoming(p, n, f, t)
    BY <1>2, <2>1, <2>2, NextPair DEF TriedInv
  <2>5. p = Planned' /\ Gone' = n + 1 /\ PairsInv' /\ p[n + 1][1] = f
    BY <1>1, <1>2, <2>1, <2>2, PairDone DEF TriedInv
  <2>6. /\ q \in Seq(Tries) /\ f \in States /\ t \in States /\ f # t /\ f # NoState
        /\ x \in {"ok", "failed"}
    BY <1>2, <2>3, <2>4, UpcomingFacts, TransitionsAssumption DEF TypeInv, OwnTypes, Tries
  <2>7. /\ Sound(q, p, n, f) /\ Progress(q, p, n)
        /\ Once(q) /\ (failures <=> SomeFailed(q))
        /\ failed_state # NoState => NotInitialized(q, failed_state)
        /\ prev_state = f
        /\ RanWith(q, f, f, "ok")
    BY <1>1, <2>1, <2>2, <2>3, <2>6 DEF TriedInv, Current, StateInv
  <2>8. WasTried(q, f, f) /\ ~NotInitialized(q, f)
    <3>2. PICK k \in DOMAIN q : q[k][1] = f /\ q[k][2] = f /\ q[k][3] = "ok"
      BY <2>7 DEF RanWith
    <3>3. ASSUME NEW j \in DOMAIN q, q[j] = <<f, f, "failed">>
          PROVE  FALSE
      <4>1. q[j][1] = f /\ q[j][2] = f /\ q[j][3] = "failed"
        BY <3>3
      <4>2. j = k
        BY <2>7, <3>2, <4>1, Zenon DEF Once
      <4> QED
        BY <3>2, <4>1, <4>2
    <3> QED
      BY <3>2, <3>3 DEF WasTried, NotInitialized
  <2>9. ~WasTried(q, f, t)
    BY <2>4, <2>7, NotMadeYet
  <2>10. Longer(q, r, f, t, x)
    BY <1>1, <2>2, <2>3 DEF Longer
  <2>11. Progress(r, p, n + 1) /\ Sound(r, p, n + 1, NoState)
    BY <2>4, <2>6, <2>7, <2>8, <2>10, MakeOne
  <2>12. /\ \A a : NotInitialized(q, a) => NotInitialized(r, a)
         /\ Once(q) /\ ~WasTried(q, f, t) => Once(r)
         /\ SomeFailed(r) <=> SomeFailed(q) \/ x = "failed"
         /\ \A a, b, c : RanWith(q, a, b, c) => RanWith(r, a, b, c)
    <3>1. q \in Seq(Tries) /\ f \in States /\ t \in States /\ x \in {"ok", "failed"}
      BY <2>6
    <3>2. \A a : NotInitialized(r, a) <=>
                   NotInitialized(q, a) \/ (a = f /\ a = t /\ x = "failed")
      BY <2>10, <3>1, OneMore
    <3>3. /\ Once(q) /\ ~WasTried(q, f, t) => Once(r)
          /\ SomeFailed(r) <=> SomeFailed(q) \/ x = "failed"
      BY <2>10, <3>1, OneMore
    <3>4. \A a, b, c : RanWith(q, a, b, c) => RanWith(r, a, b, c)
      BY <2>10, <3>1, OneMoreRan
    <3> QED
      BY <3>2, <3>3, <3>4, Zenon
  <2>13. Progress(tried, Planned, Gone)' /\ Sound(tried, Planned, Gone, Current)'
    BY <1>1, <2>3, <2>5, <2>11 DEF Current
  <2>14. StateInv'
    <3>1. Planned'[Gone'][1] \in {prev_state', failed_state'}
      BY <1>1, <2>5, <2>7
    <3> QED
      BY <1>1, <2>3, <2>7, <2>12, <3>1 DEF StateInv
  <2>15. Once(tried)' /\ (failures <=> SomeFailed(tried))'
    BY <1>1, <1>2, <2>3, <2>7, <2>9, <2>12
  <2> QED
    BY <1>1, <2>5, <2>13, <2>14, <2>15 DEF TriedInv, OverInv, Ending
<1> QED
  BY <1>3, <1>4 DEF ExploreInv

LEMMA ExploreEnds ==
  ASSUME ExploreInv, UNCHANGED <<plan, request, tried>>,
         \/ tpc = "begin" /\ request.action # "explore"
         \/ tpc = "running"
         \/ NotStarted
         \/ tpc \in {"terminate", "close", "store"} /\ result' = result,
         tpc' \in {"running", "terminate", "close", "store", "done"},
         tpc' = "running" => request.action # "explore"
  PROVE  ExploreInv'
<1>1. BeforeInv'
  BY DEF BeforeInv
<1>2. ASSUME Exploring' PROVE TriedInv' /\ OverInv'
  <2>1. request.action = "explore" /\ tpc' # "running"
    BY <1>2 DEF Exploring
  <2>2. Ending' /\ result' # "error"
    BY <1>2, <2>1 DEF Exploring, Ending
  <2>3. tpc # "running"
    BY <2>1 DEF ExploreInv, BeforeInv
  <2>4. ~NotStarted
    BY <2>2 DEF NotStarted, Finish
  <2>5. tpc \in {"terminate", "close", "store"} /\ result' = result
    BY <2>1, <2>3, <2>4
  <2>6. Exploring /\ TriedInv /\ OverInv
    BY <1>2, <2>5 DEF Exploring, Ending, ExploreInv
  <2>7. Planned' = Planned /\ Gone' = Gone /\ PairsInv'
    BY <2>6, SamePairs DEF TriedInv, plan
  <2>8. Current' = NoState /\ Current = NoState
    BY <2>2, <2>5 DEF Current, Ending
  <2>9. StateInv'
    BY <2>2, <2>6 DEF TriedInv, StateInv, NotInitialized, RanWith, plan, Ending
  <2>10. Once(tried)' /\ (failures <=> SomeFailed(tried))'
    BY <2>6 DEF TriedInv, Once, SomeFailed, plan
  <2>11. Sound(tried, Planned, Gone, Current)' /\ Progress(tried, Planned, Gone)'
    BY <2>6, <2>7, <2>8 DEF TriedInv
  <2>12. OverInv'
    BY <2>5, <2>6 DEF OverInv, Ending, plan
  <2> QED
    BY <2>7, <2>9, <2>10, <2>11, <2>12 DEF TriedInv
<1> QED
  BY <1>1, <1>2 DEF ExploreInv

LEMMA ExploreNext ==
  TypeInv /\ ExploreInv /\ [Next]_vars => ExploreInv'
<1> SUFFICES ASSUME TypeInv, ExploreInv, [Next]_vars PROVE ExploreInv'
  OBVIOUS
<1>1. CASE SendOwn \/ SendLine \/ FilterStep \/ LoseLines \/ DrnedStep \/ UNCHANGED vars
  <2>1. UNCHANGED <<plan, request, tpc, result, tried>>
    BY <1>1 DEF SendOwn, SendLine, FilterStep, LoseLines, DrnedStep, vars
  <2> QED
    BY <2>1, ExploreWaits
<1>2. CASE NotStarted \/ BeginRun \/ EndRun
  <2>1. UNCHANGED <<plan, request, tried>>
    BY <1>2 DEF NotStarted, BeginRun, EndRun
  <2>2. \/ tpc = "begin" /\ request.action # "explore" /\ tpc' = "running"
        \/ tpc = "running" /\ tpc' = "terminate"
        \/ NotStarted /\ tpc' = "terminate"
    BY <1>2 DEF NotStarted, BeginRun, EndRun, Finish
  <2> QED
    BY <2>1, <2>2, ExploreEnds
<1>3. CASE BeginExplore \/ SkipFailed \/ EndExplore \/ StartingWith \/ InitFailed
             \/ MakeTransition \/ EndTransition
  BY <1>3, BeginExploreInv, SkipFailedInv, EndExploreInv, StartingWithInv,
     InitFailedInv, MakeTransitionInv, EndTransitionInv
<1>4. CASE Terminate \/ Close \/ Store
  <2>1. UNCHANGED <<plan, request, tried, result>>
    BY <1>4 DEF Terminate, Close, Store
  <2>2. /\ tpc \in {"terminate", "close", "store"}
        /\ tpc' \in {"close", "store", "done"}
    BY <1>4 DEF Terminate, Close, Store
  <2> QED
    BY <2>1, <2>2, ExploreEnds
<1> QED
  BY <1>1, <1>2, <1>3, <1>4 DEF Next

LEMMA ExploreInit ==
  Init => ExploreInv
BY DEF Init, ExploreInv, BeforeInv, Exploring

LEMMA ExploreInvariant == Spec => [](TypeInv /\ ExploreInv)
BY InitTypes, NextTypes, ExploreInit, ExploreNext, PTL DEF Spec

\* How often f to t was run.
LEMMA CountOnce ==
  ASSUME NEW q \in Seq(Tries), Once(q), NEW f, NEW t
  PROVE  Cardinality({i \in DOMAIN q : q[i][1] = f /\ q[i][2] = t})
           = IF WasTried(q, f, t) THEN 1 ELSE 0
<1>1. CASE WasTried(q, f, t)
  <2>1. PICK k \in DOMAIN q : q[k][1] = f /\ q[k][2] = t
    BY <1>1 DEF WasTried
  <2>2. \A i \in DOMAIN q : q[i][1] = f /\ q[i][2] = t => i = k
    BY <2>1, Zenon DEF Once
  <2>3. {i \in DOMAIN q : q[i][1] = f /\ q[i][2] = t} = {k}
    BY <2>1, <2>2
  <2> QED
    BY <1>1, <2>3, FS_Singleton
<1>2. CASE ~WasTried(q, f, t)
  <2>1. {i \in DOMAIN q : q[i][1] = f /\ q[i][2] = t} = {}
    BY <1>2 DEF WasTried
  <2> QED
    BY <1>2, <2>1, FS_EmptySet
<1> QED
  BY <1>1, <1>2

LEMMA ExploreInvImpliesComplete ==
  TypeInv /\ ExploreInv => ExploreComplete
<1> SUFFICES ASSUME TypeInv, ExploreInv,
                    request.action = "explore", Len(request.states) > 1,
                    tpc = "done", result # "error",
                    ~request.timed \/ pairs = <<>>
             PROVE  /\ \A i \in DOMAIN Planned :
                         LET f == Planned[i][1]  t == Planned[i][2]
                         IN /\ Cardinality({k \in DOMAIN tried :
                                 tried[k][1] = f /\ tried[k][2] = f}) = 1
                            /\ Cardinality({k \in DOMAIN tried :
                                 tried[k][1] = f /\ tried[k][2] = t}) =
                                 IF \E k \in DOMAIN tried : tried[k] = <<f, f, "failed">>
                                 THEN 0 ELSE 1
                    /\ result = "success" <=> \A k \in DOMAIN tried : tried[k][3] = "ok"
  BY DEF ExploreComplete
<1>1. TriedInv /\ OverInv
  BY DEF ExploreInv, Exploring
<1>2. pairs = <<>> /\ (result = "success" <=> ~failures)
  BY <1>1 DEF OverInv, Ending
<1>3. Planned \in Seq(States \X States)
  BY PlannedTypes DEF TypeInv, OwnTypes
<1>4. Gone = Len(Planned) /\ DOMAIN Planned = 1..Gone
  BY <1>2, <1>3 DEF Gone
<1>5. tried \in Seq(Tries)
  BY DEF TypeInv, OwnTypes, Tries
<1>6. ASSUME NEW i \in DOMAIN Planned
      PROVE  LET f == Planned[i][1]  t == Planned[i][2]
             IN /\ Cardinality({k \in DOMAIN tried :
                                  tried[k][1] = f /\ tried[k][2] = f}) = 1
                /\ Cardinality({k \in DOMAIN tried :
                                  tried[k][1] = f /\ tried[k][2] = t}) =
                     IF \E k \in DOMAIN tried : tried[k] = <<f, f, "failed">>
                     THEN 0 ELSE 1
  <2>1. PICK f, t : f = Planned[i][1] /\ t = Planned[i][2]
    OBVIOUS
  <2>2. WasTried(tried, f, f) /\ (WasTried(tried, f, t) <=> ~NotInitialized(tried, f))
    BY <1>1, <1>4, <2>1 DEF TriedInv, Progress
  <2>3. /\ Cardinality({k \in DOMAIN tried : tried[k][1] = f /\ tried[k][2] = f}) = 1
        /\ Cardinality({k \in DOMAIN tried : tried[k][1] = f /\ tried[k][2] = t}) =
             IF \E k \in DOMAIN tried : tried[k] = <<f, f, "failed">> THEN 0 ELSE 1
    BY <1>1, <1>5, <2>2, CountOnce DEF TriedInv, NotInitialized
  <2> QED
    BY <2>1, <2>3
<1>7. result = "success" <=> \A k \in DOMAIN tried : tried[k][3] = "ok"
  <2>1. ASSUME NEW k \in DOMAIN tried
        PROVE  tried[k][3] = "ok" <=> tried[k][3] # "failed"
    BY <1>5 DEF Tries
  <2> QED
    BY <1>1, <1>2, <2>1 DEF TriedInv, SomeFailed
<1> QED
  BY <1>6, <1>7, Zenon

\* However DrNED's runs end, and wherever its output gets lost: when
\* explore-transitions comes to its end without anything raised, each planned
\* transition was made exactly once, from a state initialized exactly once, or
\* not at all since its start could not be initialized; and it reports a
\* success if and only if every run has succeeded.  For any states, in any
\* order, and any number of cases.
THEOREM ExploreComesThrough == Spec => []ExploreComplete
BY ExploreInvariant, ExploreInvImpliesComplete, PTL

----------------------------------------------------------------------------
(* What is recorded: the transitions, whatever becomes of them             *)

RecordedIn(c, e) ==
  IF c.to = NoState THEN e
  ELSE Append(e, [start |-> c.state, to |-> c.to, failure |-> "none"])

\* The state that the next transition is recorded to start from.
After(c) ==
  IF c.to = NoState THEN c.state
  ELSE IF c.exploring_from # NoState THEN c.exploring_from ELSE c.to

\* The same transitions, but maybe for their failures.
SameRuns(p, q) ==
  /\ Len(p) = Len(q)
  /\ \A i \in 1..Len(q) : p[i].to = q[i].to /\ p[i].start = q[i].start

\* One transition more, from g to s.
OneRunMore(p, q, g, s) ==
  /\ Len(p) = Len(q) + 1
  /\ \A i \in 1..Len(q) : p[i].to = q[i].to /\ p[i].start = q[i].start
  /\ p[Len(q) + 1].to = s /\ p[Len(q) + 1].start = g

LEMMA RecordedTypes ==
  ASSUME NEW c \in F!Context, NEW e \in Seq(F!TransitionDesc)
  PROVE  /\ RecordedIn(c, e) \in Seq(F!TransitionDesc)
         /\ c.to = NoState => RecordedIn(c, e) = e
         /\ c.to # NoState => OneRunMore(RecordedIn(c, e), e, c.state, c.to)
<1>1. CASE c.to = NoState
  BY <1>1 DEF RecordedIn
<1>2. CASE c.to # NoState
  <2>1. PICK d : d = [start |-> c.state, to |-> c.to, failure |-> "none"]
    OBVIOUS
  <2>2. d \in F!TransitionDesc /\ d.start = c.state /\ d.to = c.to
    BY <1>2, <2>1 DEF F!Context, F!TransitionDesc, F!Failure
  <2>3. RecordedIn(c, e) = Append(e, d)
    BY <1>2, <2>1 DEF RecordedIn
  <2> QED
    BY <1>2, <2>2, <2>3, AppendProperties DEF OneRunMore
<1> QED
  BY <1>1, <1>2

LEMMA CompleteRecords ==
  ASSUME NEW c \in F!Context, NEW e \in Seq(F!TransitionDesc), NEW failure \in F!Failure
  PROVE  LET d == F!Complete(c, e, failure)
         IN /\ d.c.to = NoState /\ d.c.state = After(c)
            /\ d.c.exploring_from = c.exploring_from
            /\ SameRuns(d.e, RecordedIn(c, e))
<1>1. PICK d : d = F!Complete(c, e, failure)
  OBVIOUS
<1>2. CASE c.to = NoState
  <2>1. d.c = c /\ d.e = e /\ RecordedIn(c, e) = e
    BY <1>1, <1>2 DEF F!Complete, RecordedIn
  <2>2. SameRuns(e, e)
    BY DEF SameRuns
  <2> QED
    BY <1>1, <1>2, <2>1, <2>2 DEF After
<1>3. CASE c.to # NoState
  <2>1. PICK x : x = [start |-> c.state, to |-> c.to, failure |-> failure]
    OBVIOUS
  <2>2. x \in F!TransitionDesc /\ x.start = c.state /\ x.to = c.to
    BY <1>3, <2>1 DEF F!Context, F!TransitionDesc
  <2>3. /\ d.c = [F!NewContext EXCEPT
                    !.exploring_from = c.exploring_from,
                    !.state = IF c.exploring_from # NoState
                              THEN c.exploring_from ELSE c.to]
        /\ d.e = Append(e, x)
    BY <1>1, <1>3, <2>1 DEF F!Complete
  <2>4. d.c.to = NoState /\ d.c.state = After(c) /\ d.c.exploring_from = c.exploring_from
    BY <1>3, <2>3 DEF F!NewContext, After
  <2>5. OneRunMore(d.e, e, c.state, c.to)
    BY <2>2, <2>3, AppendProperties DEF OneRunMore
  <2>6. OneRunMore(RecordedIn(c, e), e, c.state, c.to)
    BY <1>3, RecordedTypes
  <2>7. SameRuns(d.e, RecordedIn(c, e))
    <3>1. Len(e) \in Nat
      OBVIOUS
    <3> QED
      BY <2>5, <2>6, <3>1 DEF OneRunMore, SameRuns
  <2> QED
    BY <1>1, <2>4, <2>7
<1> QED
  BY <1>2, <1>3

\* What the event does to the record.  A load adds a transition; everything
\* else leaves the transitions as they are.
LEMMA UpdateRecords ==
  ASSUME NEW state \in F!LogStates, NEW ev \in GoodEvent,
         NEW c \in F!Context, NEW e \in Seq(F!TransitionDesc),
         state = "load" => ev.type = "load"
  PROVE  LET d == F!Update(state, ev, c, e)
         IN /\ state = "load" =>
                 /\ OneRunMore(RecordedIn(d.c, d.e), RecordedIn(c, e), After(c), ev.state)
                 /\ After(d.c) = IF c.exploring_from # NoState THEN c.exploring_from
                                 ELSE ev.state
            /\ state # "load" =>
                 /\ SameRuns(RecordedIn(d.c, d.e), RecordedIn(c, e))
                 /\ After(d.c) = After(c)
            /\ d.c.exploring_from = IF state = "explore-transitions" /\ ev.type = "start"
                                    THEN ev.state ELSE c.exploring_from
<1>1. PICK d : d = F!Update(state, ev, c, e)
  OBVIOUS
<1>2. PICK q : q = RecordedIn(c, e)
  OBVIOUS
<1>3. q \in Seq(F!TransitionDesc) /\ SameRuns(q, q)
  BY <1>2, RecordedTypes DEF SameRuns
<1>4. /\ d.c \in F!Context /\ d.e \in Seq(F!TransitionDesc)
  BY <1>1, UpdateTypes
<1>5. CASE state = "explore-transitions" /\ ev.type = "start"
  <2>1. PICK n : n = F!Complete(c, e, "none")
    OBVIOUS
  <2>2. d = F!StartExplore(c, e, ev.state)
    BY <1>1, <1>5 DEF F!Update
  <2>3. d.c = [n.c EXCEPT !.exploring_from = ev.state] /\ d.e = n.e
    BY <2>1, <2>2 DEF F!StartExplore
  <2>4. "none" \in F!Failure
    BY DEF F!Failure
  <2>5. n.c \in F!Context /\ n.e \in Seq(F!TransitionDesc)
    BY <2>1, <2>4, CompleteTypes
  <2>6. n.c.to = NoState /\ n.c.state = After(c) /\ SameRuns(n.e, q)
    BY <1>2, <2>1, <2>4, CompleteRecords
  <2>7. d.c.to = NoState /\ d.c.state = After(c) /\ d.c.exploring_from = ev.state
    BY <2>3, <2>5, <2>6 DEF F!Context
  <2> QED
    BY <1>1, <1>2, <1>5, <2>3, <2>6, <2>7 DEF RecordedIn, After
<1>6. CASE state = "load"
  <2>1. PICK n : n = F!Complete(c, e, "none")
    OBVIOUS
  <2>2. d = F!StartTransition(c, e, ev.state)
    BY <1>1, <1>6 DEF F!Update
  <2>3. /\ d.c = [n.c EXCEPT !.to = ev.state, !.rollback = FALSE, !.event = "load"]
        /\ d.e = n.e
    BY <2>1, <2>2 DEF F!StartTransition
  <2>4. "none" \in F!Failure
    BY DEF F!Failure
  <2>5. n.c \in F!Context /\ n.e \in Seq(F!TransitionDesc)
    BY <2>1, <2>4, CompleteTypes
  <2>6. /\ n.c.to = NoState /\ n.c.state = After(c) /\ SameRuns(n.e, q)
        /\ n.c.exploring_from = c.exploring_from
    BY <1>2, <2>1, <2>4, CompleteRecords
  <2>7. /\ d.c.to = ev.state /\ d.c.state = After(c)
        /\ d.c.exploring_from = c.exploring_from
    BY <2>3, <2>5, <2>6 DEF F!Context
  <2>8. ev.state \in States /\ ev.state # NoState
    BY <1>6, TransitionsAssumption DEF GoodEvent
  <2>9. OneRunMore(RecordedIn(d.c, d.e), d.e, After(c), ev.state)
    BY <1>4, <2>7, <2>8, RecordedTypes
  <2>10. OneRunMore(RecordedIn(d.c, d.e), q, After(c), ev.state)
    <3>1. Len(q) \in Nat
      BY <1>3
    <3> QED
      BY <2>3, <2>6, <2>9, <3>1 DEF OneRunMore, SameRuns
  <2>11. After(d.c) = IF c.exploring_from # NoState THEN c.exploring_from ELSE ev.state
    BY <2>7, <2>8 DEF After
  <2> QED
    BY <1>1, <1>2, <1>6, <2>7, <2>10, <2>11
<1>7. CASE state \in {"load-failure", "commit-failed", "compare"}
  <2>1. PICK f : f = IF c.rollback THEN "rollback" ELSE c.event
    OBVIOUS
  <2>2. f \in F!Failure
    BY <2>1 DEF F!Context, F!Failure
  <2>3. d = F!Complete(c, e, f)
    BY <1>1, <1>7, <2>1 DEF F!Update, F!FailTransition
  <2>4. /\ d.c.to = NoState /\ d.c.state = After(c)
        /\ d.c.exploring_from = c.exploring_from
        /\ SameRuns(d.e, q)
    BY <1>2, <2>2, <2>3, CompleteRecords
  <2>5. RecordedIn(d.c, d.e) = d.e /\ After(d.c) = After(c)
    BY <2>4 DEF RecordedIn, After
  <2> QED
    BY <1>1, <1>2, <1>7, <2>4, <2>5
<1>8. CASE state \in {"action-commit", "action-compare", "action-rollback"}
  <2>1. PICK t : t = CASE state = "action-commit" -> "commit"
                       [] state = "action-compare" -> "compare_config"
                       [] state = "action-rollback" -> "rollback"
    OBVIOUS
  <2>2. d = F!TransitionEvent(c, e, t)
    BY <1>1, <1>8, <2>1 DEF F!Update
  <2>3. d.c = [c EXCEPT !.event = t, !.rollback = @ \/ t = "rollback"] /\ d.e = e
    BY <2>2 DEF F!TransitionEvent
  <2>4. /\ d.c.to = c.to /\ d.c.state = c.state
        /\ d.c.exploring_from = c.exploring_from
    BY <2>3 DEF F!Context
  <2>5. RecordedIn(d.c, d.e) = q /\ After(d.c) = After(c)
    BY <1>2, <2>3, <2>4 DEF RecordedIn, After
  <2> QED
    BY <1>1, <1>2, <1>3, <1>8, <2>4, <2>5
<1>9. CASE /\ state \notin {"load", "load-failure", "commit-failed", "compare",
                            "action-commit", "action-compare", "action-rollback"}
           /\ ~(state = "explore-transitions" /\ ev.type = "start")
  <2>1. d = [c |-> c, e |-> e]
    BY <1>1, <1>9 DEF F!Update
  <2> QED
    BY <1>1, <1>2, <1>3, <1>9, <2>1
<1> QED
  BY <1>5, <1>6, <1>7, <1>8, <1>9

----------------------------------------------------------------------------
(* What a step of DrNED adds to the history                                *)

LoadLine(s) == [type |-> "load", state |-> s]

\* One load more: of s, from f.
OneTestMore(p, q, f, s) ==
  /\ Len(p) = Len(q) + 1
  /\ \A i \in 1..Len(q) : p[i].to = q[i].to /\ p[i].from = q[i].from
  /\ p[Len(q) + 1].to = s /\ p[Len(q) + 1].from = f

LEMMA LoadedRuns ==
  ASSUME DrnedInv, NEW failure, tested' = Append(tested, D!Loaded(failure))
  PROVE  OneTestMore(tested', tested, job.from, D!Op1.state)
<1>1. PICK t : t = D!Loaded(failure)
  OBVIOUS
<1>2. t.to = D!Op1.state /\ t.from = job.from
  BY <1>1 DEF D!Loaded
<1>3. tested \in Seq(D!Tested)
  BY DEF DrnedInv, LinesInv
<1> QED
  BY <1>1, <1>2, <1>3 DEF OneTestMore

LEMMA OutcomeQuiet ==
  ASSUME DrnedInv, rpc = "op", D!Op1.op # "load", out = <<>>,
         NEW lines \in Seq(Quiet), NEW fails \in BOOLEAN, NEW told \in BOOLEAN,
         D!Outcome(lines, fails, told)
  PROVE  out' \in Seq(CalmEvent) /\ SameTests(tested', tested)
<1>1. SameTests(tested', tested)
  BY SomeTested, Op1Good, OutcomeLines DEF DrnedInv
<1>2. out' = out \o D!Lines(lines) /\ D!Lines(lines) \in Seq(CalmEvent)
  BY LinesTypes DEF D!Outcome
<1>3. out \in Seq(CalmEvent)
  OBVIOUS
<1> QED
  BY <1>1, <1>2, <1>3, ConcatProperties

\* DrNED tells each load, and nothing else in the same step.
LEMMA StepTests ==
  ASSUME DrnedInv, D!Step, out = <<>>
  PROVE  /\ UNCHANGED job
         /\ \/ /\ out' \in Seq(QuietEvent) /\ SameTests(tested', tested)
               /\ rpc' # "idle" => out' \in Seq(CalmEvent)
            \/ /\ rpc = "op" /\ D!Op1.op = "load"
               /\ out' = <<LoadLine(D!Op1.state)>>
               /\ OneTestMore(tested', tested, job.from, D!Op1.state)
<1>0. Seq(CalmEvent) \subseteq Seq(QuietEvent)
  BY DEF CalmEvent
<1>1. out \in Seq(CalmEvent) /\ SameTests(tested, tested)
  BY DEF SameTests
<1>2. ASSUME NEW ts \in Seq(Quiet), out' = out \o D!Lines(ts)
      PROVE  out' \in Seq(CalmEvent)
  BY <1>1, <1>2, LinesTypes, ConcatProperties
<1>3. CASE D!Prepare
  <2>1. "noqueue" \in Quiet /\ "empty" \in Quiet /\ "reason" \in Quiet
    BY DEF Quiet, F!EventTypes, F!CommitEvents, F!ResultEvents
  <2>2. <<"noqueue", "empty">> \in Seq(Quiet) /\ <<"noqueue", "reason">> \in Seq(Quiet)
    BY <2>1
  <2>3. \/ out' = out \/ out' = out \o D!Lines(<<"noqueue", "empty">>)
        \/ out' = out \o D!Lines(<<"noqueue", "reason">>)
    BY <1>3 DEF D!Prepare
  <2>4. UNCHANGED <<job, tested>>
    BY <1>3 DEF D!Prepare
  <2> QED
    BY <1>0, <1>1, <1>2, <2>2, <2>3, <2>4
<1>4. CASE D!BeginSet
  <2>1. D!Line("py_test") \in CalmEvent
    BY DEF D!Line, GoodEvent, QuietEvent, CalmEvent, F!Event, F!EventTypes
  <2>2. PICK ev : ev = D!Line("py_test")
    OBVIOUS
  <2>3. (out' = out \/ out' = Append(out, ev)) /\ UNCHANGED <<job, tested>>
    BY <1>4, <2>2 DEF D!BeginSet
  <2>4. out' \in Seq(CalmEvent)
    <3>1. ev \in CalmEvent
      BY <2>1, <2>2
    <3>2. Append(out, ev) \in Seq(CalmEvent)
      BY <1>1, <3>1, AppendProperties
    <3> QED
      BY <1>1, <2>3, <3>2
  <2> QED
    BY <1>0, <1>1, <2>3, <2>4
<1>5. CASE D!EndSets \/ D!Killed
  BY <1>0, <1>1, <1>5 DEF D!EndSets, D!Killed
<1>6. CASE D!Load
  <2>1. PICK failure \in {"none", "load"} : tested' = Append(tested, D!Loaded(failure))
    BY <1>6 DEF D!Load
  <2>2. rpc = "op" /\ D!Op1.op = "load" /\ UNCHANGED job /\ out' = Append(out, LoadLine(D!Op1.state))
    BY <1>6 DEF D!Load, LoadLine
  <2>3. OneTestMore(tested', tested, job.from, D!Op1.state)
    BY <2>1, LoadedRuns
  <2> QED
    BY <2>2, <2>3
<1>7. CASE D!CommitSucceeds \/ D!QueueItemFails \/ D!CommitAborted
  <2>1. rpc = "op" /\ D!Op1.op = "commit" /\ UNCHANGED job
    BY <1>7 DEF D!CommitSucceeds, D!QueueItemFails, D!CommitAborted, D!Outcome
  <2>2. PICK lines \in Seq(Quiet), fails \in BOOLEAN, told \in BOOLEAN :
          D!Outcome(lines, fails, told)
    BY <1>7, CommitOutcome
  <2> QED
    BY <1>0, <2>1, <2>2, OutcomeQuiet
<1>8. CASE D!Compare
  <2>1. rpc = "op" /\ D!Op1.op = "compare_config" /\ UNCHANGED job
    BY <1>8 DEF D!Compare, D!Outcome
  <2>2. "compare_config" \in Quiet /\ "diff" \in Quiet
    BY DEF Quiet, F!EventTypes
  <2>3. <<"compare_config">> \in Seq(Quiet) /\ <<"compare_config", "diff">> \in Seq(Quiet)
    BY <2>2
  <2>4. PICK lines \in Seq(Quiet), fails \in BOOLEAN, told \in BOOLEAN :
          D!Outcome(lines, fails, told)
    BY <1>8, <2>3 DEF D!Compare
  <2> QED
    BY <1>0, <2>1, <2>4, OutcomeQuiet
<1>9. CASE D!RollBack
  <2>1. D!Line("rollback") \in CalmEvent
    BY DEF D!Line, GoodEvent, QuietEvent, CalmEvent, F!Event, F!EventTypes
  <2>2. out' = Append(out, D!Line("rollback")) /\ UNCHANGED job
    BY <1>9 DEF D!RollBack
  <2>3. SameTests(tested', tested)
    BY <1>9, RollBackTested
  <2>4. out' \in Seq(CalmEvent)
    BY <1>1, <2>1, <2>2
  <2> QED
    BY <1>0, <2>2, <2>3, <2>4
<1>10. CASE D!Interrupted
  <2>0. rpc = "op" /\ UNCHANGED job
    BY <1>10 DEF D!Interrupted
  <2>1. CASE UNCHANGED <<out, tested>>
    BY <1>0, <1>1, <2>0, <2>1
  <2>2. CASE /\ out' = Append(out, [type |-> D!Op1.op, state |-> D!Op1.state])
             /\ tested' = IF D!Op1.op = "load" THEN Append(tested, D!Loaded("none"))
                          ELSE tested
    <3>1. CASE D!Op1.op = "load"
      <4>1. OneTestMore(tested', tested, job.from, D!Op1.state)
        BY <2>2, <3>1, LoadedRuns
      <4> QED
        BY <2>0, <2>2, <3>1, <4>1 DEF LoadLine
    <3>2. CASE D!Op1.op # "load"
      <4>1. PICK ev : ev = [type |-> D!Op1.op, state |-> D!Op1.state]
        OBVIOUS
      <4>2. ev \in GoodEvent
        BY <2>0, <4>1, OpLine DEF DrnedInv
      <4>3. D!Op1.op # "failed_states"
        BY <2>0, Op1Good DEF DrnedInv, GoodOp, D!Op
      <4>4. ev \in CalmEvent
        BY <3>2, <4>1, <4>2, <4>3 DEF QuietEvent, CalmEvent
      <4>5. out' \in Seq(CalmEvent)
        BY <1>1, <2>2, <4>1, <4>4
      <4> QED
        BY <1>0, <1>1, <2>0, <2>2, <3>2, <4>5
    <3> QED
      BY <3>1, <3>2
  <2>3. CASE out' = out \o D!Lines(<<"commit", "empty">>) /\ UNCHANGED tested
    <3>1. "commit" \in Quiet /\ "empty" \in Quiet
      BY DEF Quiet, F!EventTypes, F!CommitEvents, F!ResultEvents
    <3>2. <<"commit", "empty">> \in Seq(Quiet)
      BY <3>1
    <3> QED
      BY <1>0, <1>1, <1>2, <2>0, <2>3, <3>2
  <2> QED
    BY <1>10, <2>1, <2>2, <2>3 DEF D!Interrupted
<1>11. CASE D!RestoreAfterSet
  <2>1. PICK lines \in D!RestoreGood \cup D!RestoreBad :
          out' = out \o D!Lines(lines) /\ D!Blur(lines)
    BY <1>11 DEF D!RestoreAfterSet
  <2>2. UNCHANGED job
    BY <1>11 DEF D!RestoreAfterSet
  <2>3. out' \in Seq(CalmEvent)
    BY <1>1, <2>1, RestoreLines, LinesTypes, ConcatProperties
  <2>4. SameTests(tested', tested)
    BY <2>1, BlurTested DEF DrnedInv
  <2> QED
    BY <1>0, <2>2, <2>3, <2>4
<1>12. CASE D!RestoreAtEnd
  <2>1. PICK lines \in D!RestoreGood \cup D!RestoreBad :
          /\ \/ out' = out \o D!Lines(lines) \o
                  (IF failed_states = <<>> THEN <<>> ELSE <<D!Line("failed_states")>>)
             \/ out' = out \o D!Lines(lines)
          /\ D!Blur(lines)
    BY <1>12 DEF D!RestoreAtEnd
  <2>2. rpc' = "idle" /\ UNCHANGED job
    BY <1>12 DEF D!RestoreAtEnd, D!End
  <2>3. D!Line("failed_states") \in QuietEvent
    BY DEF D!Line, GoodEvent, QuietEvent, F!Event, F!EventTypes
  <2>4. (IF failed_states = <<>> THEN <<>> ELSE <<D!Line("failed_states")>>) \in Seq(QuietEvent)
    BY <2>3
  <2>5. out' \in Seq(QuietEvent)
    <3>1. PICK x, y : /\ x = D!Lines(lines)
                      /\ y = IF failed_states = <<>> THEN <<>> ELSE <<D!Line("failed_states")>>
      OBVIOUS
    <3>2. x \in Seq(QuietEvent) /\ y \in Seq(QuietEvent) /\ out \in Seq(QuietEvent)
      BY <1>0, <1>1, <2>4, <3>1, RestoreLines, LinesTypes
    <3>3. out' = out \o x \o y \/ out' = out \o x
      BY <2>1, <3>1
    <3>4. out \o x \in Seq(QuietEvent)
      BY <3>2, ConcatProperties
    <3> QED
      BY <3>2, <3>3, <3>4, ConcatProperties
  <2>6. SameTests(tested', tested)
    BY <2>1, BlurTested DEF DrnedInv
  <2> QED
    BY <2>2, <2>5, <2>6
<1> QED
  BY <1>3, <1>4, <1>5, <1>6, <1>7, <1>8, <1>9, <1>10, <1>11, <1>12 DEF D!Step

----------------------------------------------------------------------------
(* A load on its way from DrNED to the record                              *)

\* It has been told, and the filter is not done with it.
Loading(s) ==
  /\ say = <<>>
  /\ \/ event = F!NoEvent /\ out = <<LoadLine(s)>>
     \/ event = LoadLine(s) /\ out = <<>>

NotLoading ==
  event.type # "load" /\ out \in Seq(QuietEvent) /\ say \in Seq(QuietEvent)

LoadingInv == NotLoading \/ \E s \in States : Loading(s)

\* While nothing runs, nothing happens; what is stored is what was recorded.
EndInv ==
  /\ tpc \in {"begin", "next", "terminate", "close", "store", "done"} => rpc = "idle"
  /\ tpc = "begin" =>
       out = <<>> /\ say = <<>> /\ tested = <<>> /\ event.type # "load"
  /\ tpc \in {"store", "done"} => CaughtUp /\ context.to = NoState
  /\ stored.stored => tpc = "done" /\ stored.events = test_events

\* One turn of the automaton, as far as the record is concerned.
LEMMA FilterRecords ==
  ASSUME TypeInv, F!Filter
  PROVE  \/ UNCHANGED <<event, context, test_events>>
         \/ /\ event' = F!NoEvent
            /\ SameRuns(Recorded', Recorded) /\ After(context') = After(context)
            /\ stack # <<>> =>
                 Head(stack) # "load" /\ F!Handle(Head(stack), event).handled
            /\ context'.exploring_from =
                 IF /\ stack # <<>> /\ Head(stack) = "explore-transitions"
                    /\ event.type = "start"
                 THEN event.state ELSE context.exploring_from
         \/ /\ event' = F!NoEvent
            /\ event.type = "load" /\ stack # <<>> /\ Head(stack) = "load"
            /\ OneRunMore(Recorded', Recorded, After(context), event.state)
            /\ After(context') = IF context.exploring_from # NoState
                                 THEN context.exploring_from ELSE event.state
            /\ context'.exploring_from = context.exploring_from
<1>1. /\ context \in F!Context /\ test_events \in Seq(F!TransitionDesc)
      /\ stack \in Seq(F!LogStates) /\ event \in GoodEvent \cup {F!NoEvent}
  BY DEF TypeInv, FilterTypes
<1>2. Recorded = RecordedIn(context, test_events) /\ Recorded' = RecordedIn(context', test_events')
  BY DEF Recorded, RecordedIn
<1>3. CASE F!Ignore
  <2>1. event' = F!NoEvent /\ stack = <<>> /\ UNCHANGED <<context, test_events>>
    BY <1>3 DEF F!Ignore
  <2>2. SameRuns(Recorded', Recorded)
    BY <2>1, <1>2 DEF SameRuns
  <2> QED
    BY <2>1, <2>2
<1>4. CASE F!Pop
  <2>1. PICK state : state = Head(stack)
    OBVIOUS
  <2>2. PICK r : r = F!Handle(state, event)
    OBVIOUS
  <2>3. stack # <<>> /\ event # F!NoEvent /\ state \in F!LogStates
    <3>1. stack # <<>> /\ event # F!NoEvent
      BY <1>4 DEF F!Pop, F!Idle
    <3> QED
      BY <1>1, <2>1, <3>1, HeadTailProperties
  <2>4. event \in GoodEvent
    BY <1>1, <2>3
  <2>5. CASE ~r.handled
    BY <1>4, <2>1, <2>2, <2>5 DEF F!Pop
  <2>6. CASE r.handled
    <3>1. /\ event' = F!NoEvent
          /\ context' = F!Update(state, event, context, test_events).c
          /\ test_events' = F!Update(state, event, context, test_events).e
      BY <1>4, <2>1, <2>2, <2>6 DEF F!Pop
    <3>2. state = "load" => event.type = "load"
      BY <2>2, <2>6 DEF F!Handle, F!LoadState, F!Unhandled, F!Result
    <3>3. CASE state = "load"
      <4>1. /\ OneRunMore(RecordedIn(context', test_events'), RecordedIn(context, test_events),
                          After(context), event.state)
            /\ After(context') = IF context.exploring_from # NoState
                                 THEN context.exploring_from ELSE event.state
            /\ context'.exploring_from = context.exploring_from
        BY <1>1, <2>3, <2>4, <3>1, <3>2, <3>3, UpdateRecords
      <4> QED
        BY <1>2, <2>1, <2>3, <3>1, <3>2, <3>3, <4>1
    <3>4. CASE state # "load"
      <4>1. /\ SameRuns(RecordedIn(context', test_events'), RecordedIn(context, test_events))
            /\ After(context') = After(context)
            /\ context'.exploring_from =
                 IF state = "explore-transitions" /\ event.type = "start"
                 THEN event.state ELSE context.exploring_from
        BY <1>1, <2>3, <2>4, <3>1, <3>4, UpdateRecords
      <4> QED
        BY <1>2, <2>1, <2>2, <2>3, <2>6, <3>1, <3>4, <4>1
    <3> QED
      BY <3>3, <3>4
  <2> QED
    BY <2>5, <2>6
<1> QED
  BY <1>3, <1>4 DEF F!Filter

SameRecord ==
  /\ SameRuns(Recorded', Recorded)
  /\ After(context') = After(context)

LoadKept ==
  /\ \/ NotLoading /\ NotLoading'
     \/ \E s \in States : Loading(s) /\ Loading(s)'
  /\ SameRecord
  /\ SameTests(tested', tested)

LoadTold ==
  /\ NotLoading
  /\ SameRecord
  /\ \E s \in States : Loading(s)' /\ OneTestMore(tested', tested, job.from, s)

LoadRecorded ==
  \E s \in States :
    /\ Loading(s) /\ NotLoading'
    /\ OneRunMore(Recorded', Recorded, After(context), s)
    /\ After(context') = IF context.exploring_from # NoState
                         THEN context.exploring_from ELSE s
    /\ SameTests(tested', tested)

\* Its line is lost, or the filter does not take it for the load of a
\* transition.
LoadMissed ==
  \E s \in States :
    /\ Loading(s) /\ NotLoading'
    /\ SameRecord
    /\ SameTests(tested', tested)
    /\ \/ lost'
       \/ /\ F!Filter
          /\ stack # <<>> =>
               Head(stack) # "load" /\ F!Handle(Head(stack), event).handled

LEMMA SameIsSame ==
  /\ UNCHANGED <<context, test_events>> => SameRecord
  /\ UNCHANGED tested => SameTests(tested', tested)
BY DEF SameRecord, SameRuns, SameTests, Recorded

LEMMA LineQuiet ==
  ASSUME NEW t \in Quiet
  PROVE  F!Line(t) \in QuietEvent
BY DEF F!Line, F!Event, GoodEvent, QuietEvent, Quiet

LEMMA OfQuiet ==
  ASSUME NEW s \in States
  PROVE  F!Of("start", s) \in QuietEvent
BY DEF F!Of, F!Event, F!EventTypes, GoodEvent, QuietEvent

LEMMA CaughtUpQuiet ==
  ASSUME LoadingInv, CaughtUp
  PROVE  NotLoading
BY DEF LoadingInv, Loading, CaughtUp, F!Idle, F!NoEvent, LoadLine

\* A line is sent.
LEMMA SendLoads ==
  ASSUME TypeInv, LoadingInv, SendOwn \/ SendLine
  PROVE  LoadKept
<1>1. /\ F!Idle /\ UNCHANGED <<context, test_events, tested>>
      /\ out \in Seq(GoodEvent) /\ say \in Seq(GoodEvent)
  BY DEF SendOwn, SendLine, F!Send, TypeInv, DrnedInv, LinesInv, OwnTypes, drned
<1>2. CASE SendOwn
  <2>1. say # <<>> /\ event' = Head(say) /\ say' = Tail(say) /\ UNCHANGED out
    BY <1>2 DEF SendOwn, F!Send, drned
  <2>2. NotLoading
    BY <2>1 DEF LoadingInv, Loading
  <2>3. Head(say) \in QuietEvent /\ Tail(say) \in Seq(QuietEvent)
    BY <2>1, <2>2, HeadTailProperties DEF NotLoading
  <2>4. NotLoading'
    BY <2>1, <2>2, <2>3 DEF NotLoading, QuietEvent
  <2> QED
    BY <1>1, <2>2, <2>4, SameIsSame DEF LoadKept
<1>3. CASE SendLine
  <2>1. /\ say = <<>> /\ out # <<>> /\ event = F!NoEvent
        /\ event' = Head(out) /\ out' = Tail(out) /\ UNCHANGED say
    BY <1>3 DEF SendLine, F!Send, F!Idle
  <2>2. CASE NotLoading
    <3>1. Head(out) \in QuietEvent /\ Tail(out) \in Seq(QuietEvent)
      BY <2>1, <2>2, HeadTailProperties DEF NotLoading
    <3>2. NotLoading'
      BY <2>1, <2>2, <3>1 DEF NotLoading, QuietEvent
    <3> QED
      BY <1>1, <2>2, <3>2, SameIsSame DEF LoadKept
  <2>3. ASSUME NEW s \in States, Loading(s)
        PROVE  LoadKept
    <3>1. PICK ev : ev = LoadLine(s)
      OBVIOUS
    <3>2. out = <<ev>>
      BY <2>1, <2>3, <3>1 DEF Loading
    <3>3. Head(out) = ev /\ Tail(out) = <<>>
      BY <3>2
    <3>4. Loading(s)'
      BY <2>1, <3>1, <3>3 DEF Loading
    <3> QED
      BY <1>1, <2>3, <3>4, SameIsSame DEF LoadKept
  <2> QED
    BY <2>2, <2>3 DEF LoadingInv
<1> QED
  BY <1>2, <1>3

LEMMA FilterLoads ==
  ASSUME TypeInv, LoadingInv, FilterStep
  PROVE  LoadKept \/ LoadRecorded \/ LoadMissed
<1>1. F!Filter /\ UNCHANGED <<out, say, tested>>
  BY DEF FilterStep, drned
<1>2. event # F!NoEvent
  BY <1>1 DEF F!Filter, F!Pop, F!Ignore, F!Idle
<1>3. SameTests(tested', tested)
  BY <1>1, SameIsSame
<1>4. F!NoEvent.type # "load"
  BY DEF F!NoEvent
<1>5. CASE UNCHANGED <<event, context, test_events>>
  <2>1. SameRecord
    BY <1>5, SameIsSame
  <2>2. (NotLoading /\ NotLoading') \/ \E s \in States : Loading(s) /\ Loading(s)'
    BY <1>1, <1>5 DEF LoadingInv, Loading, NotLoading
  <2> QED
    BY <1>3, <2>1, <2>2 DEF LoadKept
<1>6. CASE event' = F!NoEvent /\ NotLoading
  <2>1. NotLoading'
    BY <1>1, <1>4, <1>6 DEF NotLoading
  <2>2. SameRecord
    BY <1>1, <1>5, <1>6, FilterRecords, SameIsSame DEF SameRecord, NotLoading
  <2> QED
    BY <1>3, <1>6, <2>1, <2>2 DEF LoadKept
<1>7. ASSUME event' = F!NoEvent, NEW s \in States, Loading(s)
      PROVE  LoadRecorded \/ LoadMissed
  <2>1. event = LoadLine(s) /\ out = <<>> /\ say = <<>>
    BY <1>2, <1>7 DEF Loading
  <2>2. event.state = s /\ event.type = "load"
    BY <2>1 DEF LoadLine
  <2>3. NotLoading'
    BY <1>1, <1>4, <1>7, <2>1 DEF NotLoading
  <2>4. event # event'
    BY <1>2, <1>7
  <2>5. \/ /\ SameRecord
           /\ stack # <<>> =>
                Head(stack) # "load" /\ F!Handle(Head(stack), event).handled
        \/ /\ OneRunMore(Recorded', Recorded, After(context), event.state)
           /\ After(context') = IF context.exploring_from # NoState
                                THEN context.exploring_from ELSE event.state
    BY <1>1, <2>4, FilterRecords DEF SameRecord
  <2> QED
    BY <1>1, <1>3, <1>7, <2>2, <2>3, <2>5 DEF LoadRecorded, LoadMissed
<1> QED
  BY <1>1, <1>5, <1>6, <1>7, FilterRecords DEF LoadingInv

LEMMA LoseLoads ==
  ASSUME TypeInv, LoadingInv, LoseLines
  PROVE  LoadKept \/ LoadMissed
<1>1. /\ event = F!NoEvent /\ out' = <<>> /\ lost' = TRUE
      /\ UNCHANGED <<event, context, test_events, tested, say>>
  BY DEF LoseLines, F!Idle, filter
<1>2. SameRecord /\ SameTests(tested', tested)
  BY <1>1, SameIsSame
<1>3. F!NoEvent.type # "load" /\ out' \in Seq(QuietEvent)
  BY <1>1 DEF F!NoEvent
<1>4. CASE NotLoading
  BY <1>1, <1>2, <1>3, <1>4 DEF LoadKept, NotLoading
<1>5. ASSUME NEW s \in States, Loading(s)
      PROVE  LoadMissed
  <2>1. NotLoading'
    BY <1>1, <1>3, <1>5 DEF NotLoading, Loading
  <2> QED
    BY <1>1, <1>2, <1>5, <2>1 DEF LoadMissed
<1> QED
  BY <1>4, <1>5 DEF LoadingInv

LEMMA DrnedLoads ==
  ASSUME TypeInv, LoadingInv, DrnedStep
  PROVE  LoadKept \/ LoadTold
<1>1. /\ CaughtUp /\ D!Step
      /\ UNCHANGED <<event, context, test_events, say>>
  BY DEF DrnedStep, filter
<1>2. NotLoading /\ out = <<>> /\ say = <<>> /\ event = F!NoEvent
  BY <1>1, CaughtUpQuiet DEF CaughtUp, F!Idle
<1>3. SameRecord
  BY <1>1, SameIsSame
<1>4. CASE out' \in Seq(QuietEvent) /\ SameTests(tested', tested)
  <2>1. NotLoading'
    BY <1>1, <1>2, <1>4 DEF NotLoading
  <2> QED
    BY <1>2, <1>3, <1>4, <2>1 DEF LoadKept
<1>5. CASE /\ rpc = "op" /\ D!Op1.op = "load"
           /\ out' = <<LoadLine(D!Op1.state)>>
           /\ OneTestMore(tested', tested, job.from, D!Op1.state)
  <2>1. D!Op1.state \in States
    BY <1>5, Op1Good DEF TypeInv, DrnedInv, GoodOp
  <2>2. PICK s : s = D!Op1.state
    OBVIOUS
  <2>3. s \in States /\ Loading(s)' /\ OneTestMore(tested', tested, job.from, s)
    BY <1>1, <1>2, <1>5, <2>1, <2>2 DEF Loading
  <2> QED
    BY <1>2, <1>3, <2>3 DEF LoadTold
<1> QED
  BY <1>1, <1>2, <1>4, <1>5, StepTests DEF TypeInv

\* The operation itself tells no loads.
LEMMA OwnLoads ==
  ASSUME TypeInv, LoadingInv, EndInv,
         \/ NotStarted \/ BeginRun \/ EndRun \/ BeginExplore \/ SkipFailed \/ EndExplore
         \/ StartingWith \/ InitFailed \/ MakeTransition \/ EndTransition
  PROVE  LoadKept
<1>1. UNCHANGED <<event, context, test_events, tested, out>>
  BY DEF NotStarted, BeginRun, EndRun, BeginExplore, SkipFailed, EndExplore, StartingWith,
     InitFailed, MakeTransition, EndTransition, Run, D!Start, filter, drned
<1>2. SameRecord /\ SameTests(tested', tested)
  BY <1>1, SameIsSame
<1>3. NotLoading
  <2>1. CASE CaughtUp
    BY <2>1, CaughtUpQuiet
  <2>2. CASE BeginExplore
    BY <2>2 DEF BeginExplore, EndInv, LoadingInv, Loading, LoadLine
  <2> QED
    BY <2>1, <2>2 DEF NotStarted, BeginRun, EndRun, SkipFailed, EndExplore, StartingWith,
       InitFailed, MakeTransition, EndTransition, RunOver
<1>4. say' \in Seq(QuietEvent)
  <2>1. /\ "init_states" \in Quiet /\ "prepare" \in Quiet /\ "init_failed" \in Quiet
        /\ "transition" \in Quiet /\ "trans_failed" \in Quiet
    BY DEF Quiet, F!EventTypes
  <2>2. /\ F!Line("init_states") \in QuietEvent /\ F!Line("prepare") \in QuietEvent
        /\ F!Line("init_failed") \in QuietEvent /\ F!Line("transition") \in QuietEvent
        /\ F!Line("trans_failed") \in QuietEvent
    BY <2>1, LineQuiet
  <2>3. /\ <<F!Line("init_states")>> \in Seq(QuietEvent)
        /\ <<F!Line("init_failed")>> \in Seq(QuietEvent)
        /\ <<F!Line("transition")>> \in Seq(QuietEvent)
        /\ <<F!Line("transition"), F!Line("prepare")>> \in Seq(QuietEvent)
        /\ <<F!Line("trans_failed")>> \in Seq(QuietEvent)
    BY <2>2
  <2>4. say \in Seq(QuietEvent)
    BY <1>3 DEF NotLoading
  <2>5. CASE StartingWith
    <3>1. say' = <<F!Of("start", from), F!Line("prepare")>> /\ pairs # <<>>
      BY <2>5 DEF StartingWith
    <3>2. F!Of("start", from) \in QuietEvent
      BY <3>1, PairTypes, OfQuiet DEF TypeInv
    <3> QED
      BY <2>2, <3>1, <3>2
  <2>6. CASE NotStarted
    <3>1. \/ say' = <<>>
          \/ say' = <<F!Line("transition")>>
          \/ from \in States /\ say' = <<F!Of("start", from)>>
      BY <2>6, NotStartedSays DEF TypeInv
    <3>2. PICK ev : ev = F!Line("transition")
      OBVIOUS
    <3>3. PICK f : f = F!Of("start", from)
      OBVIOUS
    <3>4. from \in States => f \in QuietEvent
      BY <3>3, OfQuiet
    <3>5. <<>> \in Seq(QuietEvent)
      OBVIOUS
    <3>6. <<ev>> \in Seq(QuietEvent)
      BY <2>3, <3>2, Zenon
    <3>7. from \in States => <<f>> \in Seq(QuietEvent)
      BY <3>4
    <3> QED
      BY <3>1, <3>2, <3>3, <3>5, <3>6, <3>7, Zenon
  <2>7. \/ say' = say \/ say' = <<F!Line("init_states")>> \/ say' = <<F!Line("init_failed")>>
        \/ say' = <<F!Line("transition"), F!Line("prepare")>>
        \/ say' = <<F!Line("trans_failed")>> \/ StartingWith \/ NotStarted
    BY DEF BeginRun, EndRun, BeginExplore, SkipFailed, EndExplore,
       InitFailed, MakeTransition, EndTransition
  <2> QED
    BY <2>3, <2>4, <2>5, <2>6, <2>7
<1> QED
  BY <1>1, <1>2, <1>3, <1>4 DEF LoadKept, NotLoading

LEMMA EndLoads ==
  ASSUME TypeInv, LoadingInv, Terminate \/ Close \/ Store \/ UNCHANGED vars
  PROVE  LoadKept
<1>1. CASE Terminate
  <2>1. /\ CaughtUp /\ event' = F!Line("terminate")
        /\ UNCHANGED <<context, test_events, out, say, tested>>
    BY <1>1 DEF Terminate, F!Send, drned
  <2>2. NotLoading /\ NotLoading'
    BY <2>1, CaughtUpQuiet DEF NotLoading, F!Line
  <2> QED
    BY <2>1, <2>2, SameIsSame DEF LoadKept
<1>2. CASE Close
  <2>1. /\ CaughtUp /\ UNCHANGED <<event, out, say, tested>>
        /\ context' = F!Complete(context, test_events, "none").c
        /\ test_events' = F!Complete(context, test_events, "none").e
    BY <1>2 DEF Close, F!CloseContext, drned
  <2>2. NotLoading /\ NotLoading'
    BY <2>1, CaughtUpQuiet DEF NotLoading
  <2>3. SameRecord
    <3>1. "none" \in F!Failure /\ context \in F!Context /\ test_events \in Seq(F!TransitionDesc)
      BY DEF TypeInv, FilterTypes, F!Failure
    <3>2. /\ context'.to = NoState /\ context'.state = After(context)
          /\ SameRuns(test_events', RecordedIn(context, test_events))
      BY <2>1, <3>1, CompleteRecords
    <3> QED
      BY <3>2 DEF SameRecord, Recorded, RecordedIn, After
  <2> QED
    BY <2>1, <2>2, <2>3, SameIsSame DEF LoadKept
<1>3. CASE Store \/ UNCHANGED vars
  <2>1. UNCHANGED <<event, context, test_events, out, say, tested>>
    BY <1>3 DEF Store, vars, filter, drned
  <2>2. (NotLoading /\ NotLoading') \/ \E s \in States : Loading(s) /\ Loading(s)'
    BY <2>1 DEF LoadingInv, Loading, NotLoading
  <2> QED
    BY <2>1, <2>2, SameIsSame DEF LoadKept
<1> QED
  BY <1>1, <1>2, <1>3

\* What any step does to a load on its way.
LEMMA LoadSteps ==
  ASSUME TypeInv, LoadingInv, EndInv, [Next]_vars
  PROVE  LoadKept \/ LoadTold \/ LoadRecorded \/ LoadMissed
BY SendLoads, FilterLoads, LoseLoads, DrnedLoads, OwnLoads, EndLoads DEF Next

LEMMA LoadingNext ==
  ASSUME TypeInv, LoadingInv, EndInv, [Next]_vars
  PROVE  LoadingInv'
BY LoadSteps DEF LoadingInv, LoadKept, LoadTold, LoadRecorded, LoadMissed

LEMMA EndNext ==
  ASSUME TypeInv, EndInv, [Next]_vars
  PROVE  EndInv'
<1>1. CASE SendOwn \/ SendLine
  <2>1. UNCHANGED <<tpc, rpc, stored, test_events>>
    BY <1>1 DEF SendOwn, SendLine, F!Send, drned
  <2>2. tpc \notin {"begin", "store", "done"}
    BY <1>1 DEF EndInv, SendOwn, SendLine, CaughtUp
  <2> QED
    BY <2>1, <2>2 DEF EndInv
<1>2. CASE FilterStep
  <2>1. /\ UNCHANGED <<tpc, rpc, stored, out, say, tested>> /\ event # F!NoEvent
        /\ event' = event \/ event' = F!NoEvent
    BY <1>2 DEF FilterStep, F!Filter, F!Pop, F!Ignore, F!Idle, drned
  <2>2. tpc \notin {"store", "done"} /\ ~stored.stored
    BY <2>1 DEF EndInv, CaughtUp, F!Idle
  <2>3. F!NoEvent.type # "load"
    BY DEF F!NoEvent
  <2> QED
    BY <2>1, <2>2, <2>3 DEF EndInv
<1>3. CASE LoseLines
  <2>1. /\ UNCHANGED <<tpc, rpc, stored, say, tested, event, context, test_events>>
        /\ out' = <<>>
    BY <1>3 DEF LoseLines, filter
  <2> QED
    BY <2>1 DEF EndInv, CaughtUp, F!Idle
<1>4. CASE DrnedStep
  <2>1. UNCHANGED <<tpc, stored, test_events>>
    BY <1>4 DEF DrnedStep, filter
  <2>2. rpc # "idle"
    BY <1>4 DEF DrnedStep, D!Step, D!Prepare, D!BeginSet, D!EndSets, D!Load, D!CommitSucceeds,
       D!QueueItemFails, D!CommitAborted, D!Compare, D!RollBack, D!Interrupted,
       D!RestoreAfterSet, D!RestoreAtEnd, D!Killed
  <2>3. tpc \notin {"begin", "next", "terminate", "close", "store", "done"}
    BY <2>2 DEF EndInv
  <2> QED
    BY <2>1, <2>3 DEF EndInv
<1>5. CASE NotStarted \/ EndRun \/ EndExplore
  <2>1. /\ tpc' = "terminate" /\ rpc' = "idle" /\ UNCHANGED stored /\ tpc \notin {"store", "done"}
    BY <1>5 DEF NotStarted, EndRun, EndExplore, Finish, RunOver, drned
  <2> QED
    BY <2>1 DEF EndInv
<1>6. CASE BeginRun \/ StartingWith \/ MakeTransition
  <2>1. /\ tpc' \in {"running", "initialize", "transition"} /\ UNCHANGED stored
        /\ tpc \notin {"store", "done"}
    BY <1>6 DEF BeginRun, StartingWith, MakeTransition
  <2> QED
    BY <2>1 DEF EndInv
<1>7. CASE BeginExplore
  <2>1. /\ tpc = "begin" /\ tpc' \in {"next", "terminate"} /\ UNCHANGED <<stored, rpc>>
    BY <1>7 DEF BeginExplore, Finish, drned
  <2> QED
    BY <2>1 DEF EndInv
<1>8. CASE SkipFailed \/ InitFailed \/ EndTransition
  <2>1. /\ tpc' = "next" /\ rpc = "idle" /\ UNCHANGED <<stored, rpc>>
        /\ tpc \notin {"store", "done"}
    BY <1>8 DEF SkipFailed, InitFailed, EndTransition, RunOver, drned
  <2> QED
    BY <2>1 DEF EndInv
<1>9. CASE Terminate
  <2>1. /\ tpc = "terminate" /\ tpc' = "close" /\ UNCHANGED <<stored, rpc>>
    BY <1>9 DEF Terminate, drned
  <2> QED
    BY <2>1 DEF EndInv
<1>10. CASE Close
  <2>1. /\ tpc = "close" /\ tpc' \in {"store", "done"} /\ CaughtUp
        /\ UNCHANGED <<stored, rpc, out, say, event>>
        /\ context' = F!Complete(context, test_events, "none").c
    BY <1>10 DEF Close, F!CloseContext, drned
  <2>2. context'.to = NoState
    <3>1. "none" \in F!Failure /\ context \in F!Context /\ test_events \in Seq(F!TransitionDesc)
      BY DEF TypeInv, FilterTypes, F!Failure
    <3> QED
      BY <2>1, <3>1, CompleteRecords
  <2>3. CaughtUp'
    BY <2>1 DEF CaughtUp, F!Idle
  <2> QED
    BY <2>1, <2>2, <2>3 DEF EndInv
<1>11. CASE Store
  <2>1. /\ tpc = "store" /\ tpc' = "done" /\ stored'.events = test_events
        /\ UNCHANGED <<rpc, out, say, event, context, test_events>>
    BY <1>11 DEF Store, Stored, filter, drned
  <2> QED
    BY <2>1 DEF EndInv, CaughtUp, F!Idle
<1>12. CASE UNCHANGED vars
  BY <1>12 DEF EndInv, CaughtUp, F!Idle, vars, filter, drned
<1> QED
  BY <1>1, <1>2, <1>3, <1>4, <1>5, <1>6, <1>7, <1>8, <1>9, <1>10, <1>11, <1>12 DEF Next

----------------------------------------------------------------------------
(* Nothing is made up: the record is a part of what DrNED went through     *)

\* p goes on in q, up to its n-th transition.
PartUpTo(p, q, n) ==
  \E f \in [1..Len(p) -> 1..n] :
    /\ \A i, j \in 1..Len(p) : i < j => f[i] < f[j]
    /\ \A i \in 1..Len(p) : p[i].to = q[f[i]].to

\* Up to the last load, unless its line is still on its way.
PartInv ==
  \/ NotLoading /\ PartUpTo(Recorded, tested, Len(tested))
  \/ \E s \in States :
       /\ Loading(s) /\ Len(tested) > 0 /\ tested[Len(tested)].to = s
       /\ PartUpTo(Recorded, tested, Len(tested) - 1)

LEMMA PartSame ==
  ASSUME NEW p, NEW p2, NEW q, NEW q2, NEW n \in Nat, n <= Len(q),
         Len(p) \in Nat, Len(q) \in Nat,
         SameRuns(p2, p), SameTests(q2, q), PartUpTo(p, q, n)
  PROVE  PartUpTo(p2, q2, n)
<1>1. PICK f \in [1..Len(p) -> 1..n] :
        /\ \A i, j \in 1..Len(p) : i < j => f[i] < f[j]
        /\ \A i \in 1..Len(p) : p[i].to = q[f[i]].to
  BY DEF PartUpTo
<1>2. Len(p2) = Len(p)
  BY DEF SameRuns
<1>3. ASSUME NEW i \in 1..Len(p)
      PROVE  p2[i].to = q2[f[i]].to
  <2>1. f[i] \in 1..Len(q)
    BY <1>1
  <2> QED
    BY <1>1, <2>1 DEF SameRuns, SameTests
<1>4. PICK l : l = Len(p) /\ l = Len(p2)
  BY <1>2
<1>5. f \in [1..l -> 1..n]
  BY <1>1, <1>4
<1>6. \A i, j \in 1..l : i < j => f[i] < f[j]
  BY <1>1, <1>4
<1>7. \A i \in 1..l : p2[i].to = q2[f[i]].to
  BY <1>3, <1>4
<1> QED
  BY <1>4, <1>5, <1>6, <1>7 DEF PartUpTo

LEMMA PartOn ==
  ASSUME NEW p, NEW q, NEW n \in Nat, NEW m \in Nat, n <= m, PartUpTo(p, q, n)
  PROVE  PartUpTo(p, q, m)
<1>1. PICK f \in [1..Len(p) -> 1..n] :
        /\ \A i, j \in 1..Len(p) : i < j => f[i] < f[j]
        /\ \A i \in 1..Len(p) : p[i].to = q[f[i]].to
  BY DEF PartUpTo
<1>2. f \in [1..Len(p) -> 1..m]
  BY <1>1
<1> QED
  BY <1>1, <1>2 DEF PartUpTo

LEMMA PartMore ==
  ASSUME NEW p, NEW p2, NEW q, NEW n \in Nat, NEW g, NEW s, Len(p) \in Nat,
         PartUpTo(p, q, n), OneRunMore(p2, p, g, s), q[n + 1].to = s
  PROVE  PartUpTo(p2, q, n + 1)
<1>1. PICK f \in [1..Len(p) -> 1..n] :
        /\ \A i, j \in 1..Len(p) : i < j => f[i] < f[j]
        /\ \A i \in 1..Len(p) : p[i].to = q[f[i]].to
  BY DEF PartUpTo
<1>2. PICK l : l = Len(p)
  OBVIOUS
<1>3. l \in Nat /\ Len(p2) = l + 1
  BY <1>2 DEF OneRunMore
<1>4. PICK h : h = [i \in 1..(l + 1) |-> IF i = l + 1 THEN n + 1 ELSE f[i]]
  OBVIOUS
<1>5. h \in [1..(l + 1) -> 1..(n + 1)]
  <2>1. ASSUME NEW i \in 1..(l + 1)
        PROVE  (IF i = l + 1 THEN n + 1 ELSE f[i]) \in 1..(n + 1)
    <3>1. i # l + 1 => f[i] \in 1..n
      BY <1>1, <1>2, <1>3
    <3> QED
      BY <3>1
  <2> QED
    BY <1>4, <2>1
<1>6. ASSUME NEW i \in 1..(l + 1), NEW j \in 1..(l + 1), i < j
      PROVE  h[i] < h[j]
  <2>1. i \in 1..l /\ h[i] = f[i] /\ f[i] \in 1..n
    BY <1>1, <1>2, <1>3, <1>4, <1>6
  <2>2. CASE j = l + 1
    <3>1. h[j] = n + 1
      BY <1>4, <2>2
    <3> QED
      BY <2>1, <3>1
  <2>3. CASE j # l + 1
    <3>1. j \in 1..l /\ h[j] = f[j]
      BY <1>3, <1>4, <2>3
    <3> QED
      BY <1>1, <1>2, <1>6, <2>1, <3>1
  <2> QED
    BY <2>2, <2>3
<1>7. ASSUME NEW i \in 1..(l + 1)
      PROVE  p2[i].to = q[h[i]].to
  <2>1. CASE i = l + 1
    <3>1. h[i] = n + 1
      BY <1>4, <2>1
    <3> QED
      BY <1>2, <2>1, <3>1 DEF OneRunMore
  <2>2. CASE i # l + 1
    <3>1. i \in 1..l /\ h[i] = f[i]
      BY <1>3, <1>4, <2>2
    <3> QED
      BY <1>1, <1>2, <3>1 DEF OneRunMore
  <2> QED
    BY <2>1, <2>2
<1> QED
  BY <1>3, <1>5, <1>6, <1>7 DEF PartUpTo

LEMMA RecordedSeq ==
  ASSUME TypeInv
  PROVE  /\ Recorded \in Seq(F!TransitionDesc) /\ Len(Recorded) \in Nat
         /\ tested \in Seq(D!Tested) /\ Len(tested) \in Nat
<1>1. context \in F!Context /\ test_events \in Seq(F!TransitionDesc)
  BY DEF TypeInv, FilterTypes
<1>2. Recorded = RecordedIn(context, test_events)
  BY DEF Recorded, RecordedIn
<1>3. Recorded \in Seq(F!TransitionDesc)
  BY <1>1, <1>2, RecordedTypes
<1>4. tested \in Seq(D!Tested)
  BY DEF TypeInv, DrnedInv, LinesInv
<1> QED
  BY <1>3, <1>4

\* Only one load is on its way.
LEMMA OneLoading ==
  ASSUME NEW s, NEW u, Loading(s), Loading(u)
  PROVE  s = u
<1>1. LoadLine(s) = LoadLine(u)
  BY DEF Loading, LoadLine, F!NoEvent
<1>2. LoadLine(s).state = s /\ LoadLine(u).state = u
  BY DEF LoadLine
<1> QED
  BY <1>1, <1>2

LEMMA LoadingOrNot ==
  ASSUME NEW s, Loading(s)
  PROVE  ~NotLoading
BY DEF Loading, NotLoading, LoadLine, QuietEvent

LEMMA PartInit ==
  ASSUME Init
  PROVE  LoadingInv /\ EndInv /\ PartInv
<1>1. /\ say = <<>> /\ out = <<>> /\ tested = <<>> /\ rpc = "idle" /\ tpc = "begin"
      /\ stored = NotStored /\ test_events = <<>> /\ context = F!NewContext
      /\ event = F!NoEvent \/ event = F!Line("initial_prepare")
  BY DEF Init, D!Init, F!InitFilter
<1>2. event.type # "load"
  BY <1>1 DEF F!NoEvent, F!Line
<1>3. NotLoading
  BY <1>1, <1>2 DEF NotLoading
<1>4. EndInv
  BY <1>1, <1>2 DEF EndInv, NotStored
<1>5. Recorded = <<>>
  BY <1>1 DEF Recorded, F!NewContext
<1>6. PartUpTo(Recorded, tested, Len(tested))
  <2>1. PICK f : f = [i \in 1..Len(Recorded) |-> 1]
    OBVIOUS
  <2>2. 1..Len(Recorded) = {} /\ Len(tested) = 0
    BY <1>1, <1>5
  <2>3. f \in [1..Len(Recorded) -> 1..Len(tested)]
    BY <2>1, <2>2
  <2> QED
    BY <2>2, <2>3 DEF PartUpTo
<1> QED
  BY <1>3, <1>4, <1>6 DEF LoadingInv, PartInv

LEMMA PartNext ==
  ASSUME TypeInv, TypeInv', LoadingInv, EndInv, PartInv, [Next]_vars
  PROVE  PartInv'
<1>0. PICK p, q, n : p = Recorded /\ q = tested /\ n = Len(tested)
  OBVIOUS
<1>1. PICK p2, q2 : p2 = Recorded' /\ q2 = tested'
  OBVIOUS
<1>2. /\ Len(p) \in Nat /\ n \in Nat /\ n = Len(q)
      /\ Len(p2) \in Nat /\ Len(q2) \in Nat
  BY <1>0, <1>1, RecordedSeq
<1>3. CASE LoadKept
  <2>1. SameRuns(p2, p) /\ SameTests(q2, q) /\ Len(q2) = n
    BY <1>0, <1>1, <1>3 DEF LoadKept, SameRecord, SameTests
  <2>2. CASE NotLoading /\ NotLoading'
    <3>1. PartUpTo(p, q, n)
      BY <1>0, <2>2, LoadingOrNot DEF PartInv
    <3>2. PartUpTo(p2, q2, n)
      BY <1>2, <2>1, <3>1, PartSame
    <3> QED
      BY <1>1, <2>1, <2>2, <3>2 DEF PartInv
  <2>3. ASSUME NEW s \in States, Loading(s), Loading(s)'
        PROVE  PartInv'
    <3>1. n > 0 /\ q[n].to = s /\ PartUpTo(p, q, n - 1)
      BY <1>0, <2>3, LoadingOrNot, OneLoading DEF PartInv
    <3>2. PartUpTo(p2, q2, n - 1)
      BY <1>2, <2>1, <3>1, PartSame
    <3>3. q2[n].to = s
      BY <1>2, <2>1, <3>1 DEF SameTests
    <3> QED
      BY <1>1, <2>1, <2>3, <3>1, <3>2, <3>3 DEF PartInv
  <2> QED
    BY <1>3, <2>2, <2>3 DEF LoadKept
<1>4. CASE LoadTold
  <2>1. PICK s \in States : Loading(s)' /\ OneTestMore(q2, q, job.from, s)
    BY <1>0, <1>1, <1>4 DEF LoadTold
  <2>2. SameRuns(p2, p) /\ NotLoading
    BY <1>0, <1>1, <1>4 DEF LoadTold, SameRecord
  <2>3. PartUpTo(p, q, n)
    BY <1>0, <2>2, LoadingOrNot DEF PartInv
  <2>4. Len(q2) = n + 1 /\ q2[n + 1].to = s
    BY <1>2, <2>1 DEF OneTestMore
  <2>5. PartUpTo(p2, q2, n)
    <3>1. PICK f \in [1..Len(p) -> 1..n] :
            /\ \A i, j \in 1..Len(p) : i < j => f[i] < f[j]
            /\ \A i \in 1..Len(p) : p[i].to = q[f[i]].to
      BY <2>3 DEF PartUpTo
    <3>2. Len(p2) = Len(p)
      BY <2>2 DEF SameRuns
    <3>3. ASSUME NEW i \in 1..Len(p)
          PROVE  p2[i].to = q2[f[i]].to
      <4>1. f[i] \in 1..n
        BY <3>1
      <4> QED
        BY <1>2, <2>1, <2>2, <3>1, <4>1 DEF SameRuns, OneTestMore
    <3> QED
      BY <3>1, <3>2, <3>3 DEF PartUpTo
  <2>6. Len(q2) > 0 /\ Len(q2) - 1 = n
    BY <1>2, <2>4
  <2> QED
    BY <1>1, <2>1, <2>4, <2>5, <2>6 DEF PartInv
<1>5. CASE LoadRecorded
  <2>1. PICK s \in States :
          /\ Loading(s) /\ NotLoading'
          /\ OneRunMore(p2, p, After(context), s)
          /\ SameTests(q2, q)
    BY <1>0, <1>1, <1>5 DEF LoadRecorded
  <2>2. n > 0 /\ q[n].to = s /\ PartUpTo(p, q, n - 1)
    BY <1>0, <2>1, LoadingOrNot, OneLoading DEF PartInv
  <2>3. Len(q2) = n
    BY <1>2, <2>1 DEF SameTests
  <2>4. n - 1 \in Nat /\ (n - 1) + 1 = n
    BY <1>2, <2>2
  <2>5. PICK m : m = n - 1
    OBVIOUS
  <2>6. m \in Nat /\ q[m + 1].to = s /\ PartUpTo(p, q, m)
    BY <2>2, <2>4, <2>5
  <2>7. PartUpTo(p2, q, m + 1)
    BY <1>2, <2>1, <2>6, PartMore
  <2>8. PartUpTo(p2, q, n) /\ SameRuns(p2, p2)
    BY <2>4, <2>5, <2>7 DEF SameRuns
  <2>9. PartUpTo(p2, q2, n)
    BY <1>2, <2>1, <2>8, PartSame
  <2> QED
    BY <1>1, <2>1, <2>3, <2>9 DEF PartInv
<1>6. CASE LoadMissed
  <2>1. PICK s \in States : Loading(s) /\ NotLoading'
    BY <1>6 DEF LoadMissed
  <2>2. SameRuns(p2, p) /\ SameTests(q2, q)
    BY <1>0, <1>1, <1>6 DEF LoadMissed, SameRecord
  <2>3. n > 0 /\ PartUpTo(p, q, n - 1)
    BY <1>0, <2>1, LoadingOrNot, OneLoading DEF PartInv
  <2>4. Len(q2) = n /\ n - 1 \in Nat /\ n - 1 <= n
    BY <1>2, <2>2, <2>3 DEF SameTests
  <2>5. PartUpTo(p, q, n)
    BY <1>2, <2>3, <2>4, PartOn
  <2>6. PartUpTo(p2, q2, n)
    BY <1>2, <2>2, <2>5, PartSame
  <2> QED
    BY <1>1, <2>1, <2>4, <2>6 DEF PartInv
<1> QED
  BY <1>3, <1>4, <1>5, <1>6, LoadSteps

RecordInv == TypeInv /\ LoadingInv /\ EndInv /\ PartInv

LEMMA RecordInvariant == Spec => []RecordInv
<1>1. Init => RecordInv
  BY InitTypes, PartInit DEF RecordInv
<1>2. RecordInv /\ [Next]_vars => RecordInv'
  <2> SUFFICES ASSUME RecordInv, [Next]_vars PROVE RecordInv'
    OBVIOUS
  <2>1. TypeInv'
    BY NextTypes DEF RecordInv
  <2> QED
    BY <2>1, LoadingNext, EndNext, PartNext DEF RecordInv
<1> QED
  BY <1>1, <1>2, PTL DEF Spec

LEMMA StoredIsPart ==
  ASSUME RecordInv, tpc = "done", stored.stored
  PROVE  PartOf(stored.events, tested)
<1>1. PICK p, q : p = stored.events /\ q = tested
  OBVIOUS
<1>2. p = Recorded
  BY <1>1 DEF RecordInv, EndInv, Recorded
<1>3. NotLoading
  BY CaughtUpQuiet DEF RecordInv, EndInv
<1>4. PartUpTo(p, q, Len(q))
  BY <1>1, <1>2, <1>3, LoadingOrNot DEF RecordInv, PartInv
<1>5. DOMAIN p = 1..Len(p) /\ DOMAIN q = 1..Len(q)
  <2>1. p \in Seq(F!TransitionDesc) /\ q \in Seq(D!Tested)
    BY <1>1, <1>2, RecordedSeq DEF RecordInv
  <2> QED
    BY <2>1
<1>6. PartOf(p, q)
  BY <1>4, <1>5 DEF PartUpTo, PartOf
<1> QED
  BY <1>1, <1>6

\* Whatever DrNED does, and whatever of its output is lost or not understood,
\* for each of the three actions: what last-test-results holds is a part of
\* what DrNED went through, in its order: no transition is made up, none comes
\* twice, and none is put before an earlier one.
THEOREM NothingMadeUp ==
  Spec => [](tpc = "done" /\ stored.stored => PartOf(stored.events, tested))
BY RecordInvariant, StoredIsPart, PTL

----------------------------------------------------------------------------
(* Sequences, built from the front                                         *)

Push(x, q) == <<x>> \o q

LEMMA PushFacts ==
  ASSUME NEW S, NEW x \in S, NEW q \in Seq(S)
  PROVE  /\ Push(x, q) \in Seq(S) /\ Push(x, q) # <<>>
         /\ Head(Push(x, q)) = x /\ Tail(Push(x, q)) = q
<1>1. <<x>> \in Seq(S) /\ Len(<<x>>) = 1
  OBVIOUS
<1>2. PICK p : p = Push(x, q)
  OBVIOUS
<1>3. p \in Seq(S) /\ Len(p) = Len(q) + 1 /\ Len(q) \in Nat
  BY <1>1, <1>2, ConcatProperties DEF Push
<1>4. p[1] = x /\ \A i \in 1..Len(q) : p[i + 1] = q[i]
  BY <1>1, <1>2, <1>3, ConcatProperties DEF Push
<1>5. p # <<>> /\ Head(p) = x
  BY <1>3, <1>4
<1>6. Tail(p) \in Seq(S) /\ Len(Tail(p)) = Len(q) /\ \A i \in 1..Len(q) : Tail(p)[i] = q[i]
  BY <1>3, <1>4, <1>5, HeadTailProperties
<1> QED
  BY <1>2, <1>3, <1>5, <1>6, SeqEqual

\* Log states and types of events, and sequences of them
Word == F!LogStates \cup F!EventTypes
Text == Seq(Word)

LEMMA PushText ==
  ASSUME NEW x \in Word, NEW q \in Text
  PROVE  Push(x, q) \in Text
BY PushFacts DEF Text

LEMMA EmptyText == <<>> \in Text
BY DEF Text

LEMMA TextConcat ==
  ASSUME NEW p \in Text, NEW q \in Text
  PROVE  p \o q \in Text
BY DEF Text

LEMMA TextAssoc ==
  ASSUME NEW p \in Text, NEW q \in Text, NEW st \in Text
  PROVE  (p \o q) \o st = p \o (q \o st)
BY ConcatAssociative DEF Text

LEMMA PushConcat ==
  ASSUME NEW x \in Word, NEW p \in Text, NEW q \in Text
  PROVE  Push(x, p) \o q = Push(x, p \o q)
<1>1. <<x>> \in Text
  BY DEF Text
<1> QED
  BY <1>1, TextAssoc DEF Push

Extends(r, x, p) == /\ Len(r) = Len(p) + 1
                    /\ r[1] = x
                    /\ \A i \in 1..Len(p) : r[i + 1] = p[i]

LEMMA PushIs ==
  ASSUME NEW x \in Word, NEW p \in Text, NEW r \in Text, Extends(r, x, p)
  PROVE  r = Push(x, p)
<1>1. <<x>> \in Text /\ Len(<<x>>) = 1 /\ Len(p) \in Nat
  BY DEF Text
<1>2. PICK q : q = Push(x, p)
  OBVIOUS
<1>3. q \in Text /\ Len(q) = Len(r)
  BY <1>1, <1>2, ConcatProperties DEF Push, Extends, Text
<1>4. ASSUME NEW i \in 1..Len(r)
      PROVE  q[i] = r[i]
  <2>1. q[i] = IF i <= 1 THEN <<x>>[i] ELSE p[i - 1]
    BY <1>1, <1>2, <1>4, ConcatProperties DEF Push, Text, Extends
  <2>2. CASE i = 1
    BY <2>1, <2>2 DEF Extends
  <2>3. CASE i # 1
    <3>1. i - 1 \in 1..Len(p) /\ (i - 1) + 1 = i
      BY <1>1, <2>3 DEF Extends
    <3> QED
      BY <2>1, <2>3, <3>1 DEF Extends
  <2> QED
    BY <2>2, <2>3
<1> QED
  BY <1>2, <1>3, <1>4, SeqEqual DEF Text

\* What is put before st, one by one
LEMMA PushMore ==
  ASSUME NEW x \in Word, NEW p \in Text, NEW r \in Text, NEW st \in Text, Extends(r, x, p)
  PROVE  r \o st = Push(x, p \o st)
<1>1. r = Push(x, p)
  BY PushIs
<1> QED
  BY <1>1, PushConcat

LEMMA Push1 ==
  ASSUME NEW x1 \in Word, NEW st \in Text
  PROVE  <<x1>> \o st = Push(x1, st)
BY DEF Push

LEMMA Push0 ==
  ASSUME NEW st \in Text
  PROVE  <<>> \o st = st /\ st \o <<>> = st
BY ConcatEmptySeq DEF Text

LEMMA Push2 ==
  ASSUME NEW x1 \in Word, NEW x2 \in Word, NEW st \in Text
  PROVE  <<x1, x2>> \o st = Push(x1, Push(x2, st))
<1>1. PICK r, p : r = <<x1, x2>> /\ p = <<x2>>
  OBVIOUS
<1>2. r \in Text /\ p \in Text
  BY <1>1 DEF Text
<1>3. Extends(r, x1, p)
  <2>1. \A i \in 1..Len(p) : r[i + 1] = p[i]
    BY <1>1
  <2> QED
    BY <1>1, <2>1 DEF Extends
<1>4. p \o st = Push(x2, st)
  BY <1>1, Push1
<1>5. r \o st = Push(x1, p \o st)
  BY <1>2, <1>3, PushMore
<1> QED
  BY <1>1, <1>4, <1>5

LEMMA Push3 ==
  ASSUME NEW x1 \in Word, NEW x2 \in Word, NEW x3 \in Word, NEW st \in Text
  PROVE  <<x1, x2, x3>> \o st = Push(x1, Push(x2, Push(x3, st)))
<1>1. PICK r, p : r = <<x1, x2, x3>> /\ p = <<x2, x3>>
  OBVIOUS
<1>2. r \in Text /\ p \in Text
  BY <1>1 DEF Text
<1>3. Extends(r, x1, p)
  <2>1. \A i \in 1..Len(p) : r[i + 1] = p[i]
    BY <1>1
  <2> QED
    BY <1>1, <2>1 DEF Extends
<1>4. p \o st = Push(x2, Push(x3, st))
  BY <1>1, Push2
<1>5. r \o st = Push(x1, p \o st)
  BY <1>2, <1>3, PushMore
<1> QED
  BY <1>1, <1>4, <1>5

LEMMA Push4 ==
  ASSUME NEW x1 \in Word, NEW x2 \in Word, NEW x3 \in Word, NEW x4 \in Word, NEW st \in Text
  PROVE  <<x1, x2, x3, x4>> \o st = Push(x1, Push(x2, Push(x3, Push(x4, st))))
<1>1. PICK r, p : r = <<x1, x2, x3, x4>> /\ p = <<x2, x3, x4>>
  OBVIOUS
<1>2. r \in Text /\ p \in Text
  BY <1>1 DEF Text
<1>3. Extends(r, x1, p)
  <2>1. \A i \in 1..Len(p) : r[i + 1] = p[i]
    BY <1>1
  <2> QED
    BY <1>1, <2>1 DEF Extends
<1>4. p \o st = Push(x2, Push(x3, Push(x4, st)))
  BY <1>1, Push3
<1>5. r \o st = Push(x1, p \o st)
  BY <1>2, <1>3, PushMore
<1> QED
  BY <1>1, <1>4, <1>5

\* Tuples of words
LEMMA Words2 ==
  \A x1, x2 \in Word : <<x1, x2>> = Push(x1, Push(x2, <<>>))
<1> SUFFICES ASSUME NEW x1 \in Word, NEW x2 \in Word
             PROVE  <<x1, x2>> = Push(x1, Push(x2, <<>>))
  OBVIOUS
<1>1. <<x1, x2>> \in Text
  BY DEF Text
<1> QED
  BY <1>1, EmptyText, Push0, Push2

LEMMA Words3 ==
  \A x1, x2, x3 \in Word : <<x1, x2, x3>> = Push(x1, Push(x2, Push(x3, <<>>)))
<1> SUFFICES ASSUME NEW x1 \in Word, NEW x2 \in Word, NEW x3 \in Word
             PROVE  <<x1, x2, x3>> = Push(x1, Push(x2, Push(x3, <<>>)))
  OBVIOUS
<1>1. <<x1, x2, x3>> \in Text
  BY DEF Text
<1> QED
  BY <1>1, EmptyText, Push0, Push3

LEMMA Words4 ==
  \A x1, x2, x3, x4 \in Word : <<x1, x2, x3, x4>> = Push(x1, Push(x2, Push(x3, Push(x4, <<>>))))
<1> SUFFICES ASSUME NEW x1 \in Word, NEW x2 \in Word, NEW x3 \in Word, NEW x4 \in Word
             PROVE  <<x1, x2, x3, x4>> = Push(x1, Push(x2, Push(x3, Push(x4, <<>>))))
  OBVIOUS
<1>1. <<x1, x2, x3, x4>> \in Text
  BY DEF Text
<1> QED
  BY <1>1, EmptyText, Push0, Push4

LEMMA Push6 ==
  ASSUME NEW st \in Text,
         {"gen-prepare", "transition", "gen-trans-failed", "gen-init-failed", "teardown",
          "extended"} \subseteq Word
  PROVE  <<"gen-prepare", "transition", "gen-trans-failed", "gen-init-failed", "teardown",
           "extended">> \o st
           = Push("gen-prepare", Push("transition", Push("gen-trans-failed",
               Push("gen-init-failed", Push("teardown", Push("extended", st))))))
<1>1. PICK r, p, o :
        /\ r = <<"gen-prepare", "transition", "gen-trans-failed", "gen-init-failed",
                 "teardown", "extended">>
        /\ p = <<"transition", "gen-trans-failed", "gen-init-failed", "teardown", "extended">>
        /\ o = <<"gen-trans-failed", "gen-init-failed", "teardown", "extended">>
  OBVIOUS
<1>2. r \in Text /\ p \in Text /\ o \in Text
  BY <1>1 DEF Text
<1>3. Extends(r, "gen-prepare", p)
  <2>1. \A i \in 1..Len(p) : r[i + 1] = p[i]
    BY <1>1
  <2> QED
    BY <1>1, <2>1 DEF Extends
<1>4. Extends(p, "transition", o)
  <2>1. \A i \in 1..Len(o) : p[i + 1] = o[i]
    BY <1>1
  <2> QED
    BY <1>1, <2>1 DEF Extends
<1>5. o \o st = Push("gen-trans-failed", Push("gen-init-failed", Push("teardown", Push("extended", st))))
  BY <1>1, Push4
<1>6. r \o st = Push("gen-prepare", p \o st)
  BY <1>2, <1>3, PushMore
<1>7. p \o st = Push("transition", o \o st)
  BY <1>2, <1>4, PushMore
<1> QED
  BY <1>1, <1>5, <1>6, <1>7

Joined(p, q) == p \o q

LEMMA JoinedAssoc ==
  ASSUME NEW p \in Text, NEW q \in Text, NEW st \in Text
  PROVE  /\ Joined(p, q) \in Text
         /\ Joined(Joined(p, q), st) = Joined(p, Joined(q, st))
BY TextAssoc, TextConcat DEF Joined

LEMMA TextParts ==
  ASSUME NEW p1 \in Text, NEW p2 \in Text, NEW p3 \in Text, NEW st \in Text
  PROVE  (p1 \o p2 \o p3) \o st = p1 \o (p2 \o (p3 \o st))
<1>1. Joined(p1, p2) \in Text /\ Joined(p3, st) \in Text
  BY JoinedAssoc
<1>2. Joined(Joined(Joined(p1, p2), p3), st) = Joined(Joined(p1, p2), Joined(p3, st))
  BY <1>1, JoinedAssoc
<1>3. Joined(Joined(p1, p2), Joined(p3, st)) = Joined(p1, Joined(p2, Joined(p3, st)))
  BY <1>1, JoinedAssoc
<1> QED
  BY <1>2, <1>3 DEF Joined

----------------------------------------------------------------------------
(* The filter on its own: the lines it has still to read, the stack, the   *)
(* context, and its test events                                            *)

Turn(x) ==
  LET ev == Head(x[1])  s == Head(x[2])
      r  == F!Handle(s, ev)  d == F!Update(s, ev, x[3], x[4])
  IN IF x[2] = <<>> THEN <<Tail(x[1]), <<>>, x[3], x[4]>>
     ELSE IF r.handled THEN <<Tail(x[1]), r.expansion \o Tail(x[2]), d.c, d.e>>
     ELSE <<x[1], r.expansion \o Tail(x[2]), x[3], x[4]>>

Closed(S) == \A x \in S : x[1] # <<>> => Turn(x) \in S

\* The filter gets from x to y.
Reach(x, y) == \A S : x \in S /\ Closed(S) => y \in S

LEMMA ReachSelf ==
  ASSUME NEW x
  PROVE  Reach(x, x)
BY DEF Reach

LEMMA ReachOn ==
  ASSUME NEW x, NEW y, NEW z, Reach(x, y), Reach(y, z)
  PROVE  Reach(x, z)
BY DEF Reach

LEMMA ReachTurn ==
  ASSUME NEW x, x[1] # <<>>
  PROVE  Reach(x, Turn(x))
BY DEF Reach, Closed

\* Where it gets to is not changed by a turn.
LEMMA ReachAfterTurn ==
  ASSUME NEW x, NEW y, Reach(x, y), x[1] # <<>>, y[1] = <<>>
  PROVE  Reach(Turn(x), y)
<1> SUFFICES ASSUME NEW S, Turn(x) \in S, Closed(S)
             PROVE  y \in S
  BY DEF Reach
<1>1. Closed(S \cup {x})
  BY DEF Closed
<1>2. y \in S \cup {x}
  BY <1>1 DEF Reach
<1>3. y # x
  OBVIOUS
<1> QED
  BY <1>2, <1>3

LEMMA ReachEnd ==
  ASSUME NEW x, NEW y, Reach(x, y), x[1] = <<>>
  PROVE  y = x
<1>1. Closed({x})
  BY DEF Closed
<1> QED
  BY <1>1 DEF Reach

Events == Seq(F!TransitionDesc)
LinesLeft == Seq(GoodEvent)

\* What a log state that has handled the event does to the context: nothing;
\* it fails, starts, or explores; or an action is noted.
Does(k, ev, c, e) ==
  CASE k = "keep"  -> [c |-> c, e |-> e]
    [] k = "fail"  -> F!FailTransition(c, e)
    [] k = "load"  -> F!StartTransition(c, e, ev.state)
    [] k = "start" -> F!StartExplore(c, e, ev.state)
    [] OTHER       -> F!TransitionEvent(c, e, k)

\* The event falls through the log states that st has on top of st2.
Falls(ev, st, st2) ==
  \A q \in LinesLeft, c \in F!Context, e \in Events :
    Reach(<<Push(ev, q), st, c, e>>, <<Push(ev, q), st2, c, e>>)

\* The event is handled, and changes the context in the way of k.
Gives(ev, st, st2, k) ==
  \A q \in LinesLeft, c \in F!Context, e \in Events :
    Reach(<<Push(ev, q), st, c, e>>, <<q, st2, Does(k, ev, c, e).c, Does(k, ev, c, e).e>>)

\* The same, of any event of this type.
Drops(t, st, st2)    == \A ev \in GoodEvent : ev.type = t => Falls(ev, st, st2)
Takes(t, st, st2, k) == \A ev \in GoodEvent : ev.type = t => Gives(ev, st, st2, k)

LEMMA DropsOn ==
  ASSUME NEW t, NEW st1, NEW st2, NEW st3, Drops(t, st1, st2), Drops(t, st2, st3)
  PROVE  Drops(t, st1, st3)
<1> SUFFICES ASSUME NEW ev \in GoodEvent, ev.type = t
             PROVE  Falls(ev, st1, st3)
  BY DEF Drops
<1>1. Falls(ev, st1, st2) /\ Falls(ev, st2, st3)
  BY DEF Drops
<1> QED
  BY <1>1, ReachOn, Zenon DEF Falls

LEMMA DropsSelf ==
  ASSUME NEW t, NEW st
  PROVE  Drops(t, st, st)
BY ReachSelf DEF Drops, Falls

LEMMA TakesAfter ==
  ASSUME NEW t, NEW st1, NEW st2, NEW st3, NEW k, Drops(t, st1, st2), Takes(t, st2, st3, k)
  PROVE  Takes(t, st1, st3, k)
<1> SUFFICES ASSUME NEW ev \in GoodEvent, ev.type = t
             PROVE  Gives(ev, st1, st3, k)
  BY DEF Takes
<1>1. Falls(ev, st1, st2) /\ Gives(ev, st2, st3, k)
  BY DEF Drops, Takes
<1> QED
  BY <1>1, ReachOn, Zenon DEF Falls, Gives

\* A log state that does not handle the event, and one that does.
LEMMA Pass ==
  ASSUME NEW ev \in GoodEvent, NEW s \in Word, NEW st \in Text, NEW x, NEW st2,
         F!Handle(s, ev).handled = FALSE, F!Handle(s, ev).expansion = x, x \o st = st2
  PROVE  Falls(ev, Push(s, st), st2)
<1> SUFFICES ASSUME NEW q \in LinesLeft, NEW c \in F!Context, NEW e \in Events
             PROVE  Reach(<<Push(ev, q), Push(s, st), c, e>>, <<Push(ev, q), st2, c, e>>)
  BY DEF Falls
<1>1. PICK p, t : p = Push(ev, q) /\ t = Push(s, st)
  OBVIOUS
<1>2. Head(p) = ev /\ Tail(p) = q /\ p # <<>> /\ Head(t) = s /\ Tail(t) = st /\ t # <<>>
  BY <1>1, PushFacts DEF LinesLeft, Text
<1>3. PICK y : y = <<p, t, c, e>>
  OBVIOUS
<1>4. y[1] = p /\ y[2] = t /\ y[3] = c /\ y[4] = e
  BY <1>3
<1>5. Turn(y) = <<Push(ev, q), st2, c, e>>
  BY <1>1, <1>2, <1>4 DEF Turn
<1> QED
  BY <1>1, <1>2, <1>3, <1>4, <1>5, ReachTurn

LEMMA Take ==
  ASSUME NEW ev \in GoodEvent, NEW s \in Word, NEW st \in Text, NEW x, NEW st2, NEW k,
         F!Handle(s, ev).handled = TRUE, F!Handle(s, ev).expansion = x, x \o st = st2,
         \A c \in F!Context, e \in Events : F!Update(s, ev, c, e) = Does(k, ev, c, e)
  PROVE  Gives(ev, Push(s, st), st2, k)
<1> SUFFICES ASSUME NEW q \in LinesLeft, NEW c \in F!Context, NEW e \in Events
             PROVE  Reach(<<Push(ev, q), Push(s, st), c, e>>,
                          <<q, st2, Does(k, ev, c, e).c, Does(k, ev, c, e).e>>)
  BY DEF Gives
<1>1. PICK p, t : p = Push(ev, q) /\ t = Push(s, st)
  OBVIOUS
<1>2. Head(p) = ev /\ Tail(p) = q /\ p # <<>> /\ Head(t) = s /\ Tail(t) = st /\ t # <<>>
  BY <1>1, PushFacts DEF LinesLeft, Text
<1>3. PICK y : y = <<p, t, c, e>>
  OBVIOUS
<1>4. y[1] = p /\ y[2] = t /\ y[3] = c /\ y[4] = e
  BY <1>3
<1>5. PICK d : d = Does(k, ev, c, e)
  OBVIOUS
<1>6. F!Update(s, ev, c, e) = d
  BY <1>5
<1>7. Turn(y) = <<q, st2, d.c, d.e>>
  BY <1>1, <1>2, <1>4, <1>6 DEF Turn
<1> QED
  BY <1>1, <1>2, <1>3, <1>4, <1>5, <1>7, ReachTurn

\* Nobody is left to handle it.
LEMMA Ignored ==
  ASSUME NEW t
  PROVE  Takes(t, <<>>, <<>>, "keep")
<1> SUFFICES ASSUME NEW ev \in GoodEvent, NEW q \in LinesLeft, NEW c \in F!Context, NEW e \in Events
             PROVE  Reach(<<Push(ev, q), <<>>, c, e>>, <<q, <<>>, c, e>>)
  BY DEF Takes, Gives, Does
<1>1. PICK y : y = <<Push(ev, q), <<>>, c, e>>
  OBVIOUS
<1>2. y[1] # <<>> /\ Tail(y[1]) = q /\ y[2] = <<>> /\ y[3] = c /\ y[4] = e
  BY <1>1, PushFacts DEF LinesLeft
<1>3. Turn(y) = <<q, <<>>, c, e>>
  BY <1>2 DEF Turn
<1> QED
  BY <1>1, <1>2, <1>3, ReachTurn

----------------------------------------------------------------------------
(* What each log state makes of an event, with st below it on the stack    *)

LEMMA AtTransitionTest ==
  ASSUME NEW t, NEW st \in Text
  PROVE  Drops(t, Push("transition-test", st), Push("transition", st))
<1>1. {"transition", "transition-test"} \subseteq Word
  BY DEF Word, F!LogStates
<1>2. Drops(t, Push("transition-test", st), Push("transition", st))
  <2> SUFFICES ASSUME NEW ev \in GoodEvent, ev.type = t
               PROVE  Falls(ev, Push("transition-test", st), Push("transition", st))
    BY DEF Drops
  <2>1. PICK x : x = <<"transition">>
    OBVIOUS
  <2>2. F!Handle("transition-test", ev).handled = FALSE /\ F!Handle("transition-test", ev).expansion = x
    BY <2>1 DEF F!Handle, F!TransitionTestState, F!Result, F!Handled, F!Shown, F!Unhandled
  <2>3. x \o st = Push("transition", st)
    BY <1>1, <2>1, Push1
  <2> QED
    BY <1>1, <2>2, <2>3, Pass
<1> QED
  BY <1>2

LEMMA AtTransition ==
  ASSUME NEW t, NEW st \in Text
  PROVE  Drops(t, Push("transition", st), Push("commits", Push("load", Push("action-commit", Push("action-compare", Push("rollbacks", st))))))
<1>1. {"action-commit", "action-compare", "commits", "load", "rollbacks", "transition"} \subseteq Word
  BY DEF Word, F!LogStates
<1>2. Drops(t, Push("transition", st), Push("commits", Push("load", Push("action-commit", Push("action-compare", Push("rollbacks", st))))))
  <2> SUFFICES ASSUME NEW ev \in GoodEvent, ev.type = t
               PROVE  Falls(ev, Push("transition", st), Push("commits", Push("load", Push("action-commit", Push("action-compare", Push("rollbacks", st))))))
    BY DEF Drops
  <2>1. PICK x : x = <<"commits", "load">> \o <<"action-commit", "action-compare">> \o <<"rollbacks">>
    OBVIOUS
  <2>2. F!Handle("transition", ev).handled = FALSE /\ F!Handle("transition", ev).expansion = x
    BY <2>1 DEF F!Handle, F!TransitionState, F!CommitAction, F!Result, F!Handled, F!Shown, F!Unhandled
  <2>3. x \o st = Push("commits", Push("load", Push("action-commit", Push("action-compare", Push("rollbacks", st)))))
    <3>1. PICK p1, p2, p3 : p1 = <<"commits", "load">> /\ p2 = <<"action-commit", "action-compare">> /\ p3 = <<"rollbacks">>
      OBVIOUS
    <3>2. p1 \in Text /\ p2 \in Text /\ p3 \in Text
      BY <1>1, <3>1 DEF Text
    <3>3. x \o st = p1 \o (p2 \o (p3 \o st))
      BY <2>1, <3>1, <3>2, TextParts
    <3>4. p3 \o st = Push("rollbacks", st)
      BY <1>1, <3>1, Push1
    <3>5. Push("rollbacks", st) \in Text
      BY <1>1, PushText
    <3>6. p2 \o Push("rollbacks", st) = Push("action-commit", Push("action-compare", Push("rollbacks", st)))
      BY <1>1, <3>1, <3>5, Push2
    <3>7. Push("action-commit", Push("action-compare", Push("rollbacks", st))) \in Text
      BY <1>1, <3>5, PushText
    <3>8. p1 \o Push("action-commit", Push("action-compare", Push("rollbacks", st))) = Push("commits", Push("load", Push("action-commit", Push("action-compare", Push("rollbacks", st)))))
      BY <1>1, <3>1, <3>7, Push2
    <3> QED
      BY <3>3, <3>4, <3>6, <3>8
  <2> QED
    BY <1>1, <2>2, <2>3, Pass
<1> QED
  BY <1>2

LEMMA AtRollbacks ==
  ASSUME NEW t, NEW st \in Text
  PROVE  /\ t = "rollback" =>
              Drops(t, Push("rollbacks", st), Push("action-rollback", Push("action-commit", Push("action-compare", Push("rollbacks", st)))))
         /\ t # "rollback" => Drops(t, Push("rollbacks", st), st)
<1>1. {"action-commit", "action-compare", "action-rollback", "rollbacks"} \subseteq Word
  BY DEF Word, F!LogStates
<1>2. ASSUME t = "rollback"
      PROVE  Drops(t, Push("rollbacks", st), Push("action-rollback", Push("action-commit", Push("action-compare", Push("rollbacks", st)))))
  <2> SUFFICES ASSUME NEW ev \in GoodEvent, ev.type = t
               PROVE  Falls(ev, Push("rollbacks", st), Push("action-rollback", Push("action-commit", Push("action-compare", Push("rollbacks", st)))))
    BY DEF Drops
  <2>1. PICK x : x = <<"action-rollback">> \o <<"action-commit", "action-compare">> \o <<"rollbacks">>
    OBVIOUS
  <2>2. F!Handle("rollbacks", ev).handled = FALSE /\ F!Handle("rollbacks", ev).expansion = x
    BY <2>1, <1>2 DEF F!Handle, F!RollbacksState, F!CommitAction, F!Result, F!Handled, F!Shown, F!Unhandled
  <2>3. x \o st = Push("action-rollback", Push("action-commit", Push("action-compare", Push("rollbacks", st))))
    <3>1. PICK p1, p2, p3 : p1 = <<"action-rollback">> /\ p2 = <<"action-commit", "action-compare">> /\ p3 = <<"rollbacks">>
      OBVIOUS
    <3>2. p1 \in Text /\ p2 \in Text /\ p3 \in Text
      BY <1>1, <3>1 DEF Text
    <3>3. x \o st = p1 \o (p2 \o (p3 \o st))
      BY <2>1, <3>1, <3>2, TextParts
    <3>4. p3 \o st = Push("rollbacks", st)
      BY <1>1, <3>1, Push1
    <3>5. Push("rollbacks", st) \in Text
      BY <1>1, PushText
    <3>6. p2 \o Push("rollbacks", st) = Push("action-commit", Push("action-compare", Push("rollbacks", st)))
      BY <1>1, <3>1, <3>5, Push2
    <3>7. Push("action-commit", Push("action-compare", Push("rollbacks", st))) \in Text
      BY <1>1, <3>5, PushText
    <3>8. p1 \o Push("action-commit", Push("action-compare", Push("rollbacks", st))) = Push("action-rollback", Push("action-commit", Push("action-compare", Push("rollbacks", st))))
      BY <1>1, <3>1, <3>7, Push1
    <3> QED
      BY <3>3, <3>4, <3>6, <3>8
  <2> QED
    BY <1>1, <2>2, <2>3, Pass
<1>3. ASSUME t # "rollback"
      PROVE  Drops(t, Push("rollbacks", st), st)
  <2> SUFFICES ASSUME NEW ev \in GoodEvent, ev.type = t
               PROVE  Falls(ev, Push("rollbacks", st), st)
    BY DEF Drops
  <2>1. PICK x : x = <<>>
    OBVIOUS
  <2>2. F!Handle("rollbacks", ev).handled = FALSE /\ F!Handle("rollbacks", ev).expansion = x
    BY <2>1, <1>3 DEF F!Handle, F!RollbacksState, F!CommitAction, F!Result, F!Handled, F!Shown, F!Unhandled
  <2>3. x \o st = st
    BY <1>1, <2>1, Push0
  <2> QED
    BY <1>1, <2>2, <2>3, Pass
<1> QED
  BY <1>2, <1>3

LEMMA AtExplore ==
  ASSUME NEW t, NEW st \in Text
  PROVE  Drops(t, Push("explore", st), Push("gen-init-states", Push("explore-transitions", st)))
<1>1. {"explore", "explore-transitions", "gen-init-states"} \subseteq Word
  BY DEF Word, F!LogStates
<1>2. Drops(t, Push("explore", st), Push("gen-init-states", Push("explore-transitions", st)))
  <2> SUFFICES ASSUME NEW ev \in GoodEvent, ev.type = t
               PROVE  Falls(ev, Push("explore", st), Push("gen-init-states", Push("explore-transitions", st)))
    BY DEF Drops
  <2>1. PICK x : x = <<"gen-init-states", "explore-transitions">>
    OBVIOUS
  <2>2. F!Handle("explore", ev).handled = FALSE /\ F!Handle("explore", ev).expansion = x
    BY <2>1 DEF F!Handle, F!ExploreState, F!Result, F!Handled, F!Shown, F!Unhandled
  <2>3. x \o st = Push("gen-init-states", Push("explore-transitions", st))
    BY <1>1, <2>1, Push2
  <2> QED
    BY <1>1, <2>2, <2>3, Pass
<1> QED
  BY <1>2

LEMMA AtExploreTransitions ==
  ASSUME NEW t, NEW st \in Text
  PROVE  /\ t = "start" =>
              Takes(t, Push("explore-transitions", st), Push("gen-prepare", Push("transition", Push("extended", Push("explore-transitions", st)))), "start")
         /\ t # "start" =>
              Takes(t, Push("explore-transitions", st), Push("explore-transitions", st), "keep")
<1>1. {"explore-transitions", "extended", "gen-prepare", "transition"} \subseteq Word
  BY DEF Word, F!LogStates
<1>2. ASSUME t = "start"
      PROVE  Takes(t, Push("explore-transitions", st), Push("gen-prepare", Push("transition", Push("extended", Push("explore-transitions", st)))), "start")
  <2> SUFFICES ASSUME NEW ev \in GoodEvent, ev.type = t
               PROVE  Gives(ev, Push("explore-transitions", st), Push("gen-prepare", Push("transition", Push("extended", Push("explore-transitions", st)))), "start")
    BY DEF Takes
  <2>1. PICK x : x = <<"gen-prepare", "transition", "extended", "explore-transitions">>
    OBVIOUS
  <2>2. F!Handle("explore-transitions", ev).handled = TRUE /\ F!Handle("explore-transitions", ev).expansion = x
    BY <2>1, <1>2 DEF F!Handle, F!ExploreTransitionsState, F!Result, F!Handled, F!Shown, F!Unhandled
  <2>3. x \o st = Push("gen-prepare", Push("transition", Push("extended", Push("explore-transitions", st))))
    BY <1>1, <2>1, Push4
  <2>4. \A c \in F!Context, e \in Events : F!Update("explore-transitions", ev, c, e) = Does("start", ev, c, e)
    BY <1>2 DEF F!Update, Does
  <2> QED
    BY <1>1, <2>2, <2>3, <2>4, Take
<1>3. ASSUME t # "start"
      PROVE  Takes(t, Push("explore-transitions", st), Push("explore-transitions", st), "keep")
  <2> SUFFICES ASSUME NEW ev \in GoodEvent, ev.type = t
               PROVE  Gives(ev, Push("explore-transitions", st), Push("explore-transitions", st), "keep")
    BY DEF Takes
  <2>1. PICK x : x = <<"explore-transitions">>
    OBVIOUS
  <2>2. F!Handle("explore-transitions", ev).handled = TRUE /\ F!Handle("explore-transitions", ev).expansion = x
    BY <2>1, <1>3 DEF F!Handle, F!ExploreTransitionsState, F!Result, F!Handled, F!Shown, F!Unhandled
  <2>3. x \o st = Push("explore-transitions", st)
    BY <1>1, <2>1, Push1
  <2>4. \A c \in F!Context, e \in Events : F!Update("explore-transitions", ev, c, e) = Does("keep", ev, c, e)
    BY <1>3 DEF F!Update, Does
  <2> QED
    BY <1>1, <2>2, <2>3, <2>4, Take
<1> QED
  BY <1>2, <1>3

LEMMA AtExtended ==
  ASSUME NEW t, NEW st \in Text
  PROVE  /\ t = "init_failed" => Takes(t, Push("extended", st), st, "keep")
         /\ t = "transition" =>
              Takes(t, Push("extended", st), Push("gen-prepare", Push("transition", Push("gen-trans-failed", Push("gen-init-failed", Push("teardown", Push("extended", st)))))), "keep")
         /\ t \notin {"init_failed", "transition"} => Drops(t, Push("extended", st), st)
<1>1. {"extended", "gen-init-failed", "gen-prepare", "gen-trans-failed", "teardown", "transition"} \subseteq Word
  BY DEF Word, F!LogStates
<1>2. ASSUME t = "init_failed"
      PROVE  Takes(t, Push("extended", st), st, "keep")
  <2> SUFFICES ASSUME NEW ev \in GoodEvent, ev.type = t
               PROVE  Gives(ev, Push("extended", st), st, "keep")
    BY DEF Takes
  <2>1. PICK x : x = <<>>
    OBVIOUS
  <2>2. F!Handle("extended", ev).handled = TRUE /\ F!Handle("extended", ev).expansion = x
    BY <2>1, <1>2 DEF F!Handle, F!ExtendedTransitionsState, F!Result, F!Handled, F!Shown, F!Unhandled
  <2>3. x \o st = st
    BY <1>1, <2>1, Push0
  <2>4. \A c \in F!Context, e \in Events : F!Update("extended", ev, c, e) = Does("keep", ev, c, e)
    BY <1>2 DEF F!Update, Does
  <2> QED
    BY <1>1, <2>2, <2>3, <2>4, Take
<1>3. ASSUME t = "transition"
      PROVE  Takes(t, Push("extended", st), Push("gen-prepare", Push("transition", Push("gen-trans-failed", Push("gen-init-failed", Push("teardown", Push("extended", st)))))), "keep")
  <2> SUFFICES ASSUME NEW ev \in GoodEvent, ev.type = t
               PROVE  Gives(ev, Push("extended", st), Push("gen-prepare", Push("transition", Push("gen-trans-failed", Push("gen-init-failed", Push("teardown", Push("extended", st)))))), "keep")
    BY DEF Takes
  <2>1. PICK x : x = <<"gen-prepare", "transition", "gen-trans-failed", "gen-init-failed", "teardown", "extended">>
    OBVIOUS
  <2>2. F!Handle("extended", ev).handled = TRUE /\ F!Handle("extended", ev).expansion = x
    BY <2>1, <1>3 DEF F!Handle, F!ExtendedTransitionsState, F!Result, F!Handled, F!Shown, F!Unhandled
  <2>3. x \o st = Push("gen-prepare", Push("transition", Push("gen-trans-failed", Push("gen-init-failed", Push("teardown", Push("extended", st))))))
    BY <1>1, <2>1, Push6
  <2>4. \A c \in F!Context, e \in Events : F!Update("extended", ev, c, e) = Does("keep", ev, c, e)
    BY <1>3 DEF F!Update, Does
  <2> QED
    BY <1>1, <2>2, <2>3, <2>4, Take
<1>4. ASSUME t \notin {"init_failed", "transition"}
      PROVE  Drops(t, Push("extended", st), st)
  <2> SUFFICES ASSUME NEW ev \in GoodEvent, ev.type = t
               PROVE  Falls(ev, Push("extended", st), st)
    BY DEF Drops
  <2>1. PICK x : x = <<>>
    OBVIOUS
  <2>2. F!Handle("extended", ev).handled = FALSE /\ F!Handle("extended", ev).expansion = x
    BY <2>1, <1>4 DEF F!Handle, F!ExtendedTransitionsState, F!Result, F!Handled, F!Shown, F!Unhandled
  <2>3. x \o st = st
    BY <1>1, <2>1, Push0
  <2> QED
    BY <1>1, <2>2, <2>3, Pass
<1> QED
  BY <1>2, <1>3, <1>4

LEMMA AtWalkTransitions ==
  ASSUME NEW t, NEW st \in Text
  PROVE  /\ t = "py_test" =>
              Takes(t, Push("walk-transitions", st), Push("transition", Push("walk-transitions", st)), "keep")
         /\ t = "failed_states" => Takes(t, Push("walk-transitions", st), st, "keep")
         /\ t = "load" =>
              Drops(t, Push("walk-transitions", st), Push("transition", Push("walk-transitions", st)))
         /\ t = "teardown" =>
              Drops(t, Push("walk-transitions", st), Push("teardown", Push("walk-transitions", st)))
         /\ t \notin {"py_test", "failed_states", "load", "teardown"} =>
              Takes(t, Push("walk-transitions", st), Push("walk-transitions", st), "keep")
<1>1. {"teardown", "transition", "walk-transitions"} \subseteq Word
  BY DEF Word, F!LogStates
<1>2. ASSUME t = "py_test"
      PROVE  Takes(t, Push("walk-transitions", st), Push("transition", Push("walk-transitions", st)), "keep")
  <2> SUFFICES ASSUME NEW ev \in GoodEvent, ev.type = t
               PROVE  Gives(ev, Push("walk-transitions", st), Push("transition", Push("walk-transitions", st)), "keep")
    BY DEF Takes
  <2>1. PICK x : x = <<"transition", "walk-transitions">>
    OBVIOUS
  <2>2. F!Handle("walk-transitions", ev).handled = TRUE /\ F!Handle("walk-transitions", ev).expansion = x
    BY <2>1, <1>2 DEF F!Handle, F!WalkTransitionsState, F!Result, F!Handled, F!Shown, F!Unhandled
  <2>3. x \o st = Push("transition", Push("walk-transitions", st))
    BY <1>1, <2>1, Push2
  <2>4. \A c \in F!Context, e \in Events : F!Update("walk-transitions", ev, c, e) = Does("keep", ev, c, e)
    BY <1>2 DEF F!Update, Does
  <2> QED
    BY <1>1, <2>2, <2>3, <2>4, Take
<1>3. ASSUME t = "failed_states"
      PROVE  Takes(t, Push("walk-transitions", st), st, "keep")
  <2> SUFFICES ASSUME NEW ev \in GoodEvent, ev.type = t
               PROVE  Gives(ev, Push("walk-transitions", st), st, "keep")
    BY DEF Takes
  <2>1. PICK x : x = <<>>
    OBVIOUS
  <2>2. F!Handle("walk-transitions", ev).handled = TRUE /\ F!Handle("walk-transitions", ev).expansion = x
    BY <2>1, <1>3 DEF F!Handle, F!WalkTransitionsState, F!Result, F!Handled, F!Shown, F!Unhandled
  <2>3. x \o st = st
    BY <1>1, <2>1, Push0
  <2>4. \A c \in F!Context, e \in Events : F!Update("walk-transitions", ev, c, e) = Does("keep", ev, c, e)
    BY <1>3 DEF F!Update, Does
  <2> QED
    BY <1>1, <2>2, <2>3, <2>4, Take
<1>4. ASSUME t = "load"
      PROVE  Drops(t, Push("walk-transitions", st), Push("transition", Push("walk-transitions", st)))
  <2> SUFFICES ASSUME NEW ev \in GoodEvent, ev.type = t
               PROVE  Falls(ev, Push("walk-transitions", st), Push("transition", Push("walk-transitions", st)))
    BY DEF Drops
  <2>1. PICK x : x = <<"transition", "walk-transitions">>
    OBVIOUS
  <2>2. F!Handle("walk-transitions", ev).handled = FALSE /\ F!Handle("walk-transitions", ev).expansion = x
    BY <2>1, <1>4 DEF F!Handle, F!WalkTransitionsState, F!Result, F!Handled, F!Shown, F!Unhandled
  <2>3. x \o st = Push("transition", Push("walk-transitions", st))
    BY <1>1, <2>1, Push2
  <2> QED
    BY <1>1, <2>2, <2>3, Pass
<1>5. ASSUME t = "teardown"
      PROVE  Drops(t, Push("walk-transitions", st), Push("teardown", Push("walk-transitions", st)))
  <2> SUFFICES ASSUME NEW ev \in GoodEvent, ev.type = t
               PROVE  Falls(ev, Push("walk-transitions", st), Push("teardown", Push("walk-transitions", st)))
    BY DEF Drops
  <2>1. PICK x : x = <<"teardown", "walk-transitions">>
    OBVIOUS
  <2>2. F!Handle("walk-transitions", ev).handled = FALSE /\ F!Handle("walk-transitions", ev).expansion = x
    BY <2>1, <1>5 DEF F!Handle, F!WalkTransitionsState, F!Result, F!Handled, F!Shown, F!Unhandled
  <2>3. x \o st = Push("teardown", Push("walk-transitions", st))
    BY <1>1, <2>1, Push2
  <2> QED
    BY <1>1, <2>2, <2>3, Pass
<1>6. ASSUME t \notin {"py_test", "failed_states", "load", "teardown"}
      PROVE  Takes(t, Push("walk-transitions", st), Push("walk-transitions", st), "keep")
  <2> SUFFICES ASSUME NEW ev \in GoodEvent, ev.type = t
               PROVE  Gives(ev, Push("walk-transitions", st), Push("walk-transitions", st), "keep")
    BY DEF Takes
  <2>1. PICK x : x = <<"walk-transitions">>
    OBVIOUS
  <2>2. F!Handle("walk-transitions", ev).handled = TRUE /\ F!Handle("walk-transitions", ev).expansion = x
    BY <2>1, <1>6 DEF F!Handle, F!WalkTransitionsState, F!Result, F!Handled, F!Shown, F!Unhandled
  <2>3. x \o st = Push("walk-transitions", st)
    BY <1>1, <2>1, Push1
  <2>4. \A c \in F!Context, e \in Events : F!Update("walk-transitions", ev, c, e) = Does("keep", ev, c, e)
    BY <1>6 DEF F!Update, Does
  <2> QED
    BY <1>1, <2>2, <2>3, <2>4, Take
<1> QED
  BY <1>2, <1>3, <1>4, <1>5, <1>6

LEMMA AtTeardown ==
  ASSUME NEW t, NEW st \in Text
  PROVE  /\ t = "teardown" =>
              Takes(t, Push("teardown", st), Push("gen-restore", Push("action-commit", Push("action-compare", Push("gen-trans-failed", st)))), "keep")
         /\ t # "teardown" => Drops(t, Push("teardown", st), st)
<1>1. {"action-commit", "action-compare", "gen-restore", "gen-trans-failed", "teardown"} \subseteq Word
  BY DEF Word, F!LogStates
<1>2. ASSUME t = "teardown"
      PROVE  Takes(t, Push("teardown", st), Push("gen-restore", Push("action-commit", Push("action-compare", Push("gen-trans-failed", st)))), "keep")
  <2> SUFFICES ASSUME NEW ev \in GoodEvent, ev.type = t
               PROVE  Gives(ev, Push("teardown", st), Push("gen-restore", Push("action-commit", Push("action-compare", Push("gen-trans-failed", st)))), "keep")
    BY DEF Takes
  <2>1. PICK x : x = <<"gen-restore">> \o <<"action-commit", "action-compare">> \o <<"gen-trans-failed">>
    OBVIOUS
  <2>2. F!Handle("teardown", ev).handled = TRUE /\ F!Handle("teardown", ev).expansion = x
    BY <2>1, <1>2 DEF F!Handle, F!TeardownState, F!CommitAction, F!Result, F!Handled, F!Shown, F!Unhandled
  <2>3. x \o st = Push("gen-restore", Push("action-commit", Push("action-compare", Push("gen-trans-failed", st))))
    <3>1. PICK p1, p2, p3 : p1 = <<"gen-restore">> /\ p2 = <<"action-commit", "action-compare">> /\ p3 = <<"gen-trans-failed">>
      OBVIOUS
    <3>2. p1 \in Text /\ p2 \in Text /\ p3 \in Text
      BY <1>1, <3>1 DEF Text
    <3>3. x \o st = p1 \o (p2 \o (p3 \o st))
      BY <2>1, <3>1, <3>2, TextParts
    <3>4. p3 \o st = Push("gen-trans-failed", st)
      BY <1>1, <3>1, Push1
    <3>5. Push("gen-trans-failed", st) \in Text
      BY <1>1, PushText
    <3>6. p2 \o Push("gen-trans-failed", st) = Push("action-commit", Push("action-compare", Push("gen-trans-failed", st)))
      BY <1>1, <3>1, <3>5, Push2
    <3>7. Push("action-commit", Push("action-compare", Push("gen-trans-failed", st))) \in Text
      BY <1>1, <3>5, PushText
    <3>8. p1 \o Push("action-commit", Push("action-compare", Push("gen-trans-failed", st))) = Push("gen-restore", Push("action-commit", Push("action-compare", Push("gen-trans-failed", st))))
      BY <1>1, <3>1, <3>7, Push1
    <3> QED
      BY <3>3, <3>4, <3>6, <3>8
  <2>4. \A c \in F!Context, e \in Events : F!Update("teardown", ev, c, e) = Does("keep", ev, c, e)
    BY <1>2 DEF F!Update, Does
  <2> QED
    BY <1>1, <2>2, <2>3, <2>4, Take
<1>3. ASSUME t # "teardown"
      PROVE  Drops(t, Push("teardown", st), st)
  <2> SUFFICES ASSUME NEW ev \in GoodEvent, ev.type = t
               PROVE  Falls(ev, Push("teardown", st), st)
    BY DEF Drops
  <2>1. PICK x : x = <<>>
    OBVIOUS
  <2>2. F!Handle("teardown", ev).handled = FALSE /\ F!Handle("teardown", ev).expansion = x
    BY <2>1, <1>3 DEF F!Handle, F!TeardownState, F!CommitAction, F!Result, F!Handled, F!Shown, F!Unhandled
  <2>3. x \o st = st
    BY <1>1, <2>1, Push0
  <2> QED
    BY <1>1, <2>2, <2>3, Pass
<1> QED
  BY <1>2, <1>3

LEMMA AtLoad ==
  ASSUME NEW t, NEW st \in Text
  PROVE  /\ t = "load" => Takes(t, Push("load", st), Push("load-failure", st), "load")
         /\ t # "load" => Drops(t, Push("load", st), st)
<1>1. {"load", "load-failure"} \subseteq Word
  BY DEF Word, F!LogStates
<1>2. ASSUME t = "load"
      PROVE  Takes(t, Push("load", st), Push("load-failure", st), "load")
  <2> SUFFICES ASSUME NEW ev \in GoodEvent, ev.type = t
               PROVE  Gives(ev, Push("load", st), Push("load-failure", st), "load")
    BY DEF Takes
  <2>1. PICK x : x = <<"load-failure">>
    OBVIOUS
  <2>2. F!Handle("load", ev).handled = TRUE /\ F!Handle("load", ev).expansion = x
    BY <2>1, <1>2 DEF F!Handle, F!LoadState, F!Result, F!Handled, F!Shown, F!Unhandled
  <2>3. x \o st = Push("load-failure", st)
    BY <1>1, <2>1, Push1
  <2>4. \A c \in F!Context, e \in Events : F!Update("load", ev, c, e) = Does("load", ev, c, e)
    BY <1>2 DEF F!Update, Does
  <2> QED
    BY <1>1, <2>2, <2>3, <2>4, Take
<1>3. ASSUME t # "load"
      PROVE  Drops(t, Push("load", st), st)
  <2> SUFFICES ASSUME NEW ev \in GoodEvent, ev.type = t
               PROVE  Falls(ev, Push("load", st), st)
    BY DEF Drops
  <2>1. PICK x : x = <<>>
    OBVIOUS
  <2>2. F!Handle("load", ev).handled = FALSE /\ F!Handle("load", ev).expansion = x
    BY <2>1, <1>3 DEF F!Handle, F!LoadState, F!Result, F!Handled, F!Shown, F!Unhandled
  <2>3. x \o st = st
    BY <1>1, <2>1, Push0
  <2> QED
    BY <1>1, <2>2, <2>3, Pass
<1> QED
  BY <1>2, <1>3

LEMMA AtLoadFailure ==
  ASSUME NEW t, NEW st \in Text
  PROVE  Drops(t, Push("load-failure", st), st)
<1>1. {"load-failure"} \subseteq Word
  BY DEF Word, F!LogStates
<1>2. Drops(t, Push("load-failure", st), st)
  <2> SUFFICES ASSUME NEW ev \in GoodEvent, ev.type = t
               PROVE  Falls(ev, Push("load-failure", st), st)
    BY DEF Drops
  <2>1. PICK x : x = <<>>
    OBVIOUS
  <2>2. F!Handle("load-failure", ev).handled = FALSE /\ F!Handle("load-failure", ev).expansion = x
    BY <2>1 DEF F!Handle, F!LoadFailureState, F!Result, F!Handled, F!Shown, F!Unhandled
  <2>3. x \o st = st
    BY <1>1, <2>1, Push0
  <2> QED
    BY <1>1, <2>2, <2>3, Pass
<1> QED
  BY <1>2

LEMMA AtCommit ==
  ASSUME NEW t, NEW st \in Text
  PROVE  /\ t = "empty" => Takes(t, Push("commit", st), Push("commit", st), "keep")
         /\ t \in {"noqueue", "nn"} =>
              Takes(t, Push("commit", st), Push("commit-result", st), "keep")
         /\ t = "queue" => Takes(t, Push("commit", st), Push("commit-queue", st), "keep")
         /\ t \notin {"empty", "noqueue", "nn", "queue"} => Drops(t, Push("commit", st), st)
<1>1. {"commit", "commit-queue", "commit-result"} \subseteq Word
  BY DEF Word, F!LogStates
<1>2. ASSUME t = "empty"
      PROVE  Takes(t, Push("commit", st), Push("commit", st), "keep")
  <2> SUFFICES ASSUME NEW ev \in GoodEvent, ev.type = t
               PROVE  Gives(ev, Push("commit", st), Push("commit", st), "keep")
    BY DEF Takes
  <2>1. PICK x : x = <<"commit">>
    OBVIOUS
  <2>2. F!Handle("commit", ev).handled = TRUE /\ F!Handle("commit", ev).expansion = x
    BY <2>1, <1>2 DEF F!Handle, F!CommitState, F!Result, F!Handled, F!Shown, F!Unhandled
  <2>3. x \o st = Push("commit", st)
    BY <1>1, <2>1, Push1
  <2>4. \A c \in F!Context, e \in Events : F!Update("commit", ev, c, e) = Does("keep", ev, c, e)
    BY <1>2 DEF F!Update, Does
  <2> QED
    BY <1>1, <2>2, <2>3, <2>4, Take
<1>3. ASSUME t \in {"noqueue", "nn"}
      PROVE  Takes(t, Push("commit", st), Push("commit-result", st), "keep")
  <2> SUFFICES ASSUME NEW ev \in GoodEvent, ev.type = t
               PROVE  Gives(ev, Push("commit", st), Push("commit-result", st), "keep")
    BY DEF Takes
  <2>1. PICK x : x = <<"commit-result">>
    OBVIOUS
  <2>2. F!Handle("commit", ev).handled = TRUE /\ F!Handle("commit", ev).expansion = x
    BY <2>1, <1>3 DEF F!Handle, F!CommitState, F!Result, F!Handled, F!Shown, F!Unhandled
  <2>3. x \o st = Push("commit-result", st)
    BY <1>1, <2>1, Push1
  <2>4. \A c \in F!Context, e \in Events : F!Update("commit", ev, c, e) = Does("keep", ev, c, e)
    BY <1>3 DEF F!Update, Does
  <2> QED
    BY <1>1, <2>2, <2>3, <2>4, Take
<1>4. ASSUME t = "queue"
      PROVE  Takes(t, Push("commit", st), Push("commit-queue", st), "keep")
  <2> SUFFICES ASSUME NEW ev \in GoodEvent, ev.type = t
               PROVE  Gives(ev, Push("commit", st), Push("commit-queue", st), "keep")
    BY DEF Takes
  <2>1. PICK x : x = <<"commit-queue">>
    OBVIOUS
  <2>2. F!Handle("commit", ev).handled = TRUE /\ F!Handle("commit", ev).expansion = x
    BY <2>1, <1>4 DEF F!Handle, F!CommitState, F!Result, F!Handled, F!Shown, F!Unhandled
  <2>3. x \o st = Push("commit-queue", st)
    BY <1>1, <2>1, Push1
  <2>4. \A c \in F!Context, e \in Events : F!Update("commit", ev, c, e) = Does("keep", ev, c, e)
    BY <1>4 DEF F!Update, Does
  <2> QED
    BY <1>1, <2>2, <2>3, <2>4, Take
<1>5. ASSUME t \notin {"empty", "noqueue", "nn", "queue"}
      PROVE  Drops(t, Push("commit", st), st)
  <2> SUFFICES ASSUME NEW ev \in GoodEvent, ev.type = t
               PROVE  Falls(ev, Push("commit", st), st)
    BY DEF Drops
  <2>1. PICK x : x = <<>>
    OBVIOUS
  <2>2. F!Handle("commit", ev).handled = FALSE /\ F!Handle("commit", ev).expansion = x
    BY <2>1, <1>5 DEF F!Handle, F!CommitState, F!Result, F!Handled, F!Shown, F!Unhandled
  <2>3. x \o st = st
    BY <1>1, <2>1, Push0
  <2> QED
    BY <1>1, <2>2, <2>3, Pass
<1> QED
  BY <1>2, <1>3, <1>4, <1>5

LEMMA AtCommitResult ==
  ASSUME NEW t, NEW st \in Text
  PROVE  /\ t = "reason" => Drops(t, Push("commit-result", st), Push("commit-failed", st))
         /\ t \in {"empty", "complete", "completed", "failed"} =>
              Takes(t, Push("commit-result", st), st, "keep")
         /\ t \notin F!ResultEvents => Drops(t, Push("commit-result", st), st)
<1>1. {"commit-failed", "commit-result"} \subseteq Word
  BY DEF Word, F!LogStates
<1>2. ASSUME t = "reason"
      PROVE  Drops(t, Push("commit-result", st), Push("commit-failed", st))
  <2> SUFFICES ASSUME NEW ev \in GoodEvent, ev.type = t
               PROVE  Falls(ev, Push("commit-result", st), Push("commit-failed", st))
    BY DEF Drops
  <2>1. PICK x : x = <<"commit-failed">>
    OBVIOUS
  <2>2. F!Handle("commit-result", ev).handled = FALSE /\ F!Handle("commit-result", ev).expansion = x
    BY <2>1, <1>2 DEF F!Handle, F!CommitResultState, F!ResultEvents, F!Result, F!Handled, F!Shown, F!Unhandled
  <2>3. x \o st = Push("commit-failed", st)
    BY <1>1, <2>1, Push1
  <2> QED
    BY <1>1, <2>2, <2>3, Pass
<1>3. ASSUME t \in {"empty", "complete", "completed", "failed"}
      PROVE  Takes(t, Push("commit-result", st), st, "keep")
  <2> SUFFICES ASSUME NEW ev \in GoodEvent, ev.type = t
               PROVE  Gives(ev, Push("commit-result", st), st, "keep")
    BY DEF Takes
  <2>1. PICK x : x = <<>>
    OBVIOUS
  <2>2. F!Handle("commit-result", ev).handled = TRUE /\ F!Handle("commit-result", ev).expansion = x
    BY <2>1, <1>3 DEF F!Handle, F!CommitResultState, F!ResultEvents, F!Result, F!Handled, F!Shown, F!Unhandled
  <2>3. x \o st = st
    BY <1>1, <2>1, Push0
  <2>4. \A c \in F!Context, e \in Events : F!Update("commit-result", ev, c, e) = Does("keep", ev, c, e)
    BY <1>3 DEF F!Update, Does
  <2> QED
    BY <1>1, <2>2, <2>3, <2>4, Take
<1>4. ASSUME t \notin F!ResultEvents
      PROVE  Drops(t, Push("commit-result", st), st)
  <2> SUFFICES ASSUME NEW ev \in GoodEvent, ev.type = t
               PROVE  Falls(ev, Push("commit-result", st), st)
    BY DEF Drops
  <2>1. PICK x : x = <<>>
    OBVIOUS
  <2>2. F!Handle("commit-result", ev).handled = FALSE /\ F!Handle("commit-result", ev).expansion = x
    BY <2>1, <1>4 DEF F!Handle, F!CommitResultState, F!ResultEvents, F!Result, F!Handled, F!Shown, F!Unhandled
  <2>3. x \o st = st
    BY <1>1, <2>1, Push0
  <2> QED
    BY <1>1, <2>2, <2>3, Pass
<1> QED
  BY <1>2, <1>3, <1>4

LEMMA AtCommits ==
  ASSUME NEW t, NEW st \in Text
  PROVE  /\ t \in F!CommitEvents => Takes(t, Push("commits", st), Push("commits", st), "keep")
         /\ t \notin F!CommitEvents => Drops(t, Push("commits", st), st)
<1>1. {"commits"} \subseteq Word
  BY DEF Word, F!LogStates
<1>2. ASSUME t \in F!CommitEvents
      PROVE  Takes(t, Push("commits", st), Push("commits", st), "keep")
  <2> SUFFICES ASSUME NEW ev \in GoodEvent, ev.type = t
               PROVE  Gives(ev, Push("commits", st), Push("commits", st), "keep")
    BY DEF Takes
  <2>1. PICK x : x = <<"commits">>
    OBVIOUS
  <2>2. F!Handle("commits", ev).handled = TRUE /\ F!Handle("commits", ev).expansion = x
    BY <2>1, <1>2 DEF F!Handle, F!CommitsState, F!Result, F!Handled, F!Shown, F!Unhandled
  <2>3. x \o st = Push("commits", st)
    BY <1>1, <2>1, Push1
  <2>4. \A c \in F!Context, e \in Events : F!Update("commits", ev, c, e) = Does("keep", ev, c, e)
    BY <1>2 DEF F!Update, Does
  <2> QED
    BY <1>1, <2>2, <2>3, <2>4, Take
<1>3. ASSUME t \notin F!CommitEvents
      PROVE  Drops(t, Push("commits", st), st)
  <2> SUFFICES ASSUME NEW ev \in GoodEvent, ev.type = t
               PROVE  Falls(ev, Push("commits", st), st)
    BY DEF Drops
  <2>1. PICK x : x = <<>>
    OBVIOUS
  <2>2. F!Handle("commits", ev).handled = FALSE /\ F!Handle("commits", ev).expansion = x
    BY <2>1, <1>3 DEF F!Handle, F!CommitsState, F!Result, F!Handled, F!Shown, F!Unhandled
  <2>3. x \o st = st
    BY <1>1, <2>1, Push0
  <2> QED
    BY <1>1, <2>2, <2>3, Pass
<1> QED
  BY <1>2, <1>3

LEMMA AtCommitQueue ==
  ASSUME NEW t, NEW st \in Text
  PROVE  /\ t = "empty" => Takes(t, Push("commit-queue", st), st, "keep")
         /\ t \in {"failed", "reason"} =>
              Takes(t, Push("commit-queue", st), Push("commit-failed", Push("commit-complete", st)), "keep")
         /\ t \notin {"empty", "failed", "reason"} =>
              Drops(t, Push("commit-queue", st), Push("gen-result", Push("commit-complete", st)))
<1>1. {"commit-complete", "commit-failed", "commit-queue", "gen-result"} \subseteq Word
  BY DEF Word, F!LogStates
<1>2. ASSUME t = "empty"
      PROVE  Takes(t, Push("commit-queue", st), st, "keep")
  <2> SUFFICES ASSUME NEW ev \in GoodEvent, ev.type = t
               PROVE  Gives(ev, Push("commit-queue", st), st, "keep")
    BY DEF Takes
  <2>1. PICK x : x = <<>>
    OBVIOUS
  <2>2. F!Handle("commit-queue", ev).handled = TRUE /\ F!Handle("commit-queue", ev).expansion = x
    BY <2>1, <1>2 DEF F!Handle, F!CommitQueueState, F!Result, F!Handled, F!Shown, F!Unhandled
  <2>3. x \o st = st
    BY <1>1, <2>1, Push0
  <2>4. \A c \in F!Context, e \in Events : F!Update("commit-queue", ev, c, e) = Does("keep", ev, c, e)
    BY <1>2 DEF F!Update, Does
  <2> QED
    BY <1>1, <2>2, <2>3, <2>4, Take
<1>3. ASSUME t \in {"failed", "reason"}
      PROVE  Takes(t, Push("commit-queue", st), Push("commit-failed", Push("commit-complete", st)), "keep")
  <2> SUFFICES ASSUME NEW ev \in GoodEvent, ev.type = t
               PROVE  Gives(ev, Push("commit-queue", st), Push("commit-failed", Push("commit-complete", st)), "keep")
    BY DEF Takes
  <2>1. PICK x : x = <<"commit-failed", "commit-complete">>
    OBVIOUS
  <2>2. F!Handle("commit-queue", ev).handled = TRUE /\ F!Handle("commit-queue", ev).expansion = x
    BY <2>1, <1>3 DEF F!Handle, F!CommitQueueState, F!Result, F!Handled, F!Shown, F!Unhandled
  <2>3. x \o st = Push("commit-failed", Push("commit-complete", st))
    BY <1>1, <2>1, Push2
  <2>4. \A c \in F!Context, e \in Events : F!Update("commit-queue", ev, c, e) = Does("keep", ev, c, e)
    BY <1>3 DEF F!Update, Does
  <2> QED
    BY <1>1, <2>2, <2>3, <2>4, Take
<1>4. ASSUME t \notin {"empty", "failed", "reason"}
      PROVE  Drops(t, Push("commit-queue", st), Push("gen-result", Push("commit-complete", st)))
  <2> SUFFICES ASSUME NEW ev \in GoodEvent, ev.type = t
               PROVE  Falls(ev, Push("commit-queue", st), Push("gen-result", Push("commit-complete", st)))
    BY DEF Drops
  <2>1. PICK x : x = <<"gen-result", "commit-complete">>
    OBVIOUS
  <2>2. F!Handle("commit-queue", ev).handled = FALSE /\ F!Handle("commit-queue", ev).expansion = x
    BY <2>1, <1>4 DEF F!Handle, F!CommitQueueState, F!Result, F!Handled, F!Shown, F!Unhandled
  <2>3. x \o st = Push("gen-result", Push("commit-complete", st))
    BY <1>1, <2>1, Push2
  <2> QED
    BY <1>1, <2>2, <2>3, Pass
<1> QED
  BY <1>2, <1>3, <1>4

LEMMA AtCommitFailed ==
  ASSUME NEW t, NEW st \in Text
  PROVE  /\ t = "reason" => Takes(t, Push("commit-failed", st), st, "fail")
         /\ t # "reason" => Drops(t, Push("commit-failed", st), st)
<1>1. {"commit-failed"} \subseteq Word
  BY DEF Word, F!LogStates
<1>2. ASSUME t = "reason"
      PROVE  Takes(t, Push("commit-failed", st), st, "fail")
  <2> SUFFICES ASSUME NEW ev \in GoodEvent, ev.type = t
               PROVE  Gives(ev, Push("commit-failed", st), st, "fail")
    BY DEF Takes
  <2>1. PICK x : x = <<>>
    OBVIOUS
  <2>2. F!Handle("commit-failed", ev).handled = TRUE /\ F!Handle("commit-failed", ev).expansion = x
    BY <2>1, <1>2 DEF F!Handle, F!CommitFailureState, F!Result, F!Handled, F!Shown, F!Unhandled
  <2>3. x \o st = st
    BY <1>1, <2>1, Push0
  <2>4. \A c \in F!Context, e \in Events : F!Update("commit-failed", ev, c, e) = Does("fail", ev, c, e)
    BY <1>2 DEF F!Update, Does
  <2> QED
    BY <1>1, <2>2, <2>3, <2>4, Take
<1>3. ASSUME t # "reason"
      PROVE  Drops(t, Push("commit-failed", st), st)
  <2> SUFFICES ASSUME NEW ev \in GoodEvent, ev.type = t
               PROVE  Falls(ev, Push("commit-failed", st), st)
    BY DEF Drops
  <2>1. PICK x : x = <<>>
    OBVIOUS
  <2>2. F!Handle("commit-failed", ev).handled = FALSE /\ F!Handle("commit-failed", ev).expansion = x
    BY <2>1, <1>3 DEF F!Handle, F!CommitFailureState, F!Result, F!Handled, F!Shown, F!Unhandled
  <2>3. x \o st = st
    BY <1>1, <2>1, Push0
  <2> QED
    BY <1>1, <2>2, <2>3, Pass
<1> QED
  BY <1>2, <1>3

LEMMA AtCommitComplete ==
  ASSUME NEW t, NEW st \in Text
  PROVE  /\ t = "complete" => Takes(t, Push("commit-complete", st), st, "keep")
         /\ t # "complete" => Drops(t, Push("commit-complete", st), st)
<1>1. {"commit-complete"} \subseteq Word
  BY DEF Word, F!LogStates
<1>2. ASSUME t = "complete"
      PROVE  Takes(t, Push("commit-complete", st), st, "keep")
  <2> SUFFICES ASSUME NEW ev \in GoodEvent, ev.type = t
               PROVE  Gives(ev, Push("commit-complete", st), st, "keep")
    BY DEF Takes
  <2>1. PICK x : x = <<>>
    OBVIOUS
  <2>2. F!Handle("commit-complete", ev).handled = TRUE /\ F!Handle("commit-complete", ev).expansion = x
    BY <2>1, <1>2 DEF F!Handle, F!CommitCompleteState, F!Result, F!Handled, F!Shown, F!Unhandled
  <2>3. x \o st = st
    BY <1>1, <2>1, Push0
  <2>4. \A c \in F!Context, e \in Events : F!Update("commit-complete", ev, c, e) = Does("keep", ev, c, e)
    BY <1>2 DEF F!Update, Does
  <2> QED
    BY <1>1, <2>2, <2>3, <2>4, Take
<1>3. ASSUME t # "complete"
      PROVE  Drops(t, Push("commit-complete", st), st)
  <2> SUFFICES ASSUME NEW ev \in GoodEvent, ev.type = t
               PROVE  Falls(ev, Push("commit-complete", st), st)
    BY DEF Drops
  <2>1. PICK x : x = <<>>
    OBVIOUS
  <2>2. F!Handle("commit-complete", ev).handled = FALSE /\ F!Handle("commit-complete", ev).expansion = x
    BY <2>1, <1>3 DEF F!Handle, F!CommitCompleteState, F!Result, F!Handled, F!Shown, F!Unhandled
  <2>3. x \o st = st
    BY <1>1, <2>1, Push0
  <2> QED
    BY <1>1, <2>2, <2>3, Pass
<1> QED
  BY <1>2, <1>3

LEMMA AtCompare ==
  ASSUME NEW t, NEW st \in Text
  PROVE  /\ t = "diff" => Takes(t, Push("compare", st), st, "fail")
         /\ t # "diff" => Drops(t, Push("compare", st), st)
<1>1. {"compare"} \subseteq Word
  BY DEF Word, F!LogStates
<1>2. ASSUME t = "diff"
      PROVE  Takes(t, Push("compare", st), st, "fail")
  <2> SUFFICES ASSUME NEW ev \in GoodEvent, ev.type = t
               PROVE  Gives(ev, Push("compare", st), st, "fail")
    BY DEF Takes
  <2>1. PICK x : x = <<>>
    OBVIOUS
  <2>2. F!Handle("compare", ev).handled = TRUE /\ F!Handle("compare", ev).expansion = x
    BY <2>1, <1>2 DEF F!Handle, F!CompareState, F!Result, F!Handled, F!Shown, F!Unhandled
  <2>3. x \o st = st
    BY <1>1, <2>1, Push0
  <2>4. \A c \in F!Context, e \in Events : F!Update("compare", ev, c, e) = Does("fail", ev, c, e)
    BY <1>2 DEF F!Update, Does
  <2> QED
    BY <1>1, <2>2, <2>3, <2>4, Take
<1>3. ASSUME t # "diff"
      PROVE  Drops(t, Push("compare", st), st)
  <2> SUFFICES ASSUME NEW ev \in GoodEvent, ev.type = t
               PROVE  Falls(ev, Push("compare", st), st)
    BY DEF Drops
  <2>1. PICK x : x = <<>>
    OBVIOUS
  <2>2. F!Handle("compare", ev).handled = FALSE /\ F!Handle("compare", ev).expansion = x
    BY <2>1, <1>3 DEF F!Handle, F!CompareState, F!Result, F!Handled, F!Shown, F!Unhandled
  <2>3. x \o st = st
    BY <1>1, <2>1, Push0
  <2> QED
    BY <1>1, <2>2, <2>3, Pass
<1> QED
  BY <1>2, <1>3

LEMMA AtActionCommit ==
  ASSUME NEW t, NEW st \in Text
  PROVE  /\ t = "commit" => Takes(t, Push("action-commit", st), Push("commit", st), "commit")
         /\ t # "commit" => Drops(t, Push("action-commit", st), st)
<1>1. {"action-commit", "commit"} \subseteq Word
  BY DEF Word, F!LogStates
<1>2. ASSUME t = "commit"
      PROVE  Takes(t, Push("action-commit", st), Push("commit", st), "commit")
  <2> SUFFICES ASSUME NEW ev \in GoodEvent, ev.type = t
               PROVE  Gives(ev, Push("action-commit", st), Push("commit", st), "commit")
    BY DEF Takes
  <2>1. PICK x : x = <<"commit">>
    OBVIOUS
  <2>2. F!Handle("action-commit", ev).handled = TRUE /\ F!Handle("action-commit", ev).expansion = x
    BY <2>1, <1>2 DEF F!Handle, F!Action, F!Result, F!Handled, F!Shown, F!Unhandled
  <2>3. x \o st = Push("commit", st)
    BY <1>1, <2>1, Push1
  <2>4. \A c \in F!Context, e \in Events : F!Update("action-commit", ev, c, e) = Does("commit", ev, c, e)
    BY <1>2 DEF F!Update, Does
  <2> QED
    BY <1>1, <2>2, <2>3, <2>4, Take
<1>3. ASSUME t # "commit"
      PROVE  Drops(t, Push("action-commit", st), st)
  <2> SUFFICES ASSUME NEW ev \in GoodEvent, ev.type = t
               PROVE  Falls(ev, Push("action-commit", st), st)
    BY DEF Drops
  <2>1. PICK x : x = <<>>
    OBVIOUS
  <2>2. F!Handle("action-commit", ev).handled = FALSE /\ F!Handle("action-commit", ev).expansion = x
    BY <2>1, <1>3 DEF F!Handle, F!Action, F!Result, F!Handled, F!Shown, F!Unhandled
  <2>3. x \o st = st
    BY <1>1, <2>1, Push0
  <2> QED
    BY <1>1, <2>2, <2>3, Pass
<1> QED
  BY <1>2, <1>3

LEMMA AtActionCompare ==
  ASSUME NEW t, NEW st \in Text
  PROVE  /\ t = "compare_config" =>
              Takes(t, Push("action-compare", st), Push("compare", st), "compare_config")
         /\ t # "compare_config" => Drops(t, Push("action-compare", st), st)
<1>1. {"action-compare", "compare"} \subseteq Word
  BY DEF Word, F!LogStates
<1>2. ASSUME t = "compare_config"
      PROVE  Takes(t, Push("action-compare", st), Push("compare", st), "compare_config")
  <2> SUFFICES ASSUME NEW ev \in GoodEvent, ev.type = t
               PROVE  Gives(ev, Push("action-compare", st), Push("compare", st), "compare_config")
    BY DEF Takes
  <2>1. PICK x : x = <<"compare">>
    OBVIOUS
  <2>2. F!Handle("action-compare", ev).handled = TRUE /\ F!Handle("action-compare", ev).expansion = x
    BY <2>1, <1>2 DEF F!Handle, F!Action, F!Result, F!Handled, F!Shown, F!Unhandled
  <2>3. x \o st = Push("compare", st)
    BY <1>1, <2>1, Push1
  <2>4. \A c \in F!Context, e \in Events : F!Update("action-compare", ev, c, e) = Does("compare_config", ev, c, e)
    BY <1>2 DEF F!Update, Does
  <2> QED
    BY <1>1, <2>2, <2>3, <2>4, Take
<1>3. ASSUME t # "compare_config"
      PROVE  Drops(t, Push("action-compare", st), st)
  <2> SUFFICES ASSUME NEW ev \in GoodEvent, ev.type = t
               PROVE  Falls(ev, Push("action-compare", st), st)
    BY DEF Drops
  <2>1. PICK x : x = <<>>
    OBVIOUS
  <2>2. F!Handle("action-compare", ev).handled = FALSE /\ F!Handle("action-compare", ev).expansion = x
    BY <2>1, <1>3 DEF F!Handle, F!Action, F!Result, F!Handled, F!Shown, F!Unhandled
  <2>3. x \o st = st
    BY <1>1, <2>1, Push0
  <2> QED
    BY <1>1, <2>2, <2>3, Pass
<1> QED
  BY <1>2, <1>3

LEMMA AtActionRollback ==
  ASSUME NEW t, NEW st \in Text
  PROVE  /\ t = "rollback" => Takes(t, Push("action-rollback", st), st, "rollback")
         /\ t # "rollback" => Drops(t, Push("action-rollback", st), st)
<1>1. {"action-rollback"} \subseteq Word
  BY DEF Word, F!LogStates
<1>2. ASSUME t = "rollback"
      PROVE  Takes(t, Push("action-rollback", st), st, "rollback")
  <2> SUFFICES ASSUME NEW ev \in GoodEvent, ev.type = t
               PROVE  Gives(ev, Push("action-rollback", st), st, "rollback")
    BY DEF Takes
  <2>1. PICK x : x = <<>>
    OBVIOUS
  <2>2. F!Handle("action-rollback", ev).handled = TRUE /\ F!Handle("action-rollback", ev).expansion = x
    BY <2>1, <1>2 DEF F!Handle, F!Action, F!Result, F!Handled, F!Shown, F!Unhandled
  <2>3. x \o st = st
    BY <1>1, <2>1, Push0
  <2>4. \A c \in F!Context, e \in Events : F!Update("action-rollback", ev, c, e) = Does("rollback", ev, c, e)
    BY <1>2 DEF F!Update, Does
  <2> QED
    BY <1>1, <2>2, <2>3, <2>4, Take
<1>3. ASSUME t # "rollback"
      PROVE  Drops(t, Push("action-rollback", st), st)
  <2> SUFFICES ASSUME NEW ev \in GoodEvent, ev.type = t
               PROVE  Falls(ev, Push("action-rollback", st), st)
    BY DEF Drops
  <2>1. PICK x : x = <<>>
    OBVIOUS
  <2>2. F!Handle("action-rollback", ev).handled = FALSE /\ F!Handle("action-rollback", ev).expansion = x
    BY <2>1, <1>3 DEF F!Handle, F!Action, F!Result, F!Handled, F!Shown, F!Unhandled
  <2>3. x \o st = st
    BY <1>1, <2>1, Push0
  <2> QED
    BY <1>1, <2>2, <2>3, Pass
<1> QED
  BY <1>2, <1>3

LEMMA AtGenPrepare ==
  ASSUME NEW t, NEW st \in Text
  PROVE  /\ t = "prepare" => Takes(t, Push("gen-prepare", st), st, "keep")
         /\ t # "prepare" => Drops(t, Push("gen-prepare", st), st)
<1>1. {"gen-prepare"} \subseteq Word
  BY DEF Word, F!LogStates
<1>2. ASSUME t = "prepare"
      PROVE  Takes(t, Push("gen-prepare", st), st, "keep")
  <2> SUFFICES ASSUME NEW ev \in GoodEvent, ev.type = t
               PROVE  Gives(ev, Push("gen-prepare", st), st, "keep")
    BY DEF Takes
  <2>1. PICK x : x = <<>>
    OBVIOUS
  <2>2. F!Handle("gen-prepare", ev).handled = TRUE /\ F!Handle("gen-prepare", ev).expansion = x
    BY <2>1, <1>2 DEF F!Handle, F!Gen, F!Result, F!Handled, F!Shown, F!Unhandled
  <2>3. x \o st = st
    BY <1>1, <2>1, Push0
  <2>4. \A c \in F!Context, e \in Events : F!Update("gen-prepare", ev, c, e) = Does("keep", ev, c, e)
    BY <1>2 DEF F!Update, Does
  <2> QED
    BY <1>1, <2>2, <2>3, <2>4, Take
<1>3. ASSUME t # "prepare"
      PROVE  Drops(t, Push("gen-prepare", st), st)
  <2> SUFFICES ASSUME NEW ev \in GoodEvent, ev.type = t
               PROVE  Falls(ev, Push("gen-prepare", st), st)
    BY DEF Drops
  <2>1. PICK x : x = <<>>
    OBVIOUS
  <2>2. F!Handle("gen-prepare", ev).handled = FALSE /\ F!Handle("gen-prepare", ev).expansion = x
    BY <2>1, <1>3 DEF F!Handle, F!Gen, F!Result, F!Handled, F!Shown, F!Unhandled
  <2>3. x \o st = st
    BY <1>1, <2>1, Push0
  <2> QED
    BY <1>1, <2>2, <2>3, Pass
<1> QED
  BY <1>2, <1>3

LEMMA AtGenInitStates ==
  ASSUME NEW t, NEW st \in Text
  PROVE  /\ t = "init_states" => Takes(t, Push("gen-init-states", st), st, "keep")
         /\ t # "init_states" => Drops(t, Push("gen-init-states", st), st)
<1>1. {"gen-init-states"} \subseteq Word
  BY DEF Word, F!LogStates
<1>2. ASSUME t = "init_states"
      PROVE  Takes(t, Push("gen-init-states", st), st, "keep")
  <2> SUFFICES ASSUME NEW ev \in GoodEvent, ev.type = t
               PROVE  Gives(ev, Push("gen-init-states", st), st, "keep")
    BY DEF Takes
  <2>1. PICK x : x = <<>>
    OBVIOUS
  <2>2. F!Handle("gen-init-states", ev).handled = TRUE /\ F!Handle("gen-init-states", ev).expansion = x
    BY <2>1, <1>2 DEF F!Handle, F!Gen, F!Result, F!Handled, F!Shown, F!Unhandled
  <2>3. x \o st = st
    BY <1>1, <2>1, Push0
  <2>4. \A c \in F!Context, e \in Events : F!Update("gen-init-states", ev, c, e) = Does("keep", ev, c, e)
    BY <1>2 DEF F!Update, Does
  <2> QED
    BY <1>1, <2>2, <2>3, <2>4, Take
<1>3. ASSUME t # "init_states"
      PROVE  Drops(t, Push("gen-init-states", st), st)
  <2> SUFFICES ASSUME NEW ev \in GoodEvent, ev.type = t
               PROVE  Falls(ev, Push("gen-init-states", st), st)
    BY DEF Drops
  <2>1. PICK x : x = <<>>
    OBVIOUS
  <2>2. F!Handle("gen-init-states", ev).handled = FALSE /\ F!Handle("gen-init-states", ev).expansion = x
    BY <2>1, <1>3 DEF F!Handle, F!Gen, F!Result, F!Handled, F!Shown, F!Unhandled
  <2>3. x \o st = st
    BY <1>1, <2>1, Push0
  <2> QED
    BY <1>1, <2>2, <2>3, Pass
<1> QED
  BY <1>2, <1>3

LEMMA AtGenTransFailed ==
  ASSUME NEW t, NEW st \in Text
  PROVE  /\ t = "trans_failed" => Takes(t, Push("gen-trans-failed", st), st, "keep")
         /\ t # "trans_failed" => Drops(t, Push("gen-trans-failed", st), st)
<1>1. {"gen-trans-failed"} \subseteq Word
  BY DEF Word, F!LogStates
<1>2. ASSUME t = "trans_failed"
      PROVE  Takes(t, Push("gen-trans-failed", st), st, "keep")
  <2> SUFFICES ASSUME NEW ev \in GoodEvent, ev.type = t
               PROVE  Gives(ev, Push("gen-trans-failed", st), st, "keep")
    BY DEF Takes
  <2>1. PICK x : x = <<>>
    OBVIOUS
  <2>2. F!Handle("gen-trans-failed", ev).handled = TRUE /\ F!Handle("gen-trans-failed", ev).expansion = x
    BY <2>1, <1>2 DEF F!Handle, F!Gen, F!Result, F!Handled, F!Shown, F!Unhandled
  <2>3. x \o st = st
    BY <1>1, <2>1, Push0
  <2>4. \A c \in F!Context, e \in Events : F!Update("gen-trans-failed", ev, c, e) = Does("keep", ev, c, e)
    BY <1>2 DEF F!Update, Does
  <2> QED
    BY <1>1, <2>2, <2>3, <2>4, Take
<1>3. ASSUME t # "trans_failed"
      PROVE  Drops(t, Push("gen-trans-failed", st), st)
  <2> SUFFICES ASSUME NEW ev \in GoodEvent, ev.type = t
               PROVE  Falls(ev, Push("gen-trans-failed", st), st)
    BY DEF Drops
  <2>1. PICK x : x = <<>>
    OBVIOUS
  <2>2. F!Handle("gen-trans-failed", ev).handled = FALSE /\ F!Handle("gen-trans-failed", ev).expansion = x
    BY <2>1, <1>3 DEF F!Handle, F!Gen, F!Result, F!Handled, F!Shown, F!Unhandled
  <2>3. x \o st = st
    BY <1>1, <2>1, Push0
  <2> QED
    BY <1>1, <2>2, <2>3, Pass
<1> QED
  BY <1>2, <1>3

LEMMA AtGenInitFailed ==
  ASSUME NEW t, NEW st \in Text
  PROVE  /\ t = "init_failed" => Takes(t, Push("gen-init-failed", st), st, "keep")
         /\ t # "init_failed" => Drops(t, Push("gen-init-failed", st), st)
<1>1. {"gen-init-failed"} \subseteq Word
  BY DEF Word, F!LogStates
<1>2. ASSUME t = "init_failed"
      PROVE  Takes(t, Push("gen-init-failed", st), st, "keep")
  <2> SUFFICES ASSUME NEW ev \in GoodEvent, ev.type = t
               PROVE  Gives(ev, Push("gen-init-failed", st), st, "keep")
    BY DEF Takes
  <2>1. PICK x : x = <<>>
    OBVIOUS
  <2>2. F!Handle("gen-init-failed", ev).handled = TRUE /\ F!Handle("gen-init-failed", ev).expansion = x
    BY <2>1, <1>2 DEF F!Handle, F!Gen, F!Result, F!Handled, F!Shown, F!Unhandled
  <2>3. x \o st = st
    BY <1>1, <2>1, Push0
  <2>4. \A c \in F!Context, e \in Events : F!Update("gen-init-failed", ev, c, e) = Does("keep", ev, c, e)
    BY <1>2 DEF F!Update, Does
  <2> QED
    BY <1>1, <2>2, <2>3, <2>4, Take
<1>3. ASSUME t # "init_failed"
      PROVE  Drops(t, Push("gen-init-failed", st), st)
  <2> SUFFICES ASSUME NEW ev \in GoodEvent, ev.type = t
               PROVE  Falls(ev, Push("gen-init-failed", st), st)
    BY DEF Drops
  <2>1. PICK x : x = <<>>
    OBVIOUS
  <2>2. F!Handle("gen-init-failed", ev).handled = FALSE /\ F!Handle("gen-init-failed", ev).expansion = x
    BY <2>1, <1>3 DEF F!Handle, F!Gen, F!Result, F!Handled, F!Shown, F!Unhandled
  <2>3. x \o st = st
    BY <1>1, <2>1, Push0
  <2> QED
    BY <1>1, <2>2, <2>3, Pass
<1> QED
  BY <1>2, <1>3

LEMMA AtGenRestore ==
  ASSUME NEW t, NEW st \in Text
  PROVE  /\ t = "restore" => Takes(t, Push("gen-restore", st), st, "keep")
         /\ t # "restore" => Drops(t, Push("gen-restore", st), st)
<1>1. {"gen-restore"} \subseteq Word
  BY DEF Word, F!LogStates
<1>2. ASSUME t = "restore"
      PROVE  Takes(t, Push("gen-restore", st), st, "keep")
  <2> SUFFICES ASSUME NEW ev \in GoodEvent, ev.type = t
               PROVE  Gives(ev, Push("gen-restore", st), st, "keep")
    BY DEF Takes
  <2>1. PICK x : x = <<>>
    OBVIOUS
  <2>2. F!Handle("gen-restore", ev).handled = TRUE /\ F!Handle("gen-restore", ev).expansion = x
    BY <2>1, <1>2 DEF F!Handle, F!Gen, F!Result, F!Handled, F!Shown, F!Unhandled
  <2>3. x \o st = st
    BY <1>1, <2>1, Push0
  <2>4. \A c \in F!Context, e \in Events : F!Update("gen-restore", ev, c, e) = Does("keep", ev, c, e)
    BY <1>2 DEF F!Update, Does
  <2> QED
    BY <1>1, <2>2, <2>3, <2>4, Take
<1>3. ASSUME t # "restore"
      PROVE  Drops(t, Push("gen-restore", st), st)
  <2> SUFFICES ASSUME NEW ev \in GoodEvent, ev.type = t
               PROVE  Falls(ev, Push("gen-restore", st), st)
    BY DEF Drops
  <2>1. PICK x : x = <<>>
    OBVIOUS
  <2>2. F!Handle("gen-restore", ev).handled = FALSE /\ F!Handle("gen-restore", ev).expansion = x
    BY <2>1, <1>3 DEF F!Handle, F!Gen, F!Result, F!Handled, F!Shown, F!Unhandled
  <2>3. x \o st = st
    BY <1>1, <2>1, Push0
  <2> QED
    BY <1>1, <2>2, <2>3, Pass
<1> QED
  BY <1>2, <1>3

LEMMA AtGenResult ==
  ASSUME NEW t, NEW st \in Text
  PROVE  /\ t \in F!ResultEvents => Takes(t, Push("gen-result", st), st, "keep")
         /\ t \notin F!ResultEvents => Drops(t, Push("gen-result", st), st)
<1>1. {"gen-result"} \subseteq Word
  BY DEF Word, F!LogStates
<1>2. ASSUME t \in F!ResultEvents
      PROVE  Takes(t, Push("gen-result", st), st, "keep")
  <2> SUFFICES ASSUME NEW ev \in GoodEvent, ev.type = t
               PROVE  Gives(ev, Push("gen-result", st), st, "keep")
    BY DEF Takes
  <2>1. PICK x : x = <<>>
    OBVIOUS
  <2>2. F!Handle("gen-result", ev).handled = TRUE /\ F!Handle("gen-result", ev).expansion = x
    BY <2>1, <1>2 DEF F!Handle, F!Gen, F!Result, F!Handled, F!Shown, F!Unhandled
  <2>3. x \o st = st
    BY <1>1, <2>1, Push0
  <2>4. \A c \in F!Context, e \in Events : F!Update("gen-result", ev, c, e) = Does("keep", ev, c, e)
    BY <1>2 DEF F!Update, Does
  <2> QED
    BY <1>1, <2>2, <2>3, <2>4, Take
<1>3. ASSUME t \notin F!ResultEvents
      PROVE  Drops(t, Push("gen-result", st), st)
  <2> SUFFICES ASSUME NEW ev \in GoodEvent, ev.type = t
               PROVE  Falls(ev, Push("gen-result", st), st)
    BY DEF Drops
  <2>1. PICK x : x = <<>>
    OBVIOUS
  <2>2. F!Handle("gen-result", ev).handled = FALSE /\ F!Handle("gen-result", ev).expansion = x
    BY <2>1, <1>3 DEF F!Handle, F!Gen, F!Result, F!Handled, F!Shown, F!Unhandled
  <2>3. x \o st = st
    BY <1>1, <2>1, Push0
  <2> QED
    BY <1>1, <2>2, <2>3, Pass
<1> QED
  BY <1>2, <1>3

----------------------------------------------------------------------------
(* Several lines                                                           *)

\* The filter reads these lines, and goes from the first stack and context to
\* the others.
Hears(p, st, c, e, st2, c2, e2) ==
  \A q \in LinesLeft : Reach(<<p \o q, st, c, e>>, <<q, st2, c2, e2>>)

Reads(ts, st, c, e, st2, c2, e2) == Hears(D!Lines(ts), st, c, e, st2, c2, e2)

Told == F!EventTypes \ {"load"}
Talk == Seq(Told)

Noted(c, o) == [c EXCEPT !.event = o, !.rollback = @ \/ o = "rollback"]

LEMMA HearsNone ==
  ASSUME NEW st, NEW c, NEW e
  PROVE  Hears(<<>>, st, c, e, st, c, e)
<1> SUFFICES ASSUME NEW q \in LinesLeft
             PROVE  Reach(<<<<>> \o q, st, c, e>>, <<q, st, c, e>>)
  BY DEF Hears
<1>1. <<>> \o q = q
  BY ConcatEmptySeq DEF LinesLeft
<1> QED
  BY <1>1, ReachSelf

LEMMA HearsMore ==
  ASSUME NEW p1 \in LinesLeft, NEW p2 \in LinesLeft, NEW st1, NEW c1, NEW e1, NEW st2, NEW c2,
         NEW e2, NEW st3, NEW c3, NEW e3,
         Hears(p1, st1, c1, e1, st2, c2, e2), Hears(p2, st2, c2, e2, st3, c3, e3)
  PROVE  Hears(p1 \o p2, st1, c1, e1, st3, c3, e3)
<1> SUFFICES ASSUME NEW q \in LinesLeft
             PROVE  Reach(<<(p1 \o p2) \o q, st1, c1, e1>>, <<q, st3, c3, e3>>)
  BY DEF Hears
<1>1. PICK r : r = p2 \o q
  OBVIOUS
<1>2. r \in LinesLeft
  BY <1>1 DEF LinesLeft
<1>3. (p1 \o p2) \o q = p1 \o (p2 \o q)
  <2>1. PICK S : S = GoodEvent
    OBVIOUS
  <2>2. p1 \in Seq(S) /\ p2 \in Seq(S) /\ q \in Seq(S)
    BY <2>1 DEF LinesLeft
  <2> QED
    BY <2>2, ConcatAssociative
<1>4. Reach(<<p1 \o r, st1, c1, e1>>, <<r, st2, c2, e2>>)
  BY <1>2, Zenon DEF Hears
<1>5. Reach(<<r, st2, c2, e2>>, <<q, st3, c3, e3>>)
  BY <1>1, Zenon DEF Hears
<1> QED
  BY <1>1, <1>3, <1>4, <1>5, ReachOn

LEMMA HearsOne ==
  ASSUME NEW ev \in GoodEvent, NEW t, ev.type = t, NEW st, NEW st2, NEW k,
         NEW c \in F!Context, NEW e \in Events, Takes(t, st, st2, k), NEW d, d = Does(k, ev, c, e)
  PROVE  Hears(<<ev>>, st, c, e, st2, d.c, d.e)
<1> SUFFICES ASSUME NEW q \in LinesLeft
             PROVE  Reach(<<<<ev>> \o q, st, c, e>>, <<q, st2, d.c, d.e>>)
  BY DEF Hears
<1>1. Gives(ev, st, st2, k)
  BY DEF Takes
<1> QED
  BY <1>1 DEF Gives, Push

LEMMA TalkLines ==
  ASSUME NEW t \in Told, NEW ts \in Talk
  PROVE  /\ D!Line(t) \in GoodEvent /\ D!Line(t).type = t
         /\ D!Lines(ts) \in LinesLeft /\ ts \in Text /\ t \in Word
         /\ Push(t, ts) \in Talk
         /\ D!Lines(Push(t, ts)) = <<D!Line(t)>> \o D!Lines(ts)
         /\ D!Lines(<<>>) = <<>> /\ <<>> \in Talk
<1>1. ASSUME NEW s \in Told
      PROVE  D!Line(s) \in GoodEvent /\ D!Line(s).type = s
  BY DEF Told, D!Line, GoodEvent, F!Event
<1>2. ts \in Text /\ t \in Word
  BY DEF Talk, Told, Text, Word
<1>3. ASSUME NEW us \in Talk
      PROVE  /\ D!Lines(us) \in Seq(GoodEvent) /\ Len(D!Lines(us)) = Len(us)
             /\ \A i \in 1..Len(us) : D!Lines(us)[i] = D!Line(us[i])
  <2>1. Len(us) \in Nat /\ DOMAIN us = 1..Len(us) /\ \A i \in 1..Len(us) : us[i] \in Told
    BY DEF Talk
  <2>2. D!Lines(us) = [i \in 1..Len(us) |-> D!Line(us[i])]
    BY <2>1 DEF D!Lines
  <2> QED
    BY <1>1, <2>1, <2>2
<1>4. PICK u : u = Push(t, ts)
  OBVIOUS
<1>5. u \in Talk /\ <<>> \in Talk
  BY <1>4, PushFacts DEF Talk
<1>6. Len(u) = Len(ts) + 1 /\ Len(ts) \in Nat /\ u[1] = t /\ \A i \in 1..Len(ts) : u[i + 1] = ts[i]
  BY <1>4, ConcatProperties DEF Talk, Push
<1>7. D!Lines(u) = <<D!Line(t)>> \o D!Lines(ts)
  <2>1. PICK p, q, r : p = D!Lines(u) /\ q = D!Lines(ts) /\ r = D!Line(t)
    OBVIOUS
  <2>2. /\ p \in Seq(GoodEvent) /\ q \in Seq(GoodEvent) /\ r \in GoodEvent
        /\ Len(p) = Len(q) + 1 /\ p[1] = r
        /\ \A i \in 1..Len(q) : p[i + 1] = q[i]
    <3>1. /\ p \in Seq(GoodEvent) /\ Len(p) = Len(u)
          /\ \A i \in 1..Len(u) : p[i] = D!Line(u[i])
      BY <1>3, <1>5, <2>1
    <3>2. /\ q \in Seq(GoodEvent) /\ Len(q) = Len(ts)
          /\ \A i \in 1..Len(ts) : q[i] = D!Line(ts[i])
      BY <1>3, <2>1
    <3>3. p[1] = r
      BY <1>6, <2>1, <3>1
    <3>4. ASSUME NEW i \in 1..Len(q)
          PROVE  p[i + 1] = q[i]
      <4>1. i + 1 \in 1..Len(u) /\ i \in 1..Len(ts)
        BY <1>6, <3>2
      <4> QED
        BY <1>6, <3>1, <3>2, <4>1
    <3> QED
      BY <1>1, <1>6, <2>1, <3>1, <3>2, <3>3, <3>4
  <2>3. PICK s : s = <<r>> \o q
    OBVIOUS
  <2>4. s \in Seq(GoodEvent) /\ Len(s) = Len(p)
    BY <2>2, <2>3, ConcatProperties
  <2>5. ASSUME NEW i \in 1..Len(p)
        PROVE  s[i] = p[i]
    <3>1. CASE i = 1
      BY <2>2, <2>3, <3>1, ConcatProperties
    <3>2. CASE i # 1
      <4>1. i - 1 \in 1..Len(q) /\ (i - 1) + 1 = i
        BY <2>2, <3>2
      <4>2. s[i] = q[i - 1]
        BY <2>2, <2>3, <3>2, ConcatProperties
      <4> QED
        BY <2>2, <4>1, <4>2
    <3> QED
      BY <3>1, <3>2
  <2> QED
    BY <2>1, <2>2, <2>3, <2>4, <2>5, SeqEqual
<1>8. D!Lines(<<>>) = <<>>
  BY <1>3, <1>5
<1> QED
  BY <1>1, <1>2, <1>3, <1>4, <1>5, <1>7, <1>8 DEF LinesLeft

LEMMA ReadsNone ==
  ASSUME NEW st, NEW c, NEW e
  PROVE  Reads(<<>>, st, c, e, st, c, e)
<1>1. "empty" \in Told
  BY DEF Told, F!EventTypes, F!CommitEvents, F!ResultEvents
<1>2. <<>> \in Talk
  BY DEF Talk
<1>3. D!Lines(<<>>) = <<>>
  BY <1>1, <1>2, TalkLines
<1> QED
  BY <1>3, HearsNone DEF Reads

\* The first of several lines
LEMMA ReadsFirst ==
  ASSUME NEW t \in Told, NEW ts \in Talk, NEW st1, NEW st2, NEW st3, NEW k,
         NEW c \in F!Context, NEW e \in Events, NEW c2, NEW e2, Takes(t, st1, st2, k),
         NEW d, d = Does(k, D!Line(t), c, e), Reads(ts, st2, d.c, d.e, st3, c2, e2)
  PROVE  Reads(Push(t, ts), st1, c, e, st3, c2, e2)
<1>1. PICK ev : ev = D!Line(t)
  OBVIOUS
<1>2. ev \in GoodEvent /\ ev.type = t /\ D!Lines(ts) \in LinesLeft
      /\ D!Lines(Push(t, ts)) = <<ev>> \o D!Lines(ts)
  BY <1>1, TalkLines
<1>3. Hears(<<ev>>, st1, c, e, st2, d.c, d.e)
  BY <1>1, <1>2, HearsOne
<1>4. <<ev>> \in LinesLeft
  BY <1>2 DEF LinesLeft
<1>5. Hears(<<ev>> \o D!Lines(ts), st1, c, e, st3, c2, e2)
  BY <1>2, <1>3, <1>4, HearsMore DEF Reads
<1> QED
  BY <1>2, <1>5 DEF Reads

LEMMA ReadsKeep ==
  ASSUME NEW t \in Told, NEW ts \in Talk, NEW st1, NEW st2, NEW st3,
         NEW c \in F!Context, NEW e \in Events, NEW c2, NEW e2, Takes(t, st1, st2, "keep"),
         Reads(ts, st2, c, e, st3, c2, e2)
  PROVE  Reads(Push(t, ts), st1, c, e, st3, c2, e2)
<1>1. PICK d : d = Does("keep", D!Line(t), c, e)
  OBVIOUS
<1>2. d.c = c /\ d.e = e
  BY <1>1 DEF Does
<1> QED
  BY <1>1, <1>2, ReadsFirst

LEMMA ReadsNoted ==
  ASSUME NEW t \in Told, NEW ts \in Talk, NEW st1, NEW st2, NEW st3,
         NEW o \in {"commit", "compare_config", "rollback"},
         NEW c \in F!Context, NEW e \in Events, NEW c2, NEW e2, Takes(t, st1, st2, o),
         Reads(ts, st2, Noted(c, o), e, st3, c2, e2)
  PROVE  Reads(Push(t, ts), st1, c, e, st3, c2, e2)
<1>1. PICK d : d = Does(o, D!Line(t), c, e)
  OBVIOUS
<1>2. d.c = Noted(c, o) /\ d.e = e
  BY <1>1 DEF Does, F!TransitionEvent, Noted
<1> QED
  BY <1>1, <1>2, ReadsFirst

LEMMA ReadsFail ==
  ASSUME NEW t \in Told, NEW ts \in Talk, NEW st1, NEW st2, NEW st3,
         NEW c \in F!Context, NEW e \in Events, NEW c2, NEW e2, Takes(t, st1, st2, "fail"),
         Reads(ts, st2, F!FailTransition(c, e).c, F!FailTransition(c, e).e, st3, c2, e2)
  PROVE  Reads(Push(t, ts), st1, c, e, st3, c2, e2)
<1>1. PICK d : d = Does("fail", D!Line(t), c, e)
  OBVIOUS
<1>2. d.c = F!FailTransition(c, e).c /\ d.e = F!FailTransition(c, e).e
  BY <1>1 DEF Does
<1> QED
  BY <1>1, <1>2, ReadsFirst

LEMMA NotedTypes ==
  ASSUME NEW c \in F!Context, NEW o \in {"commit", "compare_config", "rollback"}
  PROVE  Noted(c, o) \in F!Context
<1>1. (c.rollback \/ o = "rollback") \in BOOLEAN /\ o \in F!Failure
  BY DEF F!Failure
<1> QED
  BY <1>1 DEF Noted, F!Context

LEMMA FailTypes ==
  ASSUME NEW c \in F!Context, NEW e \in Events
  PROVE  F!FailTransition(c, e).c \in F!Context /\ F!FailTransition(c, e).e \in Events
<1>1. (IF c.rollback THEN "rollback" ELSE c.event) \in F!Failure
  BY DEF F!Context, F!Failure
<1> QED
  BY <1>1, CompleteTypes DEF F!FailTransition, Events

\* Where the filter waits for a commit, or a comparison, with B below
Compares(B) == Push("action-compare", B)
Commits(B)  == Push("action-commit", Compares(B))

\* What may follow a commit
LEMMA ReadCommits ==
  ASSUME NEW B \in Text, NEW L, Takes("reason", B, L, "keep"), NEW nq \in {"noqueue", "nn"},
         NEW c \in F!Context, NEW e \in Events, NEW cn, cn = Noted(c, "commit"),
         NEW fc, NEW fe, fc = F!FailTransition(cn, e).c, fe = F!FailTransition(cn, e).e
  PROVE  /\ Reads(<<"commit">>, Commits(B), c, e, Push("commit", Compares(B)), cn, e)
         /\ Reads(<<"commit", nq>>, Commits(B), c, e, Push("commit-result", Compares(B)), cn, e)
         /\ Reads(<<"commit", "queue">>,
                   Commits(B), c, e, Push("commit-queue", Compares(B)), cn, e)
         /\ Reads(<<"commit", "empty">>, Commits(B), c, e, Push("commit", Compares(B)), cn, e)
         /\ Reads(<<"commit", "empty", nq, "empty">>, Commits(B), c, e, Compares(B), cn, e)
         /\ Reads(<<"commit", "empty", "queue", "empty">>, Commits(B), c, e, Compares(B), cn, e)
         /\ Reads(<<"commit", nq, "complete">>, Commits(B), c, e, Compares(B), cn, e)
         /\ Reads(<<"commit", "queue", "completed", "complete">>,
                   Commits(B), c, e, Compares(B), cn, e)
         /\ Reads(<<"commit", "queue", "failed", "complete">>,
                   Commits(B), c, e, Compares(B), cn, e)
         /\ Reads(<<"commit", "queue", "failed", "reason", "complete">>,
                   Commits(B), c, e, Compares(B), fc, fe)
         /\ Reads(<<"commit", nq, "reason">>, Commits(B), c, e, Compares(B), fc, fe)
         /\ Reads(<<"commit", "queue", "reason">>,
                   Commits(B), c, e, Push("commit-failed", Push("commit-complete", Compares(B))), cn, e)
         /\ Reads(<<"commit", "reason">>, Commits(B), c, e, L, cn, e)
<1>w. {"action-commit", "action-compare", "commit", "commit-complete", "commit-failed", "commit-queue", "commit-result", "gen-result"} \subseteq Word
  BY DEF Word, F!LogStates
<1>t. {"commit", "complete", "completed", "empty", "failed", nq, "queue", "reason"} \subseteq Told
  BY DEF Told, F!EventTypes, F!CommitEvents, F!ResultEvents
<1>o. {"commit", "complete", "completed", "empty", "failed", nq, "queue", "reason"} \subseteq Word
  BY <1>t DEF Word, Told
<1>e. <<>> \in Talk
  BY DEF Talk
<1>c. cn \in F!Context /\ fc \in F!Context /\ fe \in Events
  BY NotedTypes, FailTypes
<1>1. Compares(B) \in Text
  BY <1>w, PushText DEF Compares
<1>2. Takes("commit", Commits(B), Push("commit", Compares(B)), "commit")
  BY <1>w, <1>1, AtActionCommit DEF Commits, Compares
<1>3. Reads(Push("commit", <<>>), Commits(B), c, e, Push("commit", Compares(B)), cn, e)
  BY <1>t, <1>e, <1>2, ReadsNone, ReadsNoted
<1>4. Takes(nq, Push("commit", Compares(B)), Push("commit-result", Compares(B)), "keep")
  BY <1>w, <1>1, AtCommit
<1>5. Reads(Push(nq, <<>>), Push("commit", Compares(B)), cn, e, Push("commit-result", Compares(B)), cn, e)
  BY <1>t, <1>e, <1>4, <1>c, ReadsNone, ReadsKeep
<1>6. Push(nq, <<>>) \in Talk
  BY <1>t, <1>e, TalkLines
<1>7. Reads(Push("commit", Push(nq, <<>>)), Commits(B), c, e, Push("commit-result", Compares(B)), cn, e)
  BY <1>t, <1>6, <1>2, <1>5, ReadsNoted
<1>8. Takes("queue", Push("commit", Compares(B)), Push("commit-queue", Compares(B)), "keep")
  BY <1>w, <1>1, AtCommit
<1>9. Reads(Push("queue", <<>>), Push("commit", Compares(B)), cn, e, Push("commit-queue", Compares(B)), cn, e)
  BY <1>t, <1>e, <1>8, <1>c, ReadsNone, ReadsKeep
<1>10. Push("queue", <<>>) \in Talk
  BY <1>t, <1>e, TalkLines
<1>11. Reads(Push("commit", Push("queue", <<>>)), Commits(B), c, e, Push("commit-queue", Compares(B)), cn, e)
  BY <1>t, <1>10, <1>2, <1>9, ReadsNoted
<1>12. Takes("empty", Push("commit", Compares(B)), Push("commit", Compares(B)), "keep")
  BY <1>w, <1>1, AtCommit
<1>13. Reads(Push("empty", <<>>), Push("commit", Compares(B)), cn, e, Push("commit", Compares(B)), cn, e)
  BY <1>t, <1>e, <1>12, <1>c, ReadsNone, ReadsKeep
<1>14. Push("empty", <<>>) \in Talk
  BY <1>t, <1>e, TalkLines
<1>15. Reads(Push("commit", Push("empty", <<>>)), Commits(B), c, e, Push("commit", Compares(B)), cn, e)
  BY <1>t, <1>14, <1>2, <1>13, ReadsNoted
<1>16. Takes("empty", Push("commit-result", Compares(B)), Compares(B), "keep")
  BY <1>w, <1>1, AtCommitResult DEF F!ResultEvents
<1>17. Reads(Push("empty", <<>>), Push("commit-result", Compares(B)), cn, e, Compares(B), cn, e)
  BY <1>t, <1>e, <1>16, <1>c, ReadsNone, ReadsKeep
<1>18. Reads(Push(nq, Push("empty", <<>>)), Push("commit", Compares(B)), cn, e, Compares(B), cn, e)
  BY <1>t, <1>14, <1>4, <1>c, <1>17, ReadsKeep
<1>19. Push(nq, Push("empty", <<>>)) \in Talk
  BY <1>t, <1>14, TalkLines
<1>20. Reads(Push("empty", Push(nq, Push("empty", <<>>))), Push("commit", Compares(B)), cn, e, Compares(B), cn, e)
  BY <1>t, <1>19, <1>12, <1>c, <1>18, ReadsKeep
<1>21. Push("empty", Push(nq, Push("empty", <<>>))) \in Talk
  BY <1>t, <1>19, TalkLines
<1>22. Reads(Push("commit", Push("empty", Push(nq, Push("empty", <<>>)))), Commits(B), c, e, Compares(B), cn, e)
  BY <1>t, <1>21, <1>2, <1>20, ReadsNoted
<1>23. Takes("empty", Push("commit-queue", Compares(B)), Compares(B), "keep")
  BY <1>w, <1>1, AtCommitQueue
<1>24. Reads(Push("empty", <<>>), Push("commit-queue", Compares(B)), cn, e, Compares(B), cn, e)
  BY <1>t, <1>e, <1>23, <1>c, ReadsNone, ReadsKeep
<1>25. Reads(Push("queue", Push("empty", <<>>)), Push("commit", Compares(B)), cn, e, Compares(B), cn, e)
  BY <1>t, <1>14, <1>8, <1>c, <1>24, ReadsKeep
<1>26. Push("queue", Push("empty", <<>>)) \in Talk
  BY <1>t, <1>14, TalkLines
<1>27. Reads(Push("empty", Push("queue", Push("empty", <<>>))), Push("commit", Compares(B)), cn, e, Compares(B), cn, e)
  BY <1>t, <1>26, <1>12, <1>c, <1>25, ReadsKeep
<1>28. Push("empty", Push("queue", Push("empty", <<>>))) \in Talk
  BY <1>t, <1>26, TalkLines
<1>29. Reads(Push("commit", Push("empty", Push("queue", Push("empty", <<>>)))), Commits(B), c, e, Compares(B), cn, e)
  BY <1>t, <1>28, <1>2, <1>27, ReadsNoted
<1>30. Takes("complete", Push("commit-result", Compares(B)), Compares(B), "keep")
  BY <1>w, <1>1, AtCommitResult DEF F!ResultEvents
<1>31. Reads(Push("complete", <<>>), Push("commit-result", Compares(B)), cn, e, Compares(B), cn, e)
  BY <1>t, <1>e, <1>30, <1>c, ReadsNone, ReadsKeep
<1>32. Push("complete", <<>>) \in Talk
  BY <1>t, <1>e, TalkLines
<1>33. Reads(Push(nq, Push("complete", <<>>)), Push("commit", Compares(B)), cn, e, Compares(B), cn, e)
  BY <1>t, <1>32, <1>4, <1>c, <1>31, ReadsKeep
<1>34. Push(nq, Push("complete", <<>>)) \in Talk
  BY <1>t, <1>32, TalkLines
<1>35. Reads(Push("commit", Push(nq, Push("complete", <<>>))), Commits(B), c, e, Compares(B), cn, e)
  BY <1>t, <1>34, <1>2, <1>33, ReadsNoted
<1>36. Push("commit-complete", Compares(B)) \in Text
  BY <1>w, <1>1, PushText
<1>37. Takes("completed", Push("commit-queue", Compares(B)), Push("commit-complete", Compares(B)), "keep")
  <2>1. Drops("completed", Push("commit-queue", Compares(B)), Push("gen-result", Push("commit-complete", Compares(B))))
    BY <1>1, AtCommitQueue
  <2>2. Takes("completed", Push("gen-result", Push("commit-complete", Compares(B))), Push("commit-complete", Compares(B)), "keep")
    BY <1>36, AtGenResult DEF F!ResultEvents
  <2> QED
    BY <2>1, <2>2, TakesAfter
<1>38. Takes("complete", Push("commit-complete", Compares(B)), Compares(B), "keep")
  BY <1>w, <1>1, AtCommitComplete
<1>39. Reads(Push("complete", <<>>), Push("commit-complete", Compares(B)), cn, e, Compares(B), cn, e)
  BY <1>t, <1>e, <1>38, <1>c, ReadsNone, ReadsKeep
<1>40. Reads(Push("completed", Push("complete", <<>>)), Push("commit-queue", Compares(B)), cn, e, Compares(B), cn, e)
  BY <1>t, <1>32, <1>37, <1>c, <1>39, ReadsKeep
<1>41. Push("completed", Push("complete", <<>>)) \in Talk
  BY <1>t, <1>32, TalkLines
<1>42. Reads(Push("queue", Push("completed", Push("complete", <<>>))), Push("commit", Compares(B)), cn, e, Compares(B), cn, e)
  BY <1>t, <1>41, <1>8, <1>c, <1>40, ReadsKeep
<1>43. Push("queue", Push("completed", Push("complete", <<>>))) \in Talk
  BY <1>t, <1>41, TalkLines
<1>44. Reads(Push("commit", Push("queue", Push("completed", Push("complete", <<>>)))), Commits(B), c, e, Compares(B), cn, e)
  BY <1>t, <1>43, <1>2, <1>42, ReadsNoted
<1>45. Takes("failed", Push("commit-queue", Compares(B)), Push("commit-failed", Push("commit-complete", Compares(B))), "keep")
  BY <1>w, <1>1, AtCommitQueue
<1>46. Takes("complete", Push("commit-failed", Push("commit-complete", Compares(B))), Compares(B), "keep")
  <2>1. Drops("complete", Push("commit-failed", Push("commit-complete", Compares(B))), Push("commit-complete", Compares(B)))
    BY <1>36, AtCommitFailed
  <2>2. Takes("complete", Push("commit-complete", Compares(B)), Compares(B), "keep")
    BY <1>1, AtCommitComplete DEF Compares
  <2> QED
    BY <2>1, <2>2, TakesAfter
<1>47. Reads(Push("complete", <<>>), Push("commit-failed", Push("commit-complete", Compares(B))), cn, e, Compares(B), cn, e)
  BY <1>t, <1>e, <1>46, <1>c, ReadsNone, ReadsKeep
<1>48. Reads(Push("failed", Push("complete", <<>>)), Push("commit-queue", Compares(B)), cn, e, Compares(B), cn, e)
  BY <1>t, <1>32, <1>45, <1>c, <1>47, ReadsKeep
<1>49. Push("failed", Push("complete", <<>>)) \in Talk
  BY <1>t, <1>32, TalkLines
<1>50. Reads(Push("queue", Push("failed", Push("complete", <<>>))), Push("commit", Compares(B)), cn, e, Compares(B), cn, e)
  BY <1>t, <1>49, <1>8, <1>c, <1>48, ReadsKeep
<1>51. Push("queue", Push("failed", Push("complete", <<>>))) \in Talk
  BY <1>t, <1>49, TalkLines
<1>52. Reads(Push("commit", Push("queue", Push("failed", Push("complete", <<>>)))), Commits(B), c, e, Compares(B), cn, e)
  BY <1>t, <1>51, <1>2, <1>50, ReadsNoted
<1>53. Takes("reason", Push("commit-failed", Push("commit-complete", Compares(B))), Push("commit-complete", Compares(B)), "fail")
  BY <1>w, <1>36, AtCommitFailed
<1>54. Reads(Push("complete", <<>>), Push("commit-complete", Compares(B)), fc, fe, Compares(B), fc, fe)
  BY <1>t, <1>e, <1>38, <1>c, ReadsNone, ReadsKeep
<1>55. Reads(Push("reason", Push("complete", <<>>)), Push("commit-failed", Push("commit-complete", Compares(B))), cn, e, Compares(B), fc, fe)
  BY <1>t, <1>32, <1>53, <1>c, <1>54, ReadsFail
<1>56. Push("reason", Push("complete", <<>>)) \in Talk
  BY <1>t, <1>32, TalkLines
<1>57. Reads(Push("failed", Push("reason", Push("complete", <<>>))), Push("commit-queue", Compares(B)), cn, e, Compares(B), fc, fe)
  BY <1>t, <1>56, <1>45, <1>c, <1>55, ReadsKeep
<1>58. Push("failed", Push("reason", Push("complete", <<>>))) \in Talk
  BY <1>t, <1>56, TalkLines
<1>59. Reads(Push("queue", Push("failed", Push("reason", Push("complete", <<>>)))), Push("commit", Compares(B)), cn, e, Compares(B), fc, fe)
  BY <1>t, <1>58, <1>8, <1>c, <1>57, ReadsKeep
<1>60. Push("queue", Push("failed", Push("reason", Push("complete", <<>>)))) \in Talk
  BY <1>t, <1>58, TalkLines
<1>61. Reads(Push("commit", Push("queue", Push("failed", Push("reason", Push("complete", <<>>))))), Commits(B), c, e, Compares(B), fc, fe)
  BY <1>t, <1>60, <1>2, <1>59, ReadsNoted
<1>62. Takes("reason", Push("commit-result", Compares(B)), Compares(B), "fail")
  <2>1. Drops("reason", Push("commit-result", Compares(B)), Push("commit-failed", Compares(B)))
    BY <1>1, AtCommitResult DEF F!ResultEvents
  <2>2. Takes("reason", Push("commit-failed", Compares(B)), Compares(B), "fail")
    BY <1>1, AtCommitFailed DEF Compares
  <2> QED
    BY <2>1, <2>2, TakesAfter
<1>63. Reads(Push("reason", <<>>), Push("commit-result", Compares(B)), cn, e, Compares(B), fc, fe)
  BY <1>t, <1>e, <1>62, <1>c, ReadsNone, ReadsFail
<1>64. Push("reason", <<>>) \in Talk
  BY <1>t, <1>e, TalkLines
<1>65. Reads(Push(nq, Push("reason", <<>>)), Push("commit", Compares(B)), cn, e, Compares(B), fc, fe)
  BY <1>t, <1>64, <1>4, <1>c, <1>63, ReadsKeep
<1>66. Push(nq, Push("reason", <<>>)) \in Talk
  BY <1>t, <1>64, TalkLines
<1>67. Reads(Push("commit", Push(nq, Push("reason", <<>>))), Commits(B), c, e, Compares(B), fc, fe)
  BY <1>t, <1>66, <1>2, <1>65, ReadsNoted
<1>68. Takes("reason", Push("commit-queue", Compares(B)), Push("commit-failed", Push("commit-complete", Compares(B))), "keep")
  BY <1>w, <1>1, AtCommitQueue
<1>69. Reads(Push("reason", <<>>), Push("commit-queue", Compares(B)), cn, e, Push("commit-failed", Push("commit-complete", Compares(B))), cn, e)
  BY <1>t, <1>e, <1>68, <1>c, ReadsNone, ReadsKeep
<1>70. Reads(Push("queue", Push("reason", <<>>)), Push("commit", Compares(B)), cn, e, Push("commit-failed", Push("commit-complete", Compares(B))), cn, e)
  BY <1>t, <1>64, <1>8, <1>c, <1>69, ReadsKeep
<1>71. Push("queue", Push("reason", <<>>)) \in Talk
  BY <1>t, <1>64, TalkLines
<1>72. Reads(Push("commit", Push("queue", Push("reason", <<>>))), Commits(B), c, e, Push("commit-failed", Push("commit-complete", Compares(B))), cn, e)
  BY <1>t, <1>71, <1>2, <1>70, ReadsNoted
<1>73. Takes("reason", Push("commit", Compares(B)), L, "keep")
  <2>1. Drops("reason", Push("commit", Compares(B)), Compares(B))
    BY <1>1, AtCommit DEF Compares
  <2>2. Drops("reason", Compares(B), B)
    BY AtActionCompare DEF Compares
  <2>3. Drops("reason", Push("commit", Compares(B)), B)
    BY <2>1, <2>2, DropsOn
  <2>4. Takes("reason", B, L, "keep")
    OBVIOUS
  <2> QED
    BY <2>3, <2>4, TakesAfter
<1>74. Reads(Push("reason", <<>>), Push("commit", Compares(B)), cn, e, L, cn, e)
  BY <1>t, <1>e, <1>73, <1>c, ReadsNone, ReadsKeep
<1>75. Reads(Push("commit", Push("reason", <<>>)), Commits(B), c, e, L, cn, e)
  BY <1>t, <1>64, <1>2, <1>74, ReadsNoted
<1>76. Reads(<<"commit">>, Commits(B), c, e, Push("commit", Compares(B)), cn, e)
  <2>1. PICK p : p = <<"commit">>
    OBVIOUS
  <2>2. p \in Text
    BY <1>o, <2>1 DEF Text
  <2>3. p \o <<>> = Push("commit", <<>>)
    BY <1>o, EmptyText, <2>1, Push1
  <2> QED
    BY <1>3, <2>1, <2>2, <2>3, Push0
<1>77. Reads(<<"commit", nq>>, Commits(B), c, e, Push("commit-result", Compares(B)), cn, e)
  <2>0. "commit" \in Word /\ nq \in Word
    BY <1>o
  <2>1. <<"commit", nq>> = Push("commit", Push(nq, <<>>))
    BY <2>0, Words2, Zenon
  <2> QED
    BY <1>7, <2>1
<1>78. Reads(<<"commit", "queue">>, Commits(B), c, e, Push("commit-queue", Compares(B)), cn, e)
  <2>0. "commit" \in Word /\ "queue" \in Word
    BY <1>o
  <2>1. <<"commit", "queue">> = Push("commit", Push("queue", <<>>))
    BY <2>0, Words2, Zenon
  <2> QED
    BY <1>11, <2>1
<1>79. Reads(<<"commit", "empty">>, Commits(B), c, e, Push("commit", Compares(B)), cn, e)
  <2>0. "commit" \in Word /\ "empty" \in Word
    BY <1>o
  <2>1. <<"commit", "empty">> = Push("commit", Push("empty", <<>>))
    BY <2>0, Words2, Zenon
  <2> QED
    BY <1>15, <2>1
<1>80. Reads(<<"commit", "empty", nq, "empty">>, Commits(B), c, e, Compares(B), cn, e)
  <2>0. "commit" \in Word /\ "empty" \in Word /\ nq \in Word
    BY <1>o
  <2>1. <<"commit", "empty", nq, "empty">> = Push("commit", Push("empty", Push(nq, Push("empty", <<>>))))
    BY <2>0, Words4, ZenonT(60)
  <2> QED
    BY <1>22, <2>1
<1>81. Reads(<<"commit", "empty", "queue", "empty">>, Commits(B), c, e, Compares(B), cn, e)
  <2>0. "commit" \in Word /\ "empty" \in Word /\ "queue" \in Word
    BY <1>o
  <2>1. <<"commit", "empty", "queue", "empty">> = Push("commit", Push("empty", Push("queue", Push("empty", <<>>))))
    BY <2>0, Words4, ZenonT(60)
  <2> QED
    BY <1>29, <2>1
<1>82. Reads(<<"commit", nq, "complete">>, Commits(B), c, e, Compares(B), cn, e)
  <2>0. "commit" \in Word /\ nq \in Word /\ "complete" \in Word
    BY <1>o
  <2>1. <<"commit", nq, "complete">> = Push("commit", Push(nq, Push("complete", <<>>)))
    BY <2>0, Words3, Zenon
  <2> QED
    BY <1>35, <2>1
<1>83. Reads(<<"commit", "queue", "completed", "complete">>, Commits(B), c, e, Compares(B), cn, e)
  <2>0. "commit" \in Word /\ "queue" \in Word /\ "completed" \in Word /\ "complete" \in Word
    BY <1>o
  <2>1. <<"commit", "queue", "completed", "complete">> = Push("commit", Push("queue", Push("completed", Push("complete", <<>>))))
    BY <2>0, Words4
  <2> QED
    BY <1>44, <2>1
<1>84. Reads(<<"commit", "queue", "failed", "complete">>, Commits(B), c, e, Compares(B), cn, e)
  <2>0. "commit" \in Word /\ "queue" \in Word /\ "failed" \in Word /\ "complete" \in Word
    BY <1>o
  <2>1. <<"commit", "queue", "failed", "complete">> = Push("commit", Push("queue", Push("failed", Push("complete", <<>>))))
    BY <2>0, Words4
  <2> QED
    BY <1>52, <2>1
<1>85. Reads(<<"commit", "queue", "failed", "reason", "complete">>, Commits(B), c, e, Compares(B), fc, fe)
  <2>1. PICK p, o : p = <<"commit", "queue", "failed", "reason", "complete">> /\ o = <<"queue", "failed", "reason", "complete">>
    OBVIOUS
  <2>2. p \in Text /\ o \in Text
    BY <1>o, <2>1 DEF Text
  <2>0. "queue" \in Word /\ "failed" \in Word /\ "reason" \in Word /\ "complete" \in Word
    BY <1>o
  <2>3. <<"queue", "failed", "reason", "complete">>
          = Push("queue", Push("failed", Push("reason", Push("complete", <<>>))))
    BY <2>0, Words4
  <2>4. \A i \in 1..Len(o) : p[i + 1] = o[i]
    BY <2>1
  <2>5. Extends(p, "commit", o)
    BY <2>1, <2>4 DEF Extends
  <2>6. p = Push("commit", o)
    BY <1>o, <2>2, <2>5, PushIs
  <2> QED
    BY <1>61, <2>1, <2>3, <2>6
<1>86. Reads(<<"commit", nq, "reason">>, Commits(B), c, e, Compares(B), fc, fe)
  <2>0. "commit" \in Word /\ nq \in Word /\ "reason" \in Word
    BY <1>o
  <2>1. <<"commit", nq, "reason">> = Push("commit", Push(nq, Push("reason", <<>>)))
    BY <2>0, Words3, Zenon
  <2> QED
    BY <1>67, <2>1
<1>87. Reads(<<"commit", "queue", "reason">>, Commits(B), c, e, Push("commit-failed", Push("commit-complete", Compares(B))), cn, e)
  <2>0. "commit" \in Word /\ "queue" \in Word /\ "reason" \in Word
    BY <1>o
  <2>1. <<"commit", "queue", "reason">> = Push("commit", Push("queue", Push("reason", <<>>)))
    BY <2>0, Words3, Zenon
  <2> QED
    BY <1>72, <2>1
<1>88. Reads(<<"commit", "reason">>, Commits(B), c, e, L, cn, e)
  <2>0. "commit" \in Word /\ "reason" \in Word
    BY <1>o
  <2>1. <<"commit", "reason">> = Push("commit", Push("reason", <<>>))
    BY <2>0, Words2, Zenon
  <2> QED
    BY <1>75, <2>1
<1> QED
  BY <1>76, <1>77, <1>78, <1>79, <1>80, <1>81, <1>82, <1>83, <1>84, <1>85, <1>86, <1>87, <1>88

\* Events that the log states above st2 do not expect
Unfit(st, st2) ==
  \A t \in {"reason", "compare_config", "diff"} : Takes(t, st, st2, "keep")

LEMMA ReadsDrop ==
  ASSUME NEW t \in Told, NEW ts \in Talk, NEW st1, NEW st2, NEW st3,
         NEW c \in F!Context, NEW e \in Events, NEW c2, NEW e2, Drops(t, st1, st2),
         Reads(Push(t, ts), st2, c, e, st3, c2, e2)
  PROVE  Reads(Push(t, ts), st1, c, e, st3, c2, e2)
<1>1. PICK ev, p : ev = D!Line(t) /\ p = D!Lines(ts)
  OBVIOUS
<1>2. ev \in GoodEvent /\ ev.type = t /\ p \in LinesLeft
      /\ D!Lines(Push(t, ts)) = <<ev>> \o p
  BY <1>1, TalkLines
<1> SUFFICES ASSUME NEW q \in LinesLeft
             PROVE  Reach(<<(<<ev>> \o p) \o q, st1, c, e>>, <<q, st3, c2, e2>>)
  BY <1>2 DEF Reads, Hears
<1>3. Reach(<<(<<ev>> \o p) \o q, st2, c, e>>, <<q, st3, c2, e2>>)
  BY <1>2 DEF Reads, Hears
<1>4. PICK r : r = p \o q
  OBVIOUS
<1>5. r \in LinesLeft
  BY <1>2, <1>4 DEF LinesLeft
<1>6. (<<ev>> \o p) \o q = Push(ev, r)
  <2>1. <<ev>> \in Seq(GoodEvent)
    BY <1>2
  <2> QED
    BY <1>2, <1>4, <2>1, ConcatAssociative, ConcatProperties DEF LinesLeft, Push
<1>7. Reach(<<Push(ev, r), st1, c, e>>, <<Push(ev, r), st2, c, e>>)
  <2>1. Falls(ev, st1, st2)
    BY <1>2 DEF Drops
  <2> QED
    BY <1>5, <2>1 DEF Falls
<1> QED
  BY <1>3, <1>6, <1>7, ReachOn

LEMMA LinesConcat ==
  ASSUME NEW ts \in Talk, NEW us \in Talk
  PROVE  D!Lines(ts \o us) = D!Lines(ts) \o D!Lines(us) /\ ts \o us \in Talk
<1>1. ASSUME NEW vs \in Talk
      PROVE  /\ D!Lines(vs) \in Seq(GoodEvent) /\ Len(D!Lines(vs)) = Len(vs) /\ Len(vs) \in Nat
             /\ \A i \in 1..Len(vs) : D!Lines(vs)[i] = D!Line(vs[i])
  <2>1. Len(vs) \in Nat /\ DOMAIN vs = 1..Len(vs) /\ \A i \in 1..Len(vs) : vs[i] \in Told
    BY DEF Talk
  <2>2. D!Lines(vs) = [i \in 1..Len(vs) |-> D!Line(vs[i])]
    BY <2>1 DEF D!Lines
  <2>3. \A i \in 1..Len(vs) : D!Line(vs[i]) \in GoodEvent
    BY <2>1 DEF Told, D!Line, GoodEvent, F!Event
  <2> QED
    BY <2>1, <2>2, <2>3
<1>2. PICK v : v = ts \o us
  OBVIOUS
<1>3. v \in Talk /\ Len(v) = Len(ts) + Len(us)
      /\ \A i \in 1..Len(v) : v[i] = IF i <= Len(ts) THEN ts[i] ELSE us[i - Len(ts)]
  BY <1>2, ConcatProperties DEF Talk
<1>4. PICK p, q, r : p = D!Lines(v) /\ q = D!Lines(ts) /\ r = D!Lines(us)
  OBVIOUS
<1>5. /\ p \in Seq(GoodEvent) /\ Len(p) = Len(v)
      /\ \A i \in 1..Len(v) : p[i] = D!Line(v[i])
  BY <1>1, <1>3, <1>4
<1>6. /\ q \in Seq(GoodEvent) /\ Len(q) = Len(ts) /\ Len(ts) \in Nat
      /\ \A i \in 1..Len(ts) : q[i] = D!Line(ts[i])
  BY <1>1, <1>4
<1>7. /\ r \in Seq(GoodEvent) /\ Len(r) = Len(us) /\ Len(us) \in Nat
      /\ \A i \in 1..Len(us) : r[i] = D!Line(us[i])
  BY <1>1, <1>4
<1>8. PICK s : s = q \o r
  OBVIOUS
<1>9. s \in Seq(GoodEvent) /\ Len(s) = Len(q) + Len(r)
      /\ \A i \in 1..Len(s) : s[i] = IF i <= Len(q) THEN q[i] ELSE r[i - Len(q)]
  <2>1. q \in Seq(GoodEvent) /\ r \in Seq(GoodEvent)
    BY <1>6, <1>7
  <2> QED
    BY <1>8, <2>1, ConcatProperties
<1>10. ASSUME NEW i \in 1..Len(p)
       PROVE  p[i] = s[i]
  <2>1. CASE i <= Len(ts)
    BY <1>3, <1>5, <1>6, <1>7, <1>9, <2>1
  <2>2. CASE ~(i <= Len(ts))
    <3>1. i - Len(ts) \in 1..Len(us)
      BY <1>3, <1>5, <1>6, <1>7, <2>2
    <3> QED
      BY <1>3, <1>5, <1>6, <1>7, <1>9, <2>2, <3>1
  <2> QED
    BY <2>1, <2>2
<1>11. p = s
  BY <1>3, <1>5, <1>6, <1>7, <1>9, <1>10, SeqEqual
<1> QED
  BY <1>2, <1>3, <1>4, <1>8, <1>11

LEMMA ReadsMore ==
  ASSUME NEW ts \in Talk, NEW us \in Talk, NEW st1, NEW c1, NEW e1, NEW st2, NEW c2, NEW e2,
         NEW st3, NEW c3, NEW e3,
         Reads(ts, st1, c1, e1, st2, c2, e2), Reads(us, st2, c2, e2, st3, c3, e3)
  PROVE  Reads(ts \o us, st1, c1, e1, st3, c3, e3)
<1>1. "empty" \in Told
  BY DEF Told, F!EventTypes, F!CommitEvents, F!ResultEvents
<1>2. D!Lines(ts) \in LinesLeft /\ D!Lines(us) \in LinesLeft
  BY <1>1, TalkLines
<1>3. D!Lines(ts \o us) = D!Lines(ts) \o D!Lines(us)
  BY LinesConcat
<1> QED
  BY <1>2, <1>3, HearsMore DEF Reads

\* What may follow a comparison; the filter does not expect two of them
LEMMA ReadCompares ==
  ASSUME NEW B \in Text, NEW L, Unfit(B, L), Unfit(L, L),
         NEW c \in F!Context, NEW e \in Events, NEW cq, cq = Noted(c, "compare_config"),
         NEW fc, NEW fe, fc = F!FailTransition(cq, e).c, fe = F!FailTransition(cq, e).e
  PROVE  /\ Reads(<<"compare_config">>, Compares(B), c, e, Push("compare", B), cq, e)
         /\ Reads(<<"compare_config", "diff">>, Compares(B), c, e, B, fc, fe)
         /\ Reads(<<"compare_config", "compare_config">>, Compares(B), c, e, L, cq, e)
         /\ Reads(<<"compare_config", "compare_config", "diff">>, Compares(B), c, e, L, cq, e)
         /\ Reads(<<"compare_config", "diff", "compare_config">>, Compares(B), c, e, L, fc, fe)
         /\ Reads(<<"compare_config", "diff", "compare_config", "diff">>,
                   Compares(B), c, e, L, fc, fe)
<1>w. {"action-compare", "compare"} \subseteq Word
  BY DEF Word, F!LogStates
<1>t. {"compare_config", "diff"} \subseteq Told
  BY DEF Told, F!EventTypes, F!CommitEvents, F!ResultEvents
<1>o. {"compare_config", "diff"} \subseteq Word
  BY <1>t DEF Word, Told
<1>e. <<>> \in Talk
  BY DEF Talk
<1>c. cq \in F!Context /\ fc \in F!Context /\ fe \in Events
  BY NotedTypes, FailTypes
<1>1. Takes("compare_config", Compares(B), Push("compare", B), "compare_config")
  BY <1>w, AtActionCompare DEF Compares
<1>2. Reads(Push("compare_config", <<>>), Compares(B), c, e, Push("compare", B), cq, e)
  BY <1>t, <1>e, <1>1, ReadsNone, ReadsNoted
<1>3. Takes("diff", Push("compare", B), B, "fail")
  BY <1>w, AtCompare
<1>4. Reads(Push("diff", <<>>), Push("compare", B), cq, e, B, fc, fe)
  BY <1>t, <1>e, <1>3, <1>c, ReadsNone, ReadsFail
<1>5. Push("diff", <<>>) \in Talk
  BY <1>t, <1>e, TalkLines
<1>6. Reads(Push("compare_config", Push("diff", <<>>)), Compares(B), c, e, B, fc, fe)
  BY <1>t, <1>5, <1>1, <1>4, ReadsNoted
<1>7. Takes("compare_config", Push("compare", B), L, "keep")
  <2>1. Drops("compare_config", Push("compare", B), B)
    BY AtCompare
  <2>2. Takes("compare_config", B, L, "keep")
    BY DEF Unfit
  <2> QED
    BY <2>1, <2>2, TakesAfter
<1>8. Reads(Push("compare_config", <<>>), Push("compare", B), cq, e, L, cq, e)
  BY <1>t, <1>e, <1>7, <1>c, ReadsNone, ReadsKeep
<1>9. Push("compare_config", <<>>) \in Talk
  BY <1>t, <1>e, TalkLines
<1>10. Reads(Push("compare_config", Push("compare_config", <<>>)), Compares(B), c, e, L, cq, e)
  BY <1>t, <1>9, <1>1, <1>8, ReadsNoted
<1>11. Takes("diff", L, L, "keep")
  BY DEF Unfit
<1>12. Reads(Push("diff", <<>>), L, cq, e, L, cq, e)
  BY <1>t, <1>e, <1>11, <1>c, ReadsNone, ReadsKeep
<1>13. Reads(Push("compare_config", Push("diff", <<>>)), Push("compare", B), cq, e, L, cq, e)
  BY <1>t, <1>5, <1>7, <1>c, <1>12, ReadsKeep
<1>14. Push("compare_config", Push("diff", <<>>)) \in Talk
  BY <1>t, <1>5, TalkLines
<1>15. Reads(Push("compare_config", Push("compare_config", Push("diff", <<>>))), Compares(B), c, e, L, cq, e)
  BY <1>t, <1>14, <1>1, <1>13, ReadsNoted
<1>16. Takes("compare_config", B, L, "keep")
  BY DEF Unfit
<1>17. Reads(Push("compare_config", <<>>), B, fc, fe, L, fc, fe)
  BY <1>t, <1>e, <1>16, <1>c, ReadsNone, ReadsKeep
<1>18. Reads(Push("diff", Push("compare_config", <<>>)), Push("compare", B), cq, e, L, fc, fe)
  BY <1>t, <1>9, <1>3, <1>c, <1>17, ReadsFail
<1>19. Push("diff", Push("compare_config", <<>>)) \in Talk
  BY <1>t, <1>9, TalkLines
<1>20. Reads(Push("compare_config", Push("diff", Push("compare_config", <<>>))), Compares(B), c, e, L, fc, fe)
  BY <1>t, <1>19, <1>1, <1>18, ReadsNoted
<1>21. Reads(Push("diff", <<>>), L, fc, fe, L, fc, fe)
  BY <1>t, <1>e, <1>11, <1>c, ReadsNone, ReadsKeep
<1>22. Reads(Push("compare_config", Push("diff", <<>>)), B, fc, fe, L, fc, fe)
  BY <1>t, <1>5, <1>16, <1>c, <1>21, ReadsKeep
<1>23. Reads(Push("diff", Push("compare_config", Push("diff", <<>>))), Push("compare", B), cq, e, L, fc, fe)
  BY <1>t, <1>14, <1>3, <1>c, <1>22, ReadsFail
<1>24. Push("diff", Push("compare_config", Push("diff", <<>>))) \in Talk
  BY <1>t, <1>14, TalkLines
<1>25. Reads(Push("compare_config", Push("diff", Push("compare_config", Push("diff", <<>>)))), Compares(B), c, e, L, fc, fe)
  BY <1>t, <1>24, <1>1, <1>23, ReadsNoted
<1>26. Reads(<<"compare_config">>, Compares(B), c, e, Push("compare", B), cq, e)
  <2>1. PICK p : p = <<"compare_config">>
    OBVIOUS
  <2>2. p \in Text
    BY <1>o, <2>1 DEF Text
  <2>3. p \o <<>> = Push("compare_config", <<>>)
    BY <1>o, EmptyText, <2>1, Push1
  <2> QED
    BY <1>2, <2>1, <2>2, <2>3, Push0
<1>27. Reads(<<"compare_config", "diff">>, Compares(B), c, e, B, fc, fe)
  <2>0. "compare_config" \in Word /\ "diff" \in Word
    BY <1>o
  <2>1. <<"compare_config", "diff">> = Push("compare_config", Push("diff", <<>>))
    BY <2>0, Words2, Zenon
  <2> QED
    BY <1>6, <2>1
<1>28. Reads(<<"compare_config", "compare_config">>, Compares(B), c, e, L, cq, e)
  <2>0. "compare_config" \in Word
    BY <1>o
  <2>1. <<"compare_config", "compare_config">> = Push("compare_config", Push("compare_config", <<>>))
    BY <2>0, Words2, Zenon
  <2> QED
    BY <1>10, <2>1
<1>29. Reads(<<"compare_config", "compare_config", "diff">>, Compares(B), c, e, L, cq, e)
  <2>0. "compare_config" \in Word /\ "diff" \in Word
    BY <1>o
  <2>1. <<"compare_config", "compare_config", "diff">> = Push("compare_config", Push("compare_config", Push("diff", <<>>)))
    BY <2>0, Words3, Zenon
  <2> QED
    BY <1>15, <2>1
<1>30. Reads(<<"compare_config", "diff", "compare_config">>, Compares(B), c, e, L, fc, fe)
  <2>0. "compare_config" \in Word /\ "diff" \in Word
    BY <1>o
  <2>1. <<"compare_config", "diff", "compare_config">> = Push("compare_config", Push("diff", Push("compare_config", <<>>)))
    BY <2>0, Words3, Zenon
  <2> QED
    BY <1>20, <2>1
<1>31. Reads(<<"compare_config", "diff", "compare_config", "diff">>, Compares(B), c, e, L, fc, fe)
  <2>0. "compare_config" \in Word /\ "diff" \in Word
    BY <1>o
  <2>1. <<"compare_config", "diff", "compare_config", "diff">> = Push("compare_config", Push("diff", Push("compare_config", Push("diff", <<>>))))
    BY <2>0, Words4, ZenonT(60)
  <2> QED
    BY <1>25, <2>1
<1> QED
  BY <1>26, <1>27, <1>28, <1>29, <1>30, <1>31

----------------------------------------------------------------------------
(* Where the stack may be, with R below the transition, or its restore     *)

\* While a transition is made, or when it has failed
Made(R) ==
  LET b == Push("rollbacks", R)
  IN {Push("transition", R),
      Push("commits", Push("load", Commits(b))),
      Push("load-failure", Commits(b)),
      Commits(b),
      Push("commit", Compares(b)),
      Push("commit-result", Compares(b)),
      Push("commit-queue", Compares(b)),
      Push("commit-failed", Push("commit-complete", Compares(b))),
      Compares(b),
      Push("compare", b),
      b}

\* After a teardown
Torn(R) ==
  LET b == Push("gen-trans-failed", R)
  IN {Push("gen-restore", Commits(b)),
      Commits(b),
      Push("commit", Compares(b)),
      Compares(b),
      Push("compare", b),
      b}

\* What interrupts a transition, and a teardown
Breaks == {"teardown", "failed_states", "init_failed", "start", "transition", "py_test"}
Failing == Breaks \cup {"trans_failed"}

LEMMA MadeFalls ==
  ASSUME NEW t \in Failing, NEW R \in Text, NEW s \in Made(R)
  PROVE  Drops(t, s, R)
<1>w. {"action-commit", "action-compare", "commit", "commit-complete", "commit-failed", "commit-queue", "commit-result", "commits", "compare", "gen-result", "load", "load-failure", "rollbacks", "transition"} \subseteq Word
  BY DEF Word, F!LogStates
<1>1. Drops(t, Push("rollbacks", R), R)
  BY AtRollbacks DEF Failing, Breaks
<1>2. Push("rollbacks", R) \in Text
  BY <1>w, PushText
<1>3. Drops(t, Compares(Push("rollbacks", R)), R)
  <2>1. Drops(t, Compares(Push("rollbacks", R)), Push("rollbacks", R))
    BY <1>2, AtActionCompare DEF Failing, Breaks, Compares
  <2> QED
    BY <1>1, <2>1, DropsOn
<1>4. Compares(Push("rollbacks", R)) \in Text
  BY <1>w, <1>2, PushText DEF Compares
<1>5. Drops(t, Commits(Push("rollbacks", R)), R)
  <2>1. Drops(t, Commits(Push("rollbacks", R)), Compares(Push("rollbacks", R)))
    BY <1>4, AtActionCommit DEF Failing, Breaks, Commits, Compares
  <2> QED
    BY <1>3, <2>1, DropsOn
<1>6. Commits(Push("rollbacks", R)) \in Text
  BY <1>w, <1>4, PushText DEF Commits, Compares
<1>7. Drops(t, Push("load", Commits(Push("rollbacks", R))), R)
  <2>1. Drops(t, Push("load", Commits(Push("rollbacks", R))), Commits(Push("rollbacks", R)))
    BY <1>6, AtLoad DEF Failing, Breaks, Commits, Compares
  <2> QED
    BY <1>5, <2>1, DropsOn
<1>8. Push("load", Commits(Push("rollbacks", R))) \in Text
  BY <1>w, <1>6, PushText
<1>9. Drops(t, Push("commits", Push("load", Commits(Push("rollbacks", R)))), R)
  <2>1. Drops(t, Push("commits", Push("load", Commits(Push("rollbacks", R)))), Push("load", Commits(Push("rollbacks", R))))
    BY <1>8, AtCommits DEF Failing, Breaks, F!CommitEvents, F!ResultEvents
  <2> QED
    BY <1>7, <2>1, DropsOn
<1>10. Drops(t, Push("transition", R), R)
  <2>1. Drops(t, Push("transition", R), Push("commits", Push("load", Commits(Push("rollbacks", R)))))
    BY AtTransition DEF Failing, Breaks, Commits, Compares
  <2> QED
    BY <1>9, <2>1, DropsOn
<1>11. Drops(t, Push("load-failure", Commits(Push("rollbacks", R))), R)
  <2>1. Drops(t, Push("load-failure", Commits(Push("rollbacks", R))), Commits(Push("rollbacks", R)))
    BY <1>6, AtLoadFailure DEF Failing, Breaks, Commits, Compares
  <2> QED
    BY <1>5, <2>1, DropsOn
<1>12. Drops(t, Push("commit", Compares(Push("rollbacks", R))), R)
  <2>1. Drops(t, Push("commit", Compares(Push("rollbacks", R))), Compares(Push("rollbacks", R)))
    BY <1>4, AtCommit DEF Failing, Breaks, Compares
  <2> QED
    BY <1>3, <2>1, DropsOn
<1>13. Drops(t, Push("commit-result", Compares(Push("rollbacks", R))), R)
  <2>1. Drops(t, Push("commit-result", Compares(Push("rollbacks", R))), Compares(Push("rollbacks", R)))
    BY <1>4, AtCommitResult DEF Failing, Breaks, Compares, F!ResultEvents
  <2> QED
    BY <1>3, <2>1, DropsOn
<1>14. Drops(t, Push("commit-complete", Compares(Push("rollbacks", R))), R)
  <2>1. Drops(t, Push("commit-complete", Compares(Push("rollbacks", R))), Compares(Push("rollbacks", R)))
    BY <1>4, AtCommitComplete DEF Failing, Breaks, Compares
  <2> QED
    BY <1>3, <2>1, DropsOn
<1>15. Push("commit-complete", Compares(Push("rollbacks", R))) \in Text
  BY <1>w, <1>4, PushText
<1>16. Drops(t, Push("gen-result", Push("commit-complete", Compares(Push("rollbacks", R)))), R)
  <2>1. Drops(t, Push("gen-result", Push("commit-complete", Compares(Push("rollbacks", R)))), Push("commit-complete", Compares(Push("rollbacks", R))))
    BY <1>15, AtGenResult DEF Failing, Breaks, F!ResultEvents
  <2> QED
    BY <1>14, <2>1, DropsOn
<1>17. Drops(t, Push("commit-queue", Compares(Push("rollbacks", R))), R)
  <2>1. Drops(t, Push("commit-queue", Compares(Push("rollbacks", R))), Push("gen-result", Push("commit-complete", Compares(Push("rollbacks", R)))))
    BY <1>4, AtCommitQueue DEF Failing, Breaks
  <2> QED
    BY <1>16, <2>1, DropsOn
<1>18. Drops(t, Push("commit-failed", Push("commit-complete", Compares(Push("rollbacks", R)))), R)
  <2>1. Drops(t, Push("commit-failed", Push("commit-complete", Compares(Push("rollbacks", R)))), Push("commit-complete", Compares(Push("rollbacks", R))))
    BY <1>15, AtCommitFailed DEF Failing, Breaks
  <2> QED
    BY <1>14, <2>1, DropsOn
<1>19. Drops(t, Push("compare", Push("rollbacks", R)), R)
  <2>1. Drops(t, Push("compare", Push("rollbacks", R)), Push("rollbacks", R))
    BY <1>2, AtCompare DEF Failing, Breaks
  <2> QED
    BY <1>1, <2>1, DropsOn
<1> QED
  BY <1>10, <1>9, <1>11, <1>5, <1>12, <1>13, <1>17, <1>18, <1>3, <1>19, <1>1 DEF Made

LEMMA TornFalls ==
  ASSUME NEW t \in Breaks, NEW R \in Text, NEW s \in Torn(R)
  PROVE  Drops(t, s, R)
<1>w. {"action-commit", "action-compare", "commit", "commit-complete", "commits", "compare", "gen-restore", "gen-result", "gen-trans-failed", "load"} \subseteq Word
  BY DEF Word, F!LogStates
<1>1. Drops(t, Push("gen-trans-failed", R), R)
  BY AtGenTransFailed DEF Breaks
<1>2. Push("gen-trans-failed", R) \in Text
  BY <1>w, PushText
<1>3. Drops(t, Compares(Push("gen-trans-failed", R)), R)
  <2>1. Drops(t, Compares(Push("gen-trans-failed", R)), Push("gen-trans-failed", R))
    BY <1>2, AtActionCompare DEF Breaks, Compares
  <2> QED
    BY <1>1, <2>1, DropsOn
<1>4. Compares(Push("gen-trans-failed", R)) \in Text
  BY <1>w, <1>2, PushText DEF Compares
<1>5. Drops(t, Commits(Push("gen-trans-failed", R)), R)
  <2>1. Drops(t, Commits(Push("gen-trans-failed", R)), Compares(Push("gen-trans-failed", R)))
    BY <1>4, AtActionCommit DEF Breaks, Commits, Compares
  <2> QED
    BY <1>3, <2>1, DropsOn
<1>6. Commits(Push("gen-trans-failed", R)) \in Text
  BY <1>w, <1>4, PushText DEF Commits, Compares
<1>7. Drops(t, Push("gen-restore", Commits(Push("gen-trans-failed", R))), R)
  <2>1. Drops(t, Push("gen-restore", Commits(Push("gen-trans-failed", R))), Commits(Push("gen-trans-failed", R)))
    BY <1>6, AtGenRestore DEF Breaks, Commits, Compares
  <2> QED
    BY <1>5, <2>1, DropsOn
<1>8. Drops(t, Push("commit", Compares(Push("gen-trans-failed", R))), R)
  <2>1. Drops(t, Push("commit", Compares(Push("gen-trans-failed", R))), Compares(Push("gen-trans-failed", R)))
    BY <1>4, AtCommit DEF Breaks, Compares
  <2> QED
    BY <1>3, <2>1, DropsOn
<1>9. Drops(t, Push("compare", Push("gen-trans-failed", R)), R)
  <2>1. Drops(t, Push("compare", Push("gen-trans-failed", R)), Push("gen-trans-failed", R))
    BY <1>2, AtCompare DEF Breaks
  <2> QED
    BY <1>1, <2>1, DropsOn
<1> QED
  BY <1>7, <1>5, <1>8, <1>3, <1>9, <1>1 DEF Torn

\* What is below a transition, or its restore: nothing for transition-to-state,
\* or what walk-states and explore-transitions go on with
WT == Push("walk-transitions", <<>>)
ET == Push("explore-transitions", <<>>)
EX == Push("extended", ET)
TX == Push("gen-trans-failed", Push("gen-init-failed", Push("teardown", EX)))

\* Events that do not fit are ignored, or end a repetition
LEMMA UnfitTakes ==
  /\ Takes("reason", <<>>, <<>>, "keep")
  /\ Takes("compare_config", <<>>, <<>>, "keep")
  /\ Takes("diff", <<>>, <<>>, "keep")
  /\ Takes("reason", WT, WT, "keep")
  /\ Takes("compare_config", WT, WT, "keep")
  /\ Takes("diff", WT, WT, "keep")
  /\ Takes("reason", ET, ET, "keep")
  /\ Takes("compare_config", ET, ET, "keep")
  /\ Takes("diff", ET, ET, "keep")
  /\ Takes("reason", EX, ET, "keep")
  /\ Takes("compare_config", EX, ET, "keep")
  /\ Takes("diff", EX, ET, "keep")
  /\ Takes("reason", TX, ET, "keep")
  /\ Takes("compare_config", TX, ET, "keep")
  /\ Takes("diff", TX, ET, "keep")
<1>w. {"explore-transitions", "extended", "gen-init-failed", "gen-trans-failed", "teardown", "walk-transitions"} \subseteq Word
  BY DEF Word, F!LogStates
<1>1. Takes("reason", <<>>, <<>>, "keep")
  BY Ignored
<1>2. Takes("compare_config", <<>>, <<>>, "keep")
  BY Ignored
<1>3. Takes("diff", <<>>, <<>>, "keep")
  BY Ignored
<1>4. Takes("reason", WT, WT, "keep")
  BY EmptyText, AtWalkTransitions DEF WT
<1>5. Takes("compare_config", WT, WT, "keep")
  BY EmptyText, AtWalkTransitions DEF WT
<1>6. Takes("diff", WT, WT, "keep")
  BY EmptyText, AtWalkTransitions DEF WT
<1>7. Takes("reason", ET, ET, "keep")
  BY EmptyText, AtExploreTransitions DEF ET
<1>8. Takes("compare_config", ET, ET, "keep")
  BY EmptyText, AtExploreTransitions DEF ET
<1>9. Takes("diff", ET, ET, "keep")
  BY EmptyText, AtExploreTransitions DEF ET
<1>10. ET \in Text
  BY <1>w, EmptyText, PushText DEF ET
<1>11. Takes("reason", EX, ET, "keep")
  <2>1. Drops("reason", EX, ET)
    BY <1>10, AtExtended DEF ET, EX
  <2>2. Takes("reason", ET, ET, "keep")
    BY EmptyText, AtExploreTransitions DEF ET
  <2> QED
    BY <2>1, <2>2, TakesAfter
<1>12. Takes("compare_config", EX, ET, "keep")
  <2>1. Drops("compare_config", EX, ET)
    BY <1>10, AtExtended DEF ET, EX
  <2>2. Takes("compare_config", ET, ET, "keep")
    BY EmptyText, AtExploreTransitions DEF ET
  <2> QED
    BY <2>1, <2>2, TakesAfter
<1>13. Takes("diff", EX, ET, "keep")
  <2>1. Drops("diff", EX, ET)
    BY <1>10, AtExtended DEF ET, EX
  <2>2. Takes("diff", ET, ET, "keep")
    BY EmptyText, AtExploreTransitions DEF ET
  <2> QED
    BY <2>1, <2>2, TakesAfter
<1>14. EX \in Text
  BY <1>w, <1>10, PushText DEF ET, EX
<1>15. Push("teardown", EX) \in Text
  BY <1>w, <1>14, PushText DEF EX, ET
<1>16. Push("gen-init-failed", Push("teardown", EX)) \in Text
  BY <1>w, <1>15, PushText DEF EX, ET
<1>17. Takes("reason", TX, ET, "keep")
  <2>1. Drops("reason", TX, Push("gen-init-failed", Push("teardown", EX)))
    BY <1>16, AtGenTransFailed DEF EX, TX, ET
  <2>2. Drops("reason", Push("gen-init-failed", Push("teardown", EX)), Push("teardown", EX))
    BY <1>15, AtGenInitFailed DEF EX, ET
  <2>3. Drops("reason", TX, Push("teardown", EX))
    BY <2>1, <2>2, DropsOn
  <2>4. Drops("reason", Push("teardown", EX), EX)
    BY <1>14, AtTeardown DEF EX, ET, Commits, Compares
  <2>5. Drops("reason", TX, EX)
    BY <2>3, <2>4, DropsOn
  <2>6. Drops("reason", EX, ET)
    BY <1>10, AtExtended DEF ET, EX
  <2>7. Drops("reason", TX, ET)
    BY <2>5, <2>6, DropsOn
  <2>8. Takes("reason", ET, ET, "keep")
    BY EmptyText, AtExploreTransitions DEF ET
  <2> QED
    BY <2>7, <2>8, TakesAfter
<1>18. Takes("compare_config", TX, ET, "keep")
  <2>1. Drops("compare_config", TX, Push("gen-init-failed", Push("teardown", EX)))
    BY <1>16, AtGenTransFailed DEF EX, TX, ET
  <2>2. Drops("compare_config", Push("gen-init-failed", Push("teardown", EX)), Push("teardown", EX))
    BY <1>15, AtGenInitFailed DEF EX, ET
  <2>3. Drops("compare_config", TX, Push("teardown", EX))
    BY <2>1, <2>2, DropsOn
  <2>4. Drops("compare_config", Push("teardown", EX), EX)
    BY <1>14, AtTeardown DEF EX, ET, Commits, Compares
  <2>5. Drops("compare_config", TX, EX)
    BY <2>3, <2>4, DropsOn
  <2>6. Drops("compare_config", EX, ET)
    BY <1>10, AtExtended DEF ET, EX
  <2>7. Drops("compare_config", TX, ET)
    BY <2>5, <2>6, DropsOn
  <2>8. Takes("compare_config", ET, ET, "keep")
    BY EmptyText, AtExploreTransitions DEF ET
  <2> QED
    BY <2>7, <2>8, TakesAfter
<1>19. Takes("diff", TX, ET, "keep")
  <2>1. Drops("diff", TX, Push("gen-init-failed", Push("teardown", EX)))
    BY <1>16, AtGenTransFailed DEF EX, TX, ET
  <2>2. Drops("diff", Push("gen-init-failed", Push("teardown", EX)), Push("teardown", EX))
    BY <1>15, AtGenInitFailed DEF EX, ET
  <2>3. Drops("diff", TX, Push("teardown", EX))
    BY <2>1, <2>2, DropsOn
  <2>4. Drops("diff", Push("teardown", EX), EX)
    BY <1>14, AtTeardown DEF EX, ET, Commits, Compares
  <2>5. Drops("diff", TX, EX)
    BY <2>3, <2>4, DropsOn
  <2>6. Drops("diff", EX, ET)
    BY <1>10, AtExtended DEF ET, EX
  <2>7. Drops("diff", TX, ET)
    BY <2>5, <2>6, DropsOn
  <2>8. Takes("diff", ET, ET, "keep")
    BY EmptyText, AtExploreTransitions DEF ET
  <2> QED
    BY <2>7, <2>8, TakesAfter
<1> QED
  BY <1>1, <1>2, <1>3, <1>4, <1>5, <1>6, <1>7, <1>8, <1>9, <1>11, <1>12, <1>13, <1>17, <1>18, <1>19

LEMMA UnfitTails ==
  /\ Unfit(<<>>, <<>>) /\ Unfit(WT, WT) /\ Unfit(ET, ET) /\ Unfit(EX, ET) /\ Unfit(TX, ET)
BY UnfitTakes DEF Unfit

LEMMA UnfitBase ==
  ASSUME NEW R \in Text, NEW L, Unfit(R, L)
  PROVE  Unfit(Push("rollbacks", R), L) /\ Unfit(Push("gen-trans-failed", R), L)
<1> SUFFICES ASSUME NEW t \in {"reason", "compare_config", "diff"}
             PROVE  /\ Takes(t, Push("rollbacks", R), L, "keep")
                    /\ Takes(t, Push("gen-trans-failed", R), L, "keep")
  BY DEF Unfit
<1>1. Takes(t, R, L, "keep")
  BY DEF Unfit
<1>2. Drops(t, Push("rollbacks", R), R)
  BY AtRollbacks
<1>3. Drops(t, Push("gen-trans-failed", R), R)
  BY AtGenTransFailed
<1> QED
  BY <1>1, <1>2, <1>3, TakesAfter

\* What goes on below a transition
LEMMA TailTakes ==
  /\ Takes("teardown", <<>>, <<>>, "keep")
  /\ Takes("failed_states", <<>>, <<>>, "keep")
  /\ Takes("teardown", WT, Push("gen-restore", Commits(Push("gen-trans-failed", WT))), "keep")
  /\ Takes("py_test", WT, Push("transition", WT), "keep")
  /\ Takes("failed_states", WT, <<>>, "keep")
  /\ Takes("teardown", TX, Push("gen-restore", Commits(Push("gen-trans-failed", EX))), "keep")
  /\ Takes("teardown", ET, ET, "keep")
  /\ Takes("restore", <<>>, <<>>, "keep")
  /\ Takes("restore", ET, ET, "keep")
  /\ Takes("commit", <<>>, <<>>, "keep")
  /\ Takes("commit", ET, ET, "keep")
  /\ Takes("noqueue", ET, ET, "keep")
  /\ Takes("empty", ET, ET, "keep")
  /\ Takes("nn", ET, ET, "keep")
  /\ Takes("complete", ET, ET, "keep")
  /\ Takes("init_failed", EX, ET, "keep")
  /\ Takes("init_failed", ET, ET, "keep")
  /\ Takes("start", ET, Push("gen-prepare", Push("transition", EX)), "start")
  /\ Takes("start", EX, Push("gen-prepare", Push("transition", EX)), "start")
  /\ Takes("transition", EX, Push("gen-prepare", Push("transition", TX)), "keep")
  /\ Takes("transition", ET, ET, "keep")
  /\ Takes("prepare", ET, ET, "keep")
  /\ Takes("trans_failed", TX, Push("gen-init-failed", Push("teardown", EX)), "keep")
  /\ Takes("trans_failed", ET, ET, "keep")
<1>w. {"action-commit", "action-compare", "explore-transitions", "extended", "gen-init-failed", "gen-prepare", "gen-restore", "gen-trans-failed", "teardown", "transition", "walk-transitions"} \subseteq Word
  BY DEF Word, F!LogStates
<1>1. Takes("teardown", <<>>, <<>>, "keep")
  BY Ignored
<1>2. Takes("failed_states", <<>>, <<>>, "keep")
  BY Ignored
<1>3. WT \in Text
  BY <1>w, EmptyText, PushText DEF WT
<1>4. Takes("teardown", WT, Push("gen-restore", Commits(Push("gen-trans-failed", WT))), "keep")
  <2>1. Drops("teardown", WT, Push("teardown", WT))
    BY EmptyText, AtWalkTransitions DEF WT
  <2>2. Takes("teardown", Push("teardown", WT), Push("gen-restore", Commits(Push("gen-trans-failed", WT))), "keep")
    BY <1>3, AtTeardown DEF WT, Commits, Compares
  <2> QED
    BY <2>1, <2>2, TakesAfter
<1>5. Takes("py_test", WT, Push("transition", WT), "keep")
  BY EmptyText, AtWalkTransitions DEF WT
<1>6. Takes("failed_states", WT, <<>>, "keep")
  BY EmptyText, AtWalkTransitions DEF WT
<1>7. ET \in Text
  BY <1>w, EmptyText, PushText DEF ET
<1>8. EX \in Text
  BY <1>w, <1>7, PushText DEF ET, EX
<1>9. Push("teardown", EX) \in Text
  BY <1>w, <1>8, PushText DEF EX, ET
<1>10. Push("gen-init-failed", Push("teardown", EX)) \in Text
  BY <1>w, <1>9, PushText DEF EX, ET
<1>11. Takes("teardown", TX, Push("gen-restore", Commits(Push("gen-trans-failed", EX))), "keep")
  <2>1. Drops("teardown", TX, Push("gen-init-failed", Push("teardown", EX)))
    BY <1>10, AtGenTransFailed DEF EX, TX, ET
  <2>2. Drops("teardown", Push("gen-init-failed", Push("teardown", EX)), Push("teardown", EX))
    BY <1>9, AtGenInitFailed DEF EX, ET
  <2>3. Drops("teardown", TX, Push("teardown", EX))
    BY <2>1, <2>2, DropsOn
  <2>4. Takes("teardown", Push("teardown", EX), Push("gen-restore", Commits(Push("gen-trans-failed", EX))), "keep")
    BY <1>8, AtTeardown DEF EX, Commits, ET, Compares
  <2> QED
    BY <2>3, <2>4, TakesAfter
<1>12. Takes("teardown", ET, ET, "keep")
  BY EmptyText, AtExploreTransitions DEF ET
<1>13. Takes("restore", <<>>, <<>>, "keep")
  BY Ignored
<1>14. Takes("restore", ET, ET, "keep")
  BY EmptyText, AtExploreTransitions DEF ET
<1>15. Takes("commit", <<>>, <<>>, "keep")
  BY Ignored
<1>16. Takes("commit", ET, ET, "keep")
  BY EmptyText, AtExploreTransitions DEF ET
<1>17. Takes("noqueue", ET, ET, "keep")
  BY EmptyText, AtExploreTransitions DEF ET
<1>18. Takes("empty", ET, ET, "keep")
  BY EmptyText, AtExploreTransitions DEF ET
<1>19. Takes("nn", ET, ET, "keep")
  BY EmptyText, AtExploreTransitions DEF ET
<1>20. Takes("complete", ET, ET, "keep")
  BY EmptyText, AtExploreTransitions DEF ET
<1>21. Takes("init_failed", EX, ET, "keep")
  BY <1>7, AtExtended DEF ET, EX
<1>22. Takes("init_failed", ET, ET, "keep")
  BY EmptyText, AtExploreTransitions DEF ET
<1>23. Takes("start", ET, Push("gen-prepare", Push("transition", EX)), "start")
  BY EmptyText, AtExploreTransitions DEF ET, EX
<1>24. Takes("start", EX, Push("gen-prepare", Push("transition", EX)), "start")
  <2>1. Drops("start", EX, ET)
    BY <1>7, AtExtended DEF ET, EX
  <2>2. Takes("start", ET, Push("gen-prepare", Push("transition", EX)), "start")
    BY EmptyText, AtExploreTransitions DEF ET, EX
  <2> QED
    BY <2>1, <2>2, TakesAfter
<1>25. Takes("transition", EX, Push("gen-prepare", Push("transition", TX)), "keep")
  BY <1>7, AtExtended DEF EX, TX, ET
<1>26. Takes("transition", ET, ET, "keep")
  BY EmptyText, AtExploreTransitions DEF ET
<1>27. Takes("prepare", ET, ET, "keep")
  BY EmptyText, AtExploreTransitions DEF ET
<1>28. Takes("trans_failed", TX, Push("gen-init-failed", Push("teardown", EX)), "keep")
  BY <1>10, AtGenTransFailed DEF EX, TX, ET
<1>29. Takes("trans_failed", ET, ET, "keep")
  BY EmptyText, AtExploreTransitions DEF ET
<1> QED
  BY <1>1, <1>2, <1>4, <1>5, <1>6, <1>11, <1>12, <1>13, <1>14, <1>15, <1>16, <1>17, <1>18, <1>19, <1>20, <1>21, <1>22, <1>23, <1>24, <1>25, <1>26, <1>27, <1>28, <1>29

LEMMA BaseTakes ==
  ASSUME NEW R \in Text
  PROVE  /\ Takes("load", Push("transition", R), Push("load-failure", Commits(Push("rollbacks", R))), "load")
         /\ Takes("load", Push("commits", Push("load", Commits(Push("rollbacks", R)))), Push("load-failure", Commits(Push("rollbacks", R))), "load")
         /\ Takes("noqueue", Push("transition", R), Push("commits", Push("load", Commits(Push("rollbacks", R)))), "keep")
         /\ Takes("noqueue", Push("commits", R), Push("commits", R), "keep")
         /\ Takes("empty", Push("commits", R), Push("commits", R), "keep")
         /\ Takes("reason", Push("commits", R), Push("commits", R), "keep")
         /\ Takes("prepare", Push("gen-prepare", R), R, "keep")
         /\ Takes("trans_failed", Push("gen-trans-failed", R), R, "keep")
         /\ Takes("restore", Push("gen-restore", R), R, "keep")
         /\ Takes("rollback", Push("compare", Push("rollbacks", R)), Commits(Push("rollbacks", R)), "rollback")
<1>w. {"action-commit", "action-compare", "action-rollback", "commits", "compare", "gen-prepare", "gen-restore", "gen-trans-failed", "load", "load-failure", "rollbacks", "transition"} \subseteq Word
  BY DEF Word, F!LogStates
<1>1. Push("rollbacks", R) \in Text
  BY <1>w, PushText
<1>2. Compares(Push("rollbacks", R)) \in Text
  BY <1>w, <1>1, PushText DEF Compares
<1>3. Commits(Push("rollbacks", R)) \in Text
  BY <1>w, <1>2, PushText DEF Commits, Compares
<1>4. Push("load", Commits(Push("rollbacks", R))) \in Text
  BY <1>w, <1>3, PushText DEF Commits, Compares
<1>5. Takes("load", Push("transition", R), Push("load-failure", Commits(Push("rollbacks", R))), "load")
  <2>1. Drops("load", Push("transition", R), Push("commits", Push("load", Commits(Push("rollbacks", R)))))
    BY AtTransition DEF Commits, Compares
  <2>2. Drops("load", Push("commits", Push("load", Commits(Push("rollbacks", R)))), Push("load", Commits(Push("rollbacks", R))))
    BY <1>4, AtCommits DEF Commits, Compares, F!CommitEvents, F!ResultEvents
  <2>3. Drops("load", Push("transition", R), Push("load", Commits(Push("rollbacks", R))))
    BY <2>1, <2>2, DropsOn
  <2>4. Takes("load", Push("load", Commits(Push("rollbacks", R))), Push("load-failure", Commits(Push("rollbacks", R))), "load")
    BY <1>3, AtLoad DEF Commits, Compares
  <2> QED
    BY <2>3, <2>4, TakesAfter
<1>6. Takes("load", Push("commits", Push("load", Commits(Push("rollbacks", R)))), Push("load-failure", Commits(Push("rollbacks", R))), "load")
  <2>1. Drops("load", Push("commits", Push("load", Commits(Push("rollbacks", R)))), Push("load", Commits(Push("rollbacks", R))))
    BY <1>4, AtCommits DEF Commits, Compares, F!CommitEvents, F!ResultEvents
  <2>2. Takes("load", Push("load", Commits(Push("rollbacks", R))), Push("load-failure", Commits(Push("rollbacks", R))), "load")
    BY <1>3, AtLoad DEF Commits, Compares
  <2> QED
    BY <2>1, <2>2, TakesAfter
<1>7. Takes("noqueue", Push("transition", R), Push("commits", Push("load", Commits(Push("rollbacks", R)))), "keep")
  <2>1. Drops("noqueue", Push("transition", R), Push("commits", Push("load", Commits(Push("rollbacks", R)))))
    BY AtTransition DEF Commits, Compares
  <2>2. Takes("noqueue", Push("commits", Push("load", Commits(Push("rollbacks", R)))), Push("commits", Push("load", Commits(Push("rollbacks", R)))), "keep")
    BY <1>4, AtCommits DEF Commits, Compares, F!CommitEvents, F!ResultEvents
  <2> QED
    BY <2>1, <2>2, TakesAfter
<1>8. Takes("noqueue", Push("commits", R), Push("commits", R), "keep")
  BY AtCommits DEF F!CommitEvents, F!ResultEvents
<1>9. Takes("empty", Push("commits", R), Push("commits", R), "keep")
  BY AtCommits DEF F!CommitEvents, F!ResultEvents
<1>10. Takes("reason", Push("commits", R), Push("commits", R), "keep")
  BY AtCommits DEF F!CommitEvents, F!ResultEvents
<1>11. Takes("prepare", Push("gen-prepare", R), R, "keep")
  BY AtGenPrepare
<1>12. Takes("trans_failed", Push("gen-trans-failed", R), R, "keep")
  BY AtGenTransFailed
<1>13. Takes("restore", Push("gen-restore", R), R, "keep")
  BY AtGenRestore
<1>14. Takes("rollback", Push("compare", Push("rollbacks", R)), Commits(Push("rollbacks", R)), "rollback")
  <2>1. Drops("rollback", Push("compare", Push("rollbacks", R)), Push("rollbacks", R))
    BY <1>1, AtCompare
  <2>2. Drops("rollback", Push("rollbacks", R), Push("action-rollback", Commits(Push("rollbacks", R))))
    BY AtRollbacks DEF Commits, Compares
  <2>3. Drops("rollback", Push("compare", Push("rollbacks", R)), Push("action-rollback", Commits(Push("rollbacks", R))))
    BY <2>1, <2>2, DropsOn
  <2>4. Takes("rollback", Push("action-rollback", Commits(Push("rollbacks", R))), Commits(Push("rollbacks", R)), "rollback")
    BY <1>3, AtActionRollback DEF Commits, Compares
  <2> QED
    BY <2>3, <2>4, TakesAfter
<1> QED
  BY <1>5, <1>6, <1>7, <1>8, <1>9, <1>10, <1>11, <1>12, <1>13, <1>14

LEMMA LoadTakes ==
  /\ Takes("load", WT, Push("load-failure", Commits(Push("rollbacks", WT))), "load")
  /\ Takes("load", Push("commits", WT), Push("load-failure", Commits(Push("rollbacks", WT))), "load")
  /\ Takes("load", Push("compare", Push("rollbacks", WT)), Push("load-failure", Commits(Push("rollbacks", WT))), "load")
  /\ Takes("load", Push("compare", Push("gen-trans-failed", WT)), Push("load-failure", Commits(Push("rollbacks", WT))), "load")
  /\ Takes("noqueue", Push("transition-test", <<>>), Push("commits", Push("load", Commits(Push("rollbacks", <<>>)))), "keep")
  /\ Takes("init_states", Push("explore", <<>>), ET, "keep")
<1>w. {"action-commit", "action-compare", "commits", "compare", "explore", "explore-transitions", "gen-init-states", "gen-trans-failed", "load", "load-failure", "rollbacks", "transition", "transition-test", "walk-transitions"} \subseteq Word
  BY DEF Word, F!LogStates
<1>1. WT \in Text
  BY <1>w, EmptyText, PushText DEF WT
<1>2. Push("rollbacks", WT) \in Text
  BY <1>w, <1>1, PushText DEF WT
<1>3. Compares(Push("rollbacks", WT)) \in Text
  BY <1>w, <1>2, PushText DEF WT, Compares
<1>4. Commits(Push("rollbacks", WT)) \in Text
  BY <1>w, <1>3, PushText DEF WT, Commits, Compares
<1>5. Push("load", Commits(Push("rollbacks", WT))) \in Text
  BY <1>w, <1>4, PushText DEF WT, Commits, Compares
<1>6. Takes("load", WT, Push("load-failure", Commits(Push("rollbacks", WT))), "load")
  <2>1. Drops("load", WT, Push("transition", WT))
    BY EmptyText, AtWalkTransitions DEF WT
  <2>2. Drops("load", Push("transition", WT), Push("commits", Push("load", Commits(Push("rollbacks", WT)))))
    BY <1>1, AtTransition DEF WT, Commits, Compares
  <2>3. Drops("load", WT, Push("commits", Push("load", Commits(Push("rollbacks", WT)))))
    BY <2>1, <2>2, DropsOn
  <2>4. Drops("load", Push("commits", Push("load", Commits(Push("rollbacks", WT)))), Push("load", Commits(Push("rollbacks", WT))))
    BY <1>5, AtCommits DEF WT, Commits, Compares, F!CommitEvents, F!ResultEvents
  <2>5. Drops("load", WT, Push("load", Commits(Push("rollbacks", WT))))
    BY <2>3, <2>4, DropsOn
  <2>6. Takes("load", Push("load", Commits(Push("rollbacks", WT))), Push("load-failure", Commits(Push("rollbacks", WT))), "load")
    BY <1>4, AtLoad DEF WT, Commits, Compares
  <2> QED
    BY <2>5, <2>6, TakesAfter
<1>7. Takes("load", Push("commits", WT), Push("load-failure", Commits(Push("rollbacks", WT))), "load")
  <2>1. Drops("load", Push("commits", WT), WT)
    BY <1>1, AtCommits DEF WT, F!CommitEvents, F!ResultEvents
  <2>2. Drops("load", WT, Push("transition", WT))
    BY EmptyText, AtWalkTransitions DEF WT
  <2>3. Drops("load", Push("commits", WT), Push("transition", WT))
    BY <2>1, <2>2, DropsOn
  <2>4. Drops("load", Push("transition", WT), Push("commits", Push("load", Commits(Push("rollbacks", WT)))))
    BY <1>1, AtTransition DEF WT, Commits, Compares
  <2>5. Drops("load", Push("commits", WT), Push("commits", Push("load", Commits(Push("rollbacks", WT)))))
    BY <2>3, <2>4, DropsOn
  <2>6. Drops("load", Push("commits", Push("load", Commits(Push("rollbacks", WT)))), Push("load", Commits(Push("rollbacks", WT))))
    BY <1>5, AtCommits DEF WT, Commits, Compares, F!CommitEvents, F!ResultEvents
  <2>7. Drops("load", Push("commits", WT), Push("load", Commits(Push("rollbacks", WT))))
    BY <2>5, <2>6, DropsOn
  <2>8. Takes("load", Push("load", Commits(Push("rollbacks", WT))), Push("load-failure", Commits(Push("rollbacks", WT))), "load")
    BY <1>4, AtLoad DEF WT, Commits, Compares
  <2> QED
    BY <2>7, <2>8, TakesAfter
<1>8. Takes("load", Push("compare", Push("rollbacks", WT)), Push("load-failure", Commits(Push("rollbacks", WT))), "load")
  <2>1. Drops("load", Push("compare", Push("rollbacks", WT)), Push("rollbacks", WT))
    BY <1>2, AtCompare DEF WT
  <2>2. Drops("load", Push("rollbacks", WT), WT)
    BY <1>1, AtRollbacks DEF WT, Commits, Compares
  <2>3. Drops("load", Push("compare", Push("rollbacks", WT)), WT)
    BY <2>1, <2>2, DropsOn
  <2>4. Drops("load", WT, Push("transition", WT))
    BY EmptyText, AtWalkTransitions DEF WT
  <2>5. Drops("load", Push("compare", Push("rollbacks", WT)), Push("transition", WT))
    BY <2>3, <2>4, DropsOn
  <2>6. Drops("load", Push("transition", WT), Push("commits", Push("load", Commits(Push("rollbacks", WT)))))
    BY <1>1, AtTransition DEF WT, Commits, Compares
  <2>7. Drops("load", Push("compare", Push("rollbacks", WT)), Push("commits", Push("load", Commits(Push("rollbacks", WT)))))
    BY <2>5, <2>6, DropsOn
  <2>8. Drops("load", Push("commits", Push("load", Commits(Push("rollbacks", WT)))), Push("load", Commits(Push("rollbacks", WT))))
    BY <1>5, AtCommits DEF WT, Commits, Compares, F!CommitEvents, F!ResultEvents
  <2>9. Drops("load", Push("compare", Push("rollbacks", WT)), Push("load", Commits(Push("rollbacks", WT))))
    BY <2>7, <2>8, DropsOn
  <2>10. Takes("load", Push("load", Commits(Push("rollbacks", WT))), Push("load-failure", Commits(Push("rollbacks", WT))), "load")
    BY <1>4, AtLoad DEF WT, Commits, Compares
  <2> QED
    BY <2>9, <2>10, TakesAfter
<1>9. Push("gen-trans-failed", WT) \in Text
  BY <1>w, <1>1, PushText DEF WT
<1>10. Takes("load", Push("compare", Push("gen-trans-failed", WT)), Push("load-failure", Commits(Push("rollbacks", WT))), "load")
  <2>1. Drops("load", Push("compare", Push("gen-trans-failed", WT)), Push("gen-trans-failed", WT))
    BY <1>9, AtCompare DEF WT
  <2>2. Drops("load", Push("gen-trans-failed", WT), WT)
    BY <1>1, AtGenTransFailed DEF WT
  <2>3. Drops("load", Push("compare", Push("gen-trans-failed", WT)), WT)
    BY <2>1, <2>2, DropsOn
  <2>4. Drops("load", WT, Push("transition", WT))
    BY EmptyText, AtWalkTransitions DEF WT
  <2>5. Drops("load", Push("compare", Push("gen-trans-failed", WT)), Push("transition", WT))
    BY <2>3, <2>4, DropsOn
  <2>6. Drops("load", Push("transition", WT), Push("commits", Push("load", Commits(Push("rollbacks", WT)))))
    BY <1>1, AtTransition DEF WT, Commits, Compares
  <2>7. Drops("load", Push("compare", Push("gen-trans-failed", WT)), Push("commits", Push("load", Commits(Push("rollbacks", WT)))))
    BY <2>5, <2>6, DropsOn
  <2>8. Drops("load", Push("commits", Push("load", Commits(Push("rollbacks", WT)))), Push("load", Commits(Push("rollbacks", WT))))
    BY <1>5, AtCommits DEF WT, Commits, Compares, F!CommitEvents, F!ResultEvents
  <2>9. Drops("load", Push("compare", Push("gen-trans-failed", WT)), Push("load", Commits(Push("rollbacks", WT))))
    BY <2>7, <2>8, DropsOn
  <2>10. Takes("load", Push("load", Commits(Push("rollbacks", WT))), Push("load-failure", Commits(Push("rollbacks", WT))), "load")
    BY <1>4, AtLoad DEF WT, Commits, Compares
  <2> QED
    BY <2>9, <2>10, TakesAfter
<1>11. Push("rollbacks", <<>>) \in Text
  BY <1>w, EmptyText, PushText
<1>12. Compares(Push("rollbacks", <<>>)) \in Text
  BY <1>w, <1>11, PushText DEF Compares
<1>13. Commits(Push("rollbacks", <<>>)) \in Text
  BY <1>w, <1>12, PushText DEF Commits, Compares
<1>14. Push("load", Commits(Push("rollbacks", <<>>))) \in Text
  BY <1>w, <1>13, PushText DEF Commits, Compares
<1>15. Takes("noqueue", Push("transition-test", <<>>), Push("commits", Push("load", Commits(Push("rollbacks", <<>>)))), "keep")
  <2>1. Drops("noqueue", Push("transition-test", <<>>), Push("transition", <<>>))
    BY EmptyText, AtTransitionTest
  <2>2. Drops("noqueue", Push("transition", <<>>), Push("commits", Push("load", Commits(Push("rollbacks", <<>>)))))
    BY EmptyText, AtTransition DEF Commits, Compares
  <2>3. Drops("noqueue", Push("transition-test", <<>>), Push("commits", Push("load", Commits(Push("rollbacks", <<>>)))))
    BY <2>1, <2>2, DropsOn
  <2>4. Takes("noqueue", Push("commits", Push("load", Commits(Push("rollbacks", <<>>)))), Push("commits", Push("load", Commits(Push("rollbacks", <<>>)))), "keep")
    BY <1>14, AtCommits DEF Commits, Compares, F!CommitEvents, F!ResultEvents
  <2> QED
    BY <2>3, <2>4, TakesAfter
<1>16. ET \in Text
  BY <1>w, EmptyText, PushText DEF ET
<1>17. Takes("init_states", Push("explore", <<>>), ET, "keep")
  <2>1. Drops("init_states", Push("explore", <<>>), Push("gen-init-states", ET))
    BY EmptyText, AtExplore DEF ET
  <2>2. Takes("init_states", Push("gen-init-states", ET), ET, "keep")
    BY <1>16, AtGenInitStates DEF ET
  <2> QED
    BY <2>1, <2>2, TakesAfter
<1> QED
  BY <1>6, <1>7, <1>8, <1>10, <1>15, <1>17

LEMMA NextTakes ==
  /\ Takes("start", Push("compare", Push("gen-trans-failed", EX)), Push("gen-prepare", Push("transition", EX)), "start")
  /\ Takes("transition", Push("compare", Push("gen-trans-failed", EX)), Push("gen-prepare", Push("transition", TX)), "keep")
  /\ Takes("start", Push("gen-init-failed", Push("teardown", EX)), Push("gen-prepare", Push("transition", EX)), "start")
  /\ Takes("transition", Push("gen-init-failed", Push("teardown", EX)), Push("gen-prepare", Push("transition", TX)), "keep")
  /\ Takes("transition", Push("compare", Push("rollbacks", EX)), Push("gen-prepare", Push("transition", TX)), "keep")
<1>w. {"compare", "explore-transitions", "extended", "gen-init-failed", "gen-prepare", "gen-trans-failed", "rollbacks", "teardown", "transition"} \subseteq Word
  BY DEF Word, F!LogStates
<1>1. ET \in Text
  BY <1>w, EmptyText, PushText DEF ET
<1>2. EX \in Text
  BY <1>w, <1>1, PushText DEF ET, EX
<1>3. Push("gen-trans-failed", EX) \in Text
  BY <1>w, <1>2, PushText DEF EX, ET
<1>4. Takes("start", Push("compare", Push("gen-trans-failed", EX)), Push("gen-prepare", Push("transition", EX)), "start")
  <2>1. Drops("start", Push("compare", Push("gen-trans-failed", EX)), Push("gen-trans-failed", EX))
    BY <1>3, AtCompare DEF EX, ET
  <2>2. Drops("start", Push("gen-trans-failed", EX), EX)
    BY <1>2, AtGenTransFailed DEF EX, ET
  <2>3. Drops("start", Push("compare", Push("gen-trans-failed", EX)), EX)
    BY <2>1, <2>2, DropsOn
  <2>4. Drops("start", EX, ET)
    BY <1>1, AtExtended DEF ET, EX
  <2>5. Drops("start", Push("compare", Push("gen-trans-failed", EX)), ET)
    BY <2>3, <2>4, DropsOn
  <2>6. Takes("start", ET, Push("gen-prepare", Push("transition", EX)), "start")
    BY EmptyText, AtExploreTransitions DEF ET, EX
  <2> QED
    BY <2>5, <2>6, TakesAfter
<1>5. Takes("transition", Push("compare", Push("gen-trans-failed", EX)), Push("gen-prepare", Push("transition", TX)), "keep")
  <2>1. Drops("transition", Push("compare", Push("gen-trans-failed", EX)), Push("gen-trans-failed", EX))
    BY <1>3, AtCompare DEF EX, ET
  <2>2. Drops("transition", Push("gen-trans-failed", EX), EX)
    BY <1>2, AtGenTransFailed DEF EX, ET
  <2>3. Drops("transition", Push("compare", Push("gen-trans-failed", EX)), EX)
    BY <2>1, <2>2, DropsOn
  <2>4. Takes("transition", EX, Push("gen-prepare", Push("transition", TX)), "keep")
    BY <1>1, AtExtended DEF EX, TX, ET
  <2> QED
    BY <2>3, <2>4, TakesAfter
<1>6. Push("teardown", EX) \in Text
  BY <1>w, <1>2, PushText DEF EX, ET
<1>7. Takes("start", Push("gen-init-failed", Push("teardown", EX)), Push("gen-prepare", Push("transition", EX)), "start")
  <2>1. Drops("start", Push("gen-init-failed", Push("teardown", EX)), Push("teardown", EX))
    BY <1>6, AtGenInitFailed DEF EX, ET
  <2>2. Drops("start", Push("teardown", EX), EX)
    BY <1>2, AtTeardown DEF EX, ET, Commits, Compares
  <2>3. Drops("start", Push("gen-init-failed", Push("teardown", EX)), EX)
    BY <2>1, <2>2, DropsOn
  <2>4. Drops("start", EX, ET)
    BY <1>1, AtExtended DEF ET, EX
  <2>5. Drops("start", Push("gen-init-failed", Push("teardown", EX)), ET)
    BY <2>3, <2>4, DropsOn
  <2>6. Takes("start", ET, Push("gen-prepare", Push("transition", EX)), "start")
    BY EmptyText, AtExploreTransitions DEF ET, EX
  <2> QED
    BY <2>5, <2>6, TakesAfter
<1>8. Takes("transition", Push("gen-init-failed", Push("teardown", EX)), Push("gen-prepare", Push("transition", TX)), "keep")
  <2>1. Drops("transition", Push("gen-init-failed", Push("teardown", EX)), Push("teardown", EX))
    BY <1>6, AtGenInitFailed DEF EX, ET
  <2>2. Drops("transition", Push("teardown", EX), EX)
    BY <1>2, AtTeardown DEF EX, ET, Commits, Compares
  <2>3. Drops("transition", Push("gen-init-failed", Push("teardown", EX)), EX)
    BY <2>1, <2>2, DropsOn
  <2>4. Takes("transition", EX, Push("gen-prepare", Push("transition", TX)), "keep")
    BY <1>1, AtExtended DEF EX, TX, ET
  <2> QED
    BY <2>3, <2>4, TakesAfter
<1>9. Push("rollbacks", EX) \in Text
  BY <1>w, <1>2, PushText DEF EX, ET
<1>10. Takes("transition", Push("compare", Push("rollbacks", EX)), Push("gen-prepare", Push("transition", TX)), "keep")
  <2>1. Drops("transition", Push("compare", Push("rollbacks", EX)), Push("rollbacks", EX))
    BY <1>9, AtCompare DEF EX, ET
  <2>2. Drops("transition", Push("rollbacks", EX), EX)
    BY <1>2, AtRollbacks DEF EX, ET, Commits, Compares
  <2>3. Drops("transition", Push("compare", Push("rollbacks", EX)), EX)
    BY <2>1, <2>2, DropsOn
  <2>4. Takes("transition", EX, Push("gen-prepare", Push("transition", TX)), "keep")
    BY <1>1, AtExtended DEF EX, TX, ET
  <2> QED
    BY <2>3, <2>4, TakesAfter
<1> QED
  BY <1>4, <1>5, <1>7, <1>8, <1>10

----------------------------------------------------------------------------
(* The history, and what the filter follows of it                          *)

\* How many of these indices are up to i.
UpTo(I, i) == Cardinality({j \in I : j <= i})

\* The k-th of these indices
Nth(I, k) == CHOOSE i \in I : UpTo(I, i) = k

LEMMA OnlyIs ==
  ASSUME NEW q, NEW I
  PROVE  Only(q, I) = [k \in 1..Cardinality(I) |-> q[Nth(I, k)]]
BY DEF Only, UpTo, Nth

\* Of a finite set of indices, and one more.
LEMMA OneIndexMore ==
  ASSUME NEW n \in Nat, NEW I \in SUBSET (1..n)
  PROVE  /\ IsFiniteSet(I) /\ Cardinality(I) \in Nat
         /\ Cardinality(I \cup {n + 1}) = Cardinality(I) + 1
         /\ UpTo(I \cup {n + 1}, n + 1) = Cardinality(I) + 1
         /\ \A i \in I : /\ UpTo(I \cup {n + 1}, i) = UpTo(I, i)
                         /\ UpTo(I, i) \in 1..Cardinality(I)
<1>1. IsFiniteSet(1..n)
  BY FS_Interval
<1>2. IsFiniteSet(I) /\ Cardinality(I) \in Nat
  BY <1>1, FS_Subset, FS_CardinalityType
<1>3. n + 1 \notin I /\ \A j \in I : j \in Nat /\ j <= n
  OBVIOUS
<1>4. Cardinality(I \cup {n + 1}) = Cardinality(I) + 1
  BY <1>2, <1>3, FS_AddElement
<1>5. UpTo(I \cup {n + 1}, n + 1) = Cardinality(I) + 1
  <2>1. \A j \in I \cup {n + 1} : j <= n + 1
    BY <1>3
  <2>2. {j \in I \cup {n + 1} : j <= n + 1} = I \cup {n + 1}
    BY <2>1
  <2> QED
    BY <1>4, <2>2 DEF UpTo
<1>6. ASSUME NEW i \in I
      PROVE  UpTo(I \cup {n + 1}, i) = UpTo(I, i)
  <2>1. {j \in I \cup {n + 1} : j <= i} = {j \in I : j <= i}
    BY <1>3
  <2> QED
    BY <2>1 DEF UpTo
<1>7. ASSUME NEW i \in I
      PROVE  UpTo(I, i) \in 1..Cardinality(I)
  <2>1. PICK J : J = {j \in I : j <= i}
    OBVIOUS
  <2>2. J \subseteq I /\ i \in J
    BY <2>1
  <2>3. IsFiniteSet(J) /\ Cardinality(J) <= Cardinality(I) /\ Cardinality(J) \in Nat
    BY <1>2, <2>2, FS_Subset, FS_CardinalityType
  <2>4. Cardinality(J) # 0
    BY <2>2, <2>3, FS_EmptySet
  <2> QED
    BY <1>2, <2>1, <2>3, <2>4 DEF UpTo
<1> QED
  BY <1>2, <1>4, <1>5, <1>6, <1>7

\* The indices up to an index count it.
LEMMA UpToAll ==
  ASSUME NEW n \in Nat, NEW I \in SUBSET (1..n)
  PROVE  \A k \in 1..Cardinality(I) : \E i \in I : UpTo(I, i) = k
<1>1. IsFiniteSet(I) /\ Cardinality(I) \in Nat /\ \A i \in I : UpTo(I, i) \in 1..Cardinality(I)
  BY OneIndexMore
<1>2. ASSUME NEW i \in I, NEW j \in I, i < j
      PROVE  UpTo(I, i) # UpTo(I, j)
  <2>1. PICK A, B : A = {m \in I : m <= i} /\ B = {m \in I : m <= j}
    OBVIOUS
  <2>0. \A m \in I : m \in Int
    OBVIOUS
  <2>2. B \subseteq I /\ A \in SUBSET B /\ j \in B /\ j \notin A
    <3>1. \A m \in I : m <= i => m <= j
      BY <1>2, <2>0
    <3>2. A \subseteq B /\ B \subseteq I
      BY <2>1, <3>1
    <3>3. j \in B /\ j \notin A
      BY <1>2, <2>0, <2>1
    <3> QED
      BY <3>2, <3>3
  <2>3. IsFiniteSet(B)
    BY <1>1, <2>2, FS_Subset
  <2>4. Cardinality(B) # Cardinality(A)
    BY <2>2, <2>3, FS_Subset
  <2> QED
    BY <2>1, <2>4 DEF UpTo
<1>3. ASSUME NEW k \in 1..Cardinality(I), \A i \in I : UpTo(I, i) # k
      PROVE  FALSE
  <2>1. PICK m, T : m = Cardinality(I) /\ T = (1..m) \ {k}
    OBVIOUS
  <2>2. IsFiniteSet(1..m) /\ Cardinality(1..m) = m /\ k \in 1..m /\ m \in Nat
    BY <1>1, <2>1, FS_Interval
  <2>3. IsFiniteSet(T) /\ Cardinality(T) = m - 1
    BY <2>1, <2>2, FS_RemoveElement
  <2>4. PICK f : f = [i \in I |-> UpTo(I, i)]
    OBVIOUS
  <2>5. f \in [I -> T]
    BY <1>1, <1>3, <2>1, <2>4
  <2>6. PICK i, j \in I : i # j /\ f[i] = f[j]
    <3>1. Cardinality(T) < Cardinality(I)
      BY <2>1, <2>2, <2>3
    <3> QED
      BY <1>1, <2>3, <2>5, <3>1, FS_PigeonHole
  <2>7. UpTo(I, i) = UpTo(I, j)
    BY <2>4, <2>6
  <2>8. i < j \/ j < i
    BY <2>6
  <2> QED
    BY <1>2, <2>7, <2>8
<1> QED
  BY <1>3

LEMMA Choice ==
  ASSUME NEW I, NEW J, NEW k, \A i : (i \in I /\ UpTo(I, i) = k) <=> (i \in J /\ UpTo(J, i) = k)
  PROVE  Nth(I, k) = Nth(J, k)
BY DEF Nth

\* Histories
Loads == Seq(D!Tested)

\* With one element more at the end: the same elements, and it, if its index is
\* one of the indices.
LEMMA OnlyMore ==
  ASSUME NEW q \in Loads, NEW x \in D!Tested, NEW I \in SUBSET (1..Len(q))
  PROVE  /\ Only(q, I) \in Loads
         /\ Only(Append(q, x), I) = Only(q, I)
         /\ Only(Append(q, x), I \cup {Len(q) + 1}) = Append(Only(q, I), x)
<1>0. PICK S : S = D!Tested
  OBVIOUS
<1>o. q \in Seq(S) /\ x \in S /\ Loads = Seq(S)
  BY <1>0 DEF Loads
<1>1. PICK r, n : r = Append(q, x) /\ n = Len(q)
  OBVIOUS
<1>2. n \in Nat /\ (\A i \in I : r[i] = q[i] /\ q[i] \in S) /\ r[n + 1] = x /\ I \in SUBSET (1..n)
  <2>1. n \in Nat /\ \A i \in 1..n : r[i] = q[i] /\ q[i] \in S
    BY <1>1, <1>o
  <2>2. r[n + 1] = x
    BY <1>1, <1>o
  <2> QED
    BY <1>1, <2>1, <2>2
<1>3. PICK m, J : m = Cardinality(I) /\ J = I \cup {n + 1}
  OBVIOUS
<1>4. /\ m \in Nat /\ Cardinality(J) = m + 1 /\ UpTo(J, n + 1) = m + 1
      /\ \A i \in I : UpTo(J, i) = UpTo(I, i) /\ UpTo(I, i) \in 1..m
  BY <1>2, <1>3, OneIndexMore
<1>5. \A k \in 1..m : Nth(I, k) \in I
  BY <1>2, <1>3, UpToAll DEF Nth
<1>6. PICK f : f = Only(q, I)
  OBVIOUS
<1>7. f = [k \in 1..m |-> q[Nth(I, k)]]
  BY <1>3, <1>6, OnlyIs
<1>8. f \in Seq(S) /\ Len(f) = m
  <2>1. \A k \in 1..m : q[Nth(I, k)] \in S
    BY <1>2, <1>5
  <2> QED
    BY <1>4, <1>7, <2>1
<1>9. Only(r, I) = f
  <2>1. Only(r, I) = [k \in 1..m |-> r[Nth(I, k)]]
    BY <1>3, OnlyIs
  <2>2. \A k \in 1..m : r[Nth(I, k)] = q[Nth(I, k)]
    BY <1>2, <1>5
  <2> QED
    BY <1>7, <2>1, <2>2
<1>10. Only(r, J) = Append(f, x)
  <2>1. Only(r, J) = [k \in 1..(m + 1) |-> r[Nth(J, k)]]
    BY <1>3, <1>4, OnlyIs
  <2>2. ASSUME NEW k \in 1..m
        PROVE  r[Nth(J, k)] = f[k]
    <3>0. k # m + 1
      BY <1>4
    <3>1. \A i : (i \in I /\ UpTo(I, i) = k) <=> (i \in J /\ UpTo(J, i) = k)
      <4>1. \A i \in I : UpTo(J, i) = UpTo(I, i)
        BY <1>4
      <4>2. UpTo(J, n + 1) = m + 1
        BY <1>4
      <4>3. \A i : i \in J <=> i \in I \/ i = n + 1
        BY <1>3
      <4>4. \A i : i \in J /\ UpTo(J, i) = k => i \in I
        BY <3>0, <4>2, <4>3
      <4>5. \A i \in I : i \in J
        BY <4>3
      <4> QED
        BY <4>1, <4>4, <4>5
    <3>2. Nth(I, k) = Nth(J, k)
      BY <3>1, Choice
    <3>3. f[k] = q[Nth(I, k)]
      BY <1>7
    <3>4. PICK i0 : i0 = Nth(I, k)
      OBVIOUS
    <3>5. i0 \in I
      BY <1>5, <3>4
    <3> QED
      BY <1>2, <3>2, <3>3, <3>4, <3>5
  <2>3. r[Nth(J, m + 1)] = x
    <3>1. \A i \in J : UpTo(J, i) = m + 1 <=> i = n + 1
      <4>1. \A i \in I : UpTo(J, i) # m + 1
        BY <1>4
      <4> QED
        BY <1>3, <1>4, <4>1
    <3>2. Nth(J, m + 1) = n + 1
      <4>1. PICK i0 : i0 = Nth(J, m + 1)
        OBVIOUS
      <4>2. n + 1 \in J
        BY <1>3
      <4>3. i0 \in J /\ UpTo(J, i0) = m + 1
        BY <3>1, <4>1, <4>2 DEF Nth
      <4> QED
        BY <3>1, <4>1, <4>3
    <3> QED
      BY <1>2, <3>2
  <2>4. PICK g : g = Only(r, J)
    OBVIOUS
  <2>5. g \in Seq(S) /\ Len(g) = m + 1
    <3>1. \A k \in 1..(m + 1) : r[Nth(J, k)] \in S
      <4>1. \A k \in 1..m : f[k] \in S
        BY <1>8
      <4>2. x \in S
        BY <1>o
      <4>3. \A k \in 1..m : r[Nth(J, k)] \in S
        BY <2>2, <4>1
      <4>4. \A k \in 1..(m + 1) : k \in 1..m \/ k = m + 1
        BY <1>4
      <4> QED
        BY <2>3, <4>2, <4>3, <4>4
    <3> QED
      BY <1>4, <2>1, <2>4, <3>1
  <2>6. \A k \in 1..(m + 1) : g[k] = IF k <= m THEN f[k] ELSE x
    BY <1>4, <2>1, <2>2, <2>3, <2>4
  <2>7. /\ Append(f, x) \in Seq(S) /\ Len(Append(f, x)) = m + 1
        /\ \A k \in 1..(m + 1) : Append(f, x)[k] = IF k <= m THEN f[k] ELSE x
    BY <1>o, <1>4, <1>8
  <2>8. g = Append(f, x)
    BY <2>5, <2>6, <2>7, SeqEqual
  <2> QED
    BY <2>4, <2>8
<1> QED
  BY <1>o, <1>1, <1>3, <1>6, <1>8, <1>9, <1>10

\* Of the action a, with the history q: what comes at i goes unseen.
Unseen(a, q, i) ==
  /\ a = "explore" /\ q[i].from # NoState
  /\ \E k \in 1..(i-1) : /\ q[k].astray
                         /\ \A n \in (k+1)..i : q[n].from # NoState

Kept(a, q) == Only(q, {i \in DOMAIN q : ~Unseen(a, q, i)})

\* The filter has lost track, and what is made next from the same state will go
\* unseen.
LostIn(q) ==
  \E k \in DOMAIN q : q[k].astray /\ \A n \in (k+1)..Len(q) : q[n].from # NoState

Misses(a, p, x) == a = "explore" /\ x.from # NoState /\ LostIn(p)

LEMMA FollowedIs == Followed = Kept(request.action, tested)
BY DEF Followed, Kept, Unseen

LEMMA LostMore ==
  ASSUME NEW p \in Loads, NEW x \in D!Tested
  PROVE  LostIn(Append(p, x)) <=> x.astray \/ (x.from # NoState /\ LostIn(p))
<1>1. PICK n, r : n = Len(p) /\ r = Append(p, x)
  OBVIOUS
<1>2. /\ n \in Nat /\ DOMAIN p = 1..n /\ Len(r) = n + 1 /\ DOMAIN r = 1..(n + 1)
      /\ \A i \in 1..n : r[i] = p[i]
  BY <1>1 DEF Loads
<1>3. r[n + 1] = x
  BY <1>1 DEF Loads
<1>4. ASSUME x.astray
      PROVE  LostIn(r)
  <2>1. n + 1 \in DOMAIN r /\ r[n + 1].astray /\ (n + 2)..Len(r) = {}
    BY <1>2, <1>3, <1>4
  <2> QED
    BY <2>1, <1>2 DEF LostIn
<1>5. ASSUME x.from # NoState, LostIn(p)
      PROVE  LostIn(r)
  <2>1. PICK k \in 1..n : p[k].astray /\ \A m \in (k+1)..n : p[m].from # NoState
    BY <1>1, <1>2, <1>5 DEF LostIn
  <2>2. k \in 1..(n + 1) /\ r[k].astray
    BY <1>2, <2>1
  <2>3. \A m \in (k+1)..(n + 1) : r[m].from # NoState
    <3>1. \A m \in (k+1)..(n + 1) : m \in (k+1)..n \/ m = n + 1
      BY <1>2
    <3>2. \A m \in (k+1)..n : m \in 1..n
      BY <1>2
    <3> QED
      BY <1>2, <1>3, <1>5, <2>1, <3>1, <3>2
  <2> QED
    BY <1>2, <2>2, <2>3 DEF LostIn
<1>6. ASSUME LostIn(r), ~x.astray
      PROVE  x.from # NoState /\ LostIn(p)
  <2>1. PICK k \in 1..(n + 1) : r[k].astray /\ \A m \in (k+1)..(n + 1) : r[m].from # NoState
    BY <1>2, <1>6 DEF LostIn
  <2>2. k \in 1..n
    BY <1>2, <1>3, <1>6, <2>1
  <2>3. x.from # NoState
    BY <1>2, <1>3, <2>1, <2>2
  <2>4. \A m \in (k+1)..n : m \in 1..n /\ m \in (k+1)..(n + 1)
    BY <1>2
  <2>5. \A m \in (k+1)..n : p[m].from # NoState
    BY <1>2, <2>1, <2>4
  <2>6. k \in DOMAIN p /\ p[k].astray
    BY <1>2, <2>1, <2>2
  <2> QED
    BY <1>1, <2>3, <2>5, <2>6 DEF LostIn
<1> QED
  BY <1>1, <1>4, <1>5, <1>6

\* One load more is followed or not; the ones before it are as they were.
LEMMA KeptMore ==
  ASSUME NEW a, NEW p \in Loads, NEW x \in D!Tested
  PROVE  /\ Kept(a, p) \in Loads
         /\ Misses(a, p, x) => Kept(a, Append(p, x)) = Kept(a, p)
         /\ ~Misses(a, p, x) => Kept(a, Append(p, x)) = Append(Kept(a, p), x)
<1>1. PICK n, r : n = Len(p) /\ r = Append(p, x)
  OBVIOUS
<1>2. /\ n \in Nat /\ DOMAIN p = 1..n /\ Len(r) = n + 1 /\ DOMAIN r = 1..(n + 1)
      /\ \A i \in 1..n : r[i] = p[i]
  BY <1>1 DEF Loads
<1>3. r[n + 1] = x
  BY <1>1 DEF Loads
<1>4. PICK I : I = {i \in 1..n : ~Unseen(a, p, i)}
  OBVIOUS
<1>5. I \in SUBSET (1..n) /\ Kept(a, p) = Only(p, I)
  BY <1>2, <1>4 DEF Kept
<1>6. ASSUME NEW i \in 1..n
      PROVE  Unseen(a, r, i) <=> Unseen(a, p, i)
  <2>1. \A k \in 1..(i - 1) : r[k] = p[k] /\ \A m \in (k + 1)..i : r[m] = p[m]
    <3>1. \A k \in 1..(i - 1) : k \in 1..n /\ \A m \in (k + 1)..i : m \in 1..n
      BY <1>2
    <3> QED
      BY <1>2, <3>1
  <2>2. r[i] = p[i]
    BY <1>2
  <2> QED
    BY <2>1, <2>2 DEF Unseen
<1>7. Unseen(a, r, n + 1) <=> Misses(a, p, x)
  <2>1. ASSUME Unseen(a, r, n + 1)
        PROVE  Misses(a, p, x)
    <3>1. PICK k \in 1..n : r[k].astray /\ \A m \in (k+1)..(n + 1) : r[m].from # NoState
      BY <1>2, <2>1 DEF Unseen
    <3>2. \A m \in (k+1)..n : m \in 1..n /\ m \in (k+1)..(n + 1)
      BY <1>2
    <3>3. p[k].astray /\ \A m \in (k+1)..n : p[m].from # NoState
      BY <1>2, <3>1, <3>2
    <3> QED
      BY <1>1, <1>2, <1>3, <2>1, <3>3 DEF Unseen, Misses, LostIn
  <2>2. ASSUME Misses(a, p, x)
        PROVE  Unseen(a, r, n + 1)
    <3>1. PICK k \in 1..n : p[k].astray /\ \A m \in (k+1)..n : p[m].from # NoState
      BY <1>1, <1>2, <2>2 DEF Misses, LostIn
    <3>2. \A m \in (k+1)..(n + 1) : r[m].from # NoState
      <4>1. \A m \in (k+1)..(n + 1) : (m \in (k+1)..n /\ m \in 1..n) \/ m = n + 1
        BY <1>2
      <4> QED
        BY <1>2, <1>3, <2>2, <3>1, <4>1 DEF Misses
    <3>3. r[k].astray /\ k \in 1..((n + 1) - 1)
      BY <1>2, <3>1
    <3> QED
      BY <1>3, <2>2, <3>2, <3>3 DEF Unseen, Misses
  <2> QED
    BY <2>1, <2>2
<1>a. /\ Only(p, I) \in Loads /\ Only(Append(p, x), I) = Only(p, I)
      /\ Only(Append(p, x), I \cup {n + 1}) = Append(Only(p, I), x)
  <2>1. I \in SUBSET (1..Len(p))
    BY <1>1, <1>5
  <2>2. Only(p, I) \in Loads
    BY <2>1, OnlyMore
  <2>3. Only(Append(p, x), I) = Only(p, I)
    BY <2>1, OnlyMore
  <2>4. Only(Append(p, x), I \cup {Len(p) + 1}) = Append(Only(p, I), x)
    BY <2>1, OnlyMore
  <2> QED
    BY <1>1, <2>2, <2>3, <2>4
<1>8. CASE Misses(a, p, x)
  <2>1. {i \in 1..(n + 1) : ~Unseen(a, r, i)} = I
    <3>1. \A i \in 1..(n + 1) : i \in 1..n \/ i = n + 1
      BY <1>2
    <3>2. 1..n \subseteq 1..(n + 1)
      BY <1>2
    <3> QED
      BY <1>4, <1>6, <1>7, <1>8, <3>1, <3>2
  <2>2. Kept(a, r) = Only(r, I)
    BY <1>2, <2>1 DEF Kept
  <2> QED
    BY <1>1, <1>5, <1>8, <1>a, <2>2
<1>9. CASE ~Misses(a, p, x)
  <2>1. {i \in 1..(n + 1) : ~Unseen(a, r, i)} = I \cup {n + 1}
    <3>1. \A i \in 1..(n + 1) : i \in 1..n \/ i = n + 1
      BY <1>2
    <3>2. 1..n \subseteq 1..(n + 1) /\ n + 1 \in 1..(n + 1)
      BY <1>2
    <3> QED
      BY <1>4, <1>6, <1>7, <1>9, <3>1, <3>2
  <2>2. Kept(a, r) = Only(r, I \cup {n + 1})
    BY <1>2, <2>1 DEF Kept
  <2> QED
    BY <1>1, <1>5, <1>9, <1>a, <2>2
<1> QED
  BY <1>8, <1>9

LEMMA NoneKept ==
  ASSUME NEW a
  PROVE  Kept(a, <<>>) = <<>> /\ ~LostIn(<<>>)
<1>1. Kept(a, <<>>) = Only(<<>>, {})
  BY DEF Kept
<1>2. Only(<<>>, {}) = <<>>
  BY FS_EmptySet, OnlyIs
<1> QED
  BY <1>1, <1>2 DEF LostIn

\* A history that is not empty, as it was and when its last load has changed.
LEMMA LastOf ==
  ASSUME NEW q \in Loads, q # <<>>
  PROVE  \E p \in Loads :
           /\ q = Append(p, q[Len(q)]) /\ q[Len(q)] \in D!Tested
           /\ \A y \in D!Tested : [q EXCEPT ![Len(q)] = y] = Append(p, y)
<1>0. PICK S : S = D!Tested
  OBVIOUS
<1>o. q \in Seq(S) /\ Loads = Seq(S)
  BY <1>0 DEF Loads
<1>1. PICK n : n = Len(q)
  OBVIOUS
<1>2. n \in Nat /\ n > 0 /\ q[n] \in S
  BY <1>o, <1>1
<1>3. PICK p : p = SubSeq(q, 1, n - 1)
  OBVIOUS
<1>4. p \in Seq(S) /\ Len(p) = n - 1 /\ \A i \in 1..(n - 1) : p[i] = q[i]
  BY <1>o, <1>1, <1>2, <1>3
<1>5. ASSUME NEW y \in S
      PROVE  [q EXCEPT ![n] = y] = Append(p, y)
  <2>1. PICK r, s : r = [q EXCEPT ![n] = y] /\ s = Append(p, y)
    OBVIOUS
  <2>2. r \in Seq(S) /\ Len(r) = n /\ r[n] = y /\ \A i \in 1..(n - 1) : r[i] = q[i]
    BY <1>o, <1>1, <1>2, <2>1
  <2>3. s \in Seq(S) /\ Len(s) = n /\ s[n] = y
    BY <1>2, <1>4, <2>1
  <2>4. \A i \in 1..(n - 1) : s[i] = p[i]
    BY <1>2, <1>4, <2>1
  <2>5. \A i \in 1..n : i \in 1..(n - 1) \/ i = n
    BY <1>2
  <2>6. \A i \in 1..n : r[i] = s[i]
    BY <1>4, <2>2, <2>3, <2>4, <2>5
  <2> QED
    BY <2>1, <2>2, <2>3, <2>6, SeqEqual
<1>6. [q EXCEPT ![n] = q[n]] = q
  BY <1>o, <1>1, <1>2
<1> QED
  BY <1>0, <1>o, <1>1, <1>2, <1>4, <1>5, <1>6
=============================================================================
