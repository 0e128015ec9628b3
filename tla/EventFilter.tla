---------------------------- MODULE EventFilter -----------------------------
(***************************************************************************)
(* The filter for the output of DrNED (python/drned_xmnr/op/filtering):    *)
(* events.py makes an event of every important line, and the pushdown      *)
(* automaton of states.py shows the events to the user and records the     *)
(* transitions, and their failures, in a TransitionEventContext.           *)
(*                                                                         *)
(* LogStateMachine.handle() is a loop: pop a log state, let it handle the  *)
(* event, push its expansion, until the event is handled or the stack is   *)
(* empty.  Here each turn of the loop is a step.  The cascade of           *)
(* coroutines makes the whole synchronous: a line is sent only when the    *)
(* event before it is done with.                                           *)
(***************************************************************************)
EXTENDS Sequences, Naturals

CONSTANTS
  States,     (* names of device states                                     *)
  NoState,    (* None                                                       *)
  InitState   (* '(init)'                                                   *)

VARIABLES
  event,        \* the event being handled, or NoEvent
  stack,        \* LogStateMachine.stack, its top first
  context,      \* TransitionEventContext, without its test_events
  test_events,  \* TransitionEventContext.test_events
  shown         \* the last line made of an event, at "drned-overview"

vars == <<event, stack, context, test_events, shown>>

----------------------------------------------------------------------------
(* Events.  An event is named after its class or, for some classes, after  *)
(* the value of its attribute: the action, or the result.                  *)

ResultEvents == {"empty", "complete", "completed", "failed", "reason"}
CommitEvents == {"queue", "noqueue", "nn"} \cup ResultEvents
EventTypes   == {"initial_prepare", "init_states", "start", "prepare",
                 "transition", "init_failed", "trans_failed", "py_test",
                 "load", "commit", "compare_config", "rollback",
                 "teardown", "restore", "diff", "failed_states", "terminate"}
                  \cup CommitEvents

Event   == [type : EventTypes, state : States \cup {NoState}]
NoEvent == [type |-> "none", state |-> NoState]
Line(t) == [type |-> t, state |-> NoState]
Of(t, s) == [type |-> t, state |-> s]

----------------------------------------------------------------------------
(* TransitionEventContext: every operator gives the context together with  *)
(* the test events.                                                        *)

Failure  == {"none", "load", "commit", "compare_config", "rollback"}
Name     == States \cup {InitState}
TransitionDesc == [start : Name, to : States, failure : Failure]
Context  == [event : Failure, exploring_from : States \cup {NoState},
             state : Name, to : States \cup {NoState}, rollback : BOOLEAN]

NewContext == [event |-> "none", exploring_from |-> NoState,
               state |-> InitState, to |-> NoState, rollback |-> FALSE]

\* Mutant: the walk goes on from where the failed transition started.
CompleteStays(c, e, failure) ==
  IF c.to = NoState THEN [c |-> c, e |-> e]
  ELSE [c |-> [NewContext EXCEPT
                 !.exploring_from = c.exploring_from,
                 !.state = IF c.exploring_from # NoState THEN c.exploring_from
                           ELSE IF failure = "none" THEN c.to ELSE c.state],
        e |-> Append(e, [start |-> c.state, to |-> c.to, failure |-> failure])]

\* Mutant: no transition is taken for one.
CompleteUnchecked(c, e, failure) ==
  [c |-> [NewContext EXCEPT
            !.exploring_from = c.exploring_from,
            !.state = IF c.exploring_from # NoState
                      THEN c.exploring_from ELSE c.to],
   e |-> Append(e, [start |-> c.state, to |-> c.to, failure |-> failure])]

\* complete_transition(), with cleanup()
Complete(c, e, failure) ==
  IF c.to = NoState THEN [c |-> c, e |-> e]
  ELSE [c |-> [NewContext EXCEPT
                 !.exploring_from = c.exploring_from,
                 !.state = IF c.exploring_from # NoState
                           THEN c.exploring_from ELSE c.to],
        e |-> Append(e, [start |-> c.state, to |-> c.to, failure |-> failure])]

\* start_explore()
StartExplore(c, e, from) ==
  LET done == Complete(c, e, "none")
  IN [c |-> [done.c EXCEPT !.exploring_from = from], e |-> done.e]

\* Mutant: a load forgets the transition before it.
StartForgets(c, e, to) ==
  [c |-> [c EXCEPT !.to = to, !.rollback = FALSE, !.event = "load"], e |-> e]

\* start_transition()
StartTransition(c, e, to) ==
  LET done == Complete(c, e, "none")
  IN [c |-> [done.c EXCEPT !.to = to, !.rollback = FALSE, !.event = "load"],
      e |-> done.e]

\* transition_event()
TransitionEvent(c, e, type) ==
  [c |-> [c EXCEPT !.event = type, !.rollback = @ \/ type = "rollback"],
   e |-> e]

\* Mutant: the failure is put down to the last action, rollback or not.
FailLastAction(c, e) == Complete(c, e, c.event)

\* fail_transition()
FailTransition(c, e) ==
  Complete(c, e, IF c.rollback THEN "rollback" ELSE c.event)

----------------------------------------------------------------------------
(* The log states.  Each gives what handle() returns: whether the event is *)
(* handled, the expansion, and the line shown ("" if none).                *)

Result(handled, expansion, line) ==
  [handled |-> handled, expansion |-> expansion, line |-> line]

Handled(expansion)      == Result(TRUE, expansion, "")
Shown(expansion, ev)    == Result(TRUE, expansion, ev.type)
Unhandled(expansion)    == Result(FALSE, expansion, "")

\* GenState(eventclass)
Gen(types, ev) == IF ev.type \in types THEN Shown(<<>>, ev) ELSE Unhandled(<<>>)

\* ActionState(action, expansion)
Action(action, expansion, ev) ==
  IF ev.type = action THEN Shown(expansion, ev) ELSE Unhandled(<<>>)

CommitAction  == <<"action-commit", "action-compare">>

TransitionTestState == Result(FALSE, <<"transition">>, "prepare")

TransitionState ==
  Unhandled(<<"commits", "load">> \o CommitAction \o <<"rollbacks">>)

RollbacksState(ev) ==
  IF ev.type = "rollback"
  THEN Unhandled(<<"action-rollback">> \o CommitAction \o <<"rollbacks">>)
  ELSE Unhandled(<<>>)

ExploreState == Unhandled(<<"gen-init-states", "explore-transitions">>)

WalkState(ev) == Shown(<<"commits", "walk-transitions">>, ev)

ExploreTransitionsState(ev) ==
  IF ev.type = "start"
  THEN Shown(<<"gen-prepare", "transition", "extended", "explore-transitions">>,
             ev)
  ELSE Handled(<<"explore-transitions">>)

ExtendedTransitionsState(ev) ==
  CASE ev.type = "init_failed" -> Shown(<<>>, ev)
    [] ev.type = "transition"  ->
         Shown(<<"gen-prepare", "transition", "gen-trans-failed",
                 "gen-init-failed", "teardown", "extended">>, ev)
    [] OTHER -> Unhandled(<<>>)

WalkTransitionsState(ev) ==
  CASE ev.type = "py_test"  -> Shown(<<"transition", "walk-transitions">>, ev)
    [] ev.type = "failed_states" -> Shown(<<>>, ev)
    [] ev.type = "load"     -> Unhandled(<<"transition", "walk-transitions">>)
    [] ev.type = "teardown" -> Unhandled(<<"teardown", "walk-transitions">>)
    [] OTHER -> Handled(<<"walk-transitions">>)

TeardownState(ev) ==
  IF ev.type = "teardown"
  THEN Shown(<<"gen-restore">> \o CommitAction \o <<"gen-trans-failed">>, ev)
  ELSE Unhandled(<<>>)

LoadState(ev) ==
  IF ev.type = "load" THEN Shown(<<"load-failure">>, ev) ELSE Unhandled(<<>>)

\* "not implemented yet": no event is a load failure.
LoadFailureState == Unhandled(<<>>)

CommitState(ev) ==
  CASE ev.type = "empty"             -> Handled(<<"commit">>)
    [] ev.type \in {"noqueue", "nn"} -> Handled(<<"commit-result">>)
    [] ev.type = "queue"             -> Handled(<<"commit-queue">>)
    [] OTHER                         -> Unhandled(<<>>)

CommitResultState(ev) ==
  CASE ev.type = "reason" -> Unhandled(<<"commit-failed">>)
    [] ev.type \in ResultEvents \ {"reason"} -> Shown(<<>>, ev)
    [] OTHER -> Unhandled(<<>>)

CommitsState(ev) ==
  IF ev.type \in CommitEvents THEN Handled(<<"commits">>) ELSE Unhandled(<<>>)

CommitQueueState(ev) ==
  CASE ev.type = "empty" -> Shown(<<>>, ev)
    [] ev.type \in {"failed", "reason"} ->
         Handled(<<"commit-failed", "commit-complete">>)
    [] OTHER -> Unhandled(<<"gen-result", "commit-complete">>)

CommitFailureState(ev) ==
  IF ev.type = "reason" THEN Shown(<<>>, ev) ELSE Result(FALSE, <<>>, "failed")

\* "Commit complete." is swallowed.
CommitCompleteState(ev) ==
  IF ev.type = "complete" THEN Handled(<<>>) ELSE Unhandled(<<>>)

\* No diff: the comparison has succeeded, and the event is for another state.
CompareState(ev) ==
  IF ev.type = "diff" THEN Shown(<<>>, ev)
  ELSE Result(FALSE, <<>>, "succeeded")

\* state.handle(event)
Handle(state, ev) ==
  CASE state = "transition-test"     -> TransitionTestState
    [] state = "transition"          -> TransitionState
    [] state = "rollbacks"           -> RollbacksState(ev)
    [] state = "explore"             -> ExploreState
    [] state = "walk"                -> WalkState(ev)
    [] state = "explore-transitions" -> ExploreTransitionsState(ev)
    [] state = "extended"            -> ExtendedTransitionsState(ev)
    [] state = "walk-transitions"    -> WalkTransitionsState(ev)
    [] state = "teardown"            -> TeardownState(ev)
    [] state = "load"                -> LoadState(ev)
    [] state = "load-failure"        -> LoadFailureState
    [] state = "commit"              -> CommitState(ev)
    [] state = "commit-result"       -> CommitResultState(ev)
    [] state = "commits"             -> CommitsState(ev)
    [] state = "commit-queue"        -> CommitQueueState(ev)
    [] state = "commit-failed"       -> CommitFailureState(ev)
    [] state = "commit-complete"     -> CommitCompleteState(ev)
    [] state = "compare"             -> CompareState(ev)
    [] state = "action-commit"   -> Action("commit", <<"commit">>, ev)
    [] state = "action-compare"  -> Action("compare_config", <<"compare">>, ev)
    [] state = "action-rollback" -> Action("rollback", <<>>, ev)
    [] state = "gen-prepare"      -> Gen({"prepare"}, ev)
    [] state = "gen-init-states"  -> Gen({"init_states"}, ev)
    [] state = "gen-trans-failed" -> Gen({"trans_failed"}, ev)
    [] state = "gen-init-failed"  -> Gen({"init_failed"}, ev)
    [] state = "gen-restore"      -> Gen({"restore"}, ev)
    [] state = "gen-result"       -> Gen(ResultEvents, ev)

\* state.update_context(context, event), for an event that it has handled
Update(state, ev, c, e) ==
  CASE state = "explore-transitions" /\ ev.type = "start" ->
         StartExplore(c, e, ev.state)
    [] state = "load"            -> StartTransition(c, e, ev.state)
    [] state = "load-failure"    -> FailTransition(c, e)
    [] state = "action-commit"   -> TransitionEvent(c, e, "commit")
    [] state = "action-compare"  -> TransitionEvent(c, e, "compare_config")
    [] state = "action-rollback" -> TransitionEvent(c, e, "rollback")
    [] state = "commit-failed"   -> FailTransition(c, e)
    [] state = "compare"         -> FailTransition(c, e)
    [] OTHER                     -> [c |-> c, e |-> e]

----------------------------------------------------------------------------
LogStates == {"transition-test", "transition", "rollbacks", "explore", "walk",
              "explore-transitions", "extended", "walk-transitions",
              "teardown", "load", "load-failure", "commit", "commit-result",
              "commits", "commit-queue", "commit-failed", "commit-complete",
              "compare", "action-commit", "action-compare", "action-rollback",
              "gen-prepare", "gen-init-states", "gen-trans-failed",
              "gen-init-failed", "gen-restore", "gen-result"}

TypeOK ==
  /\ event \in Event \cup {NoEvent}
  /\ stack \in Seq(LogStates)
  /\ context \in Context
  /\ test_events \in Seq(TransitionDesc)
  /\ shown \in EventTypes \cup {"", "succeeded"}

\* The filter of transition-to-state, explore-transitions or walk-states; the
\* last is sent an event to begin with.
InitFilter(first) ==
  /\ stack = <<first>>
  /\ event = IF first = "walk" THEN Line("initial_prepare") ELSE NoEvent
  /\ context = NewContext
  /\ test_events = <<>>
  /\ shown = ""

Idle == event = NoEvent

\* EventGenerator.send(), for a line that stands for an event
Send(ev) ==
  /\ Idle
  /\ event' = ev
  /\ UNCHANGED <<stack, context, test_events, shown>>

\* One turn of the loop in LogStateMachine.handle()
Pop ==
  LET state == Head(stack)
      r     == Handle(state, event)
      done  == Update(state, event, context, test_events)
  IN /\ ~Idle
     /\ stack # <<>>
     /\ stack' = r.expansion \o Tail(stack)
     /\ shown' = IF r.line = "" THEN shown ELSE r.line
     /\ IF r.handled
        THEN /\ event' = NoEvent
             /\ context' = done.c
             /\ test_events' = done.e
        ELSE UNCHANGED <<event, context, test_events>>

\* Nobody is left to handle the event.
Ignore ==
  /\ ~Idle
  /\ stack = <<>>
  /\ event' = NoEvent
  /\ UNCHANGED <<stack, context, test_events, shown>>

\* TransitionEventContext.close()
CloseContext ==
  LET done == Complete(context, test_events, "none")
  IN /\ Idle
     /\ context' = done.c
     /\ test_events' = done.e
     /\ UNCHANGED <<event, stack, shown>>

Filter == Pop \/ Ignore
=============================================================================
