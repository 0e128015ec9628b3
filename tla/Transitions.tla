----------------------------- MODULE Transitions ----------------------------
(***************************************************************************)
(* transition-to-state, explore-transitions and walk-states from end to    *)
(* end (python/drned_xmnr/op/transitions_op.py): the operation starts      *)
(* DrNED runs (DrnedRun), the output of which goes, line by line, through  *)
(* the filter (EventFilter), together with the progress messages of the    *)
(* operation itself.  What the filter has recorded decides on the result   *)
(* and is stored in last-test-results.                                     *)
(*                                                                         *)
(* The worker thread reads the output while it waits for the process, so   *)
(* that the lines come in order; that DrNED waits for its lines to be read *)
(* loses no behaviour, since nothing goes back to it.                      *)
(***************************************************************************)
EXTENDS Sequences, Integers, FiniteSets

CONSTANTS
  States, NoState, InitState, PlainFiles,
  Requests,    (* the actions that are asked for: see Request               *)
  Losing       (* actions where output left in the pipe at exit may be lost *)

VARIABLES
  event, stack, context, test_events, shown,                    \* EventFilter
  job, rpc, sets, ops, failed_states, raised, out, exit, tested, \* DrnedRun
  request,       \* the parameters of the action
  tpc,           \* where the operation is
  say,           \* events of its progress messages, not sent yet
  pairs,         \* transitions to be explored
  prev_state,    \* the state the transitions start from now
  failed_state,  \* the last state that could not be initialized
  failures,      \* failed_transitions and error_msgs are not both empty
  result,        \* "none", "success", "failure", or "error" (ActionError)
  stored,        \* last_test_results: NotStored, or the test events
  tried,         \* history: the runs of explore, <<from, to, exit status>>
  lost           \* history: output of DrNED was lost

filter  == <<event, stack, context, test_events, shown>>
drned   == <<job, rpc, sets, ops, failed_states, raised, out, exit, tested>>
plan    == <<pairs, prev_state, failed_state, failures>>
vars    == <<filter, drned, plan, request, tpc, say, result, stored, tried, lost>>

F == INSTANCE EventFilter
D == INSTANCE DrnedRun

\* sets: what walk-states goes through, or the state of transition-to-state;
\* states: what explore-transitions permutes, the values of a leaf-list or the
\* recorded states, each of which is in one file, as StateStore's OneFile has it
\* (get_states() lists a name twice if a mishap has left it in two); cases:
\* stop-after cases, 0 if not given; timed: a stop-after time is given.
Request ==
  {r \in [action : {"transition", "explore", "walk"}, queue : BOOLEAN,
          rollback : BOOLEAN, sets : Seq(Seq(States)), states : Seq(States),
          cases : Nat, timed : BOOLEAN] :
     /\ \A i, j \in DOMAIN r.states : i # j => r.states[i] # r.states[j]
     /\ \A i \in DOMAIN r.sets : r.sets[i] # <<>>
     /\ r.action = "transition" => r.sets # <<>>}

ASSUME TransitionsAssumption ==
  /\ InitState \notin States /\ NoState \notin States \cup {InitState}
  /\ PlainFiles \subseteq States
  /\ Requests \subseteq Request
  /\ Losing \subseteq Requests

Stored(events) == [stored |-> TRUE, events |-> events]
NotStored == [stored |-> FALSE, events |-> <<>>]
TPC == {"begin", "running", "next", "initialize", "transition", "terminate",
        "close", "store", "done"}

TypeOK ==
  /\ F!TypeOK
  /\ D!TypeOK
  /\ request \in Request
  /\ tpc \in TPC
  /\ say \in Seq(F!Event)
  /\ pairs \in Seq(States \X States)
  /\ {prev_state, failed_state} \subseteq States \cup {NoState}
  /\ failures \in BOOLEAN
  /\ result \in {"none", "success", "failure", "error"}
  /\ stored.stored \in BOOLEAN /\ stored.events \in Seq(F!TransitionDesc)
  /\ tried \in Seq(States \X States \X {"ok", "failed"})
  /\ lost \in BOOLEAN

\* itertools.permutations(states, 2)
Permutations2(q) ==
  LET others   == Len(q) - 1
      first(k) == ((k - 1) \div others) + 1
      other(k) == ((k - 1) % others) + 1
  IN [k \in 1..(Len(q) * others) |->
        <<q[first(k)], q[IF other(k) < first(k) THEN other(k) ELSE other(k) + 1]>>]

Init ==
  /\ request \in Requests
  /\ D!Init
  /\ F!InitFilter(CASE request.action = "transition" -> "transition-test"
                    [] request.action = "explore"    -> "explore"
                    [] request.action = "walk"       -> "walk")
  /\ tpc = "begin"
  /\ say = <<>>
  /\ pairs = <<>>
  /\ prev_state = NoState
  /\ failed_state = NoState
  /\ failures = FALSE
  /\ result = "none"
  /\ stored = NotStored
  /\ tried = <<>>
  /\ lost = FALSE

----------------------------------------------------------------------------
(* Lines on their way to the filter                                        *)

CaughtUp == say = <<>> /\ out = <<>> /\ F!Idle

\* progress_msg()
SendOwn ==
  /\ say # <<>>
  /\ F!Send(Head(say))
  /\ say' = Tail(say)
  /\ UNCHANGED <<drned, plan, request, tpc, result, stored, tried, lost>>

\* A line of output
SendLine ==
  /\ say = <<>>
  /\ out # <<>>
  /\ F!Send(Head(out))
  /\ out' = Tail(out)
  /\ UNCHANGED <<job, rpc, sets, ops, failed_states, raised, exit, tested,
                 plan, request, tpc, say, result, stored, tried, lost>>

FilterStep ==
  /\ F!Filter
  /\ UNCHANGED <<drned, plan, request, tpc, say, result, stored, tried, lost>>

\* proc_run() leaves the loop when the process has exited, without reading
\* what is left.
LoseLines ==
  /\ request \in Losing
  /\ rpc = "idle" /\ out # <<>>
  /\ F!Idle
  /\ out' = <<>>
  /\ lost' = TRUE
  /\ UNCHANGED <<filter, job, rpc, sets, ops, failed_states, raised, exit,
                 tested, plan, request, tpc, say, result, stored, tried>>

DrnedStep ==
  /\ CaughtUp
  /\ D!Step
  /\ UNCHANGED <<filter, plan, request, tpc, say, result, stored, tried, lost>>

----------------------------------------------------------------------------
(* The operations                                                          *)

Run(test, from, what) ==
  D!Start([test |-> test, queue |-> request.queue,
           rollback |-> request.rollback, from |-> from], what)

RunOver == CaughtUp /\ rpc = "idle"

\* perform_transitions() returns or raises; the filter is closed next.
Finish(r) ==
  /\ result' = r
  /\ tpc' = "terminate"

\* WalkTransitionsOp and TransitionToStateOp
BeginRun ==
  /\ tpc = "begin"
  /\ request.action # "explore"
  /\ RunOver
  /\ IF request.action = "walk" THEN Run("set", NoState, request.sets)
     ELSE Run(IF request.rollback THEN "single" ELSE "raw", NoState, request.sets)
  /\ tpc' = "running"
  /\ UNCHANGED <<filter, plan, request, say, result, stored, tried, lost>>

\* The result of walk-states depends on the recorded failures, too.
EndRun ==
  /\ tpc = "running"
  /\ RunOver
  /\ Finish(IF \/ exit # "ok"
               \/ /\ request.action = "walk"
                  /\ \E i \in DOMAIN test_events : test_events[i].failure # "none"
            THEN "failure" ELSE "success")
  /\ UNCHANGED <<filter, drned, plan, request, say, stored, tried, lost>>

\* "transitions = transitions[:stop_cases]"
Planned ==
  LET all == Permutations2(request.states)
  IN IF request.cases \in 1..Len(all) THEN SubSeq(all, 1, request.cases) ELSE all

\* ExploreTransitionsOp, up to the loop; one state gives no transition.
BeginExplore ==
  /\ tpc = "begin"
  /\ request.action = "explore"
  /\ IF Planned = <<>> THEN Finish("failure") /\ UNCHANGED <<pairs, say>>
     ELSE /\ pairs' = Planned
          /\ say' = <<F!Line("init_states")>>
          /\ tpc' = "next"
          /\ UNCHANGED result
  /\ UNCHANGED <<filter, drned, request, prev_state, failed_state, failures,
                 stored, tried, lost>>

from == Head(pairs)[1]
to   == Head(pairs)[2]

\* "if from_state == failed_state: continue"
SkipFailed ==
  /\ tpc = "next" /\ RunOver
  /\ pairs # <<>>
  /\ from = failed_state
  /\ pairs' = Tail(pairs)
  /\ UNCHANGED <<filter, drned, prev_state, failed_state, failures, request,
                 tpc, say, result, stored, tried, lost>>

\* All done, or out of time.
EndExplore ==
  /\ tpc = "next" /\ RunOver
  /\ \/ pairs = <<>>
     \/ request.timed /\ pairs # <<>> /\ from # failed_state
  /\ Finish(IF failures THEN "failure" ELSE "success")
  /\ UNCHANGED <<filter, drned, plan, request, say, stored, tried, lost>>

\* Mutant: a state is tried to be initialized again for each transition.
StartingWithAny ==
  /\ tpc = "next" /\ RunOver
  /\ pairs # <<>>
  /\ from # failed_state
  /\ say' = <<F!Of("start", from), F!Line("prepare")>>
  /\ Run("raw", NoState, <<<<from>>>>)
  /\ tpc' = "initialize"
  /\ UNCHANGED <<filter, plan, request, result, stored, tried, lost>>

\* "Starting with state ..": it is another one than before.
StartingWith ==
  /\ tpc = "next" /\ RunOver
  /\ pairs # <<>>
  /\ from \notin {failed_state, prev_state}
  /\ say' = <<F!Of("start", from), F!Line("prepare")>>
  /\ Run("raw", NoState, <<<<from>>>>)
  /\ tpc' = "initialize"
  /\ UNCHANGED <<filter, plan, request, result, stored, tried, lost>>

\* "Failed to initialize state .."
InitFailed ==
  /\ tpc = "initialize" /\ RunOver
  /\ exit # "ok"
  /\ say' = <<F!Line("init_failed")>>
  /\ failures' = TRUE
  /\ failed_state' = from
  /\ pairs' = Tail(pairs)
  /\ tried' = Append(tried, <<from, from, exit>>)
  /\ tpc' = "next"
  /\ UNCHANGED <<filter, drned, prev_state, request, result, stored, lost>>

\* "Transition .. ==> ..": from the state just initialized, or still there.
MakeTransition ==
  /\ \/ /\ tpc = "initialize" /\ exit = "ok"
        /\ tried' = Append(tried, <<from, from, exit>>)
     \/ /\ tpc = "next" /\ pairs # <<>>
        /\ from = prev_state /\ from # failed_state
        /\ UNCHANGED tried
  /\ RunOver
  /\ prev_state' = from
  /\ say' = <<F!Line("transition"), F!Line("prepare")>>
  /\ Run("single", from, <<<<to>>>>)
  /\ tpc' = "transition"
  /\ UNCHANGED <<filter, pairs, failed_state, failures, request, result,
                 stored, lost>>

\* run_in_drned_env() raises ActionError after an abort, or when pytest cannot
\* be started, and so does state_name_to_filename() for a state that has been
\* deleted in the meantime: explore-transitions has told by then what it is about
\* to start.
NotStarted ==
  /\ RunOver
  /\ \/ tpc = "begin" /\ request.action # "explore" /\ say' = <<>>
     \/ /\ tpc = "next" /\ pairs # <<>> /\ from \notin {failed_state, prev_state}
        /\ say' = <<F!Of("start", from)>>
     \/ /\ \/ tpc = "initialize" /\ exit = "ok"
           \/ tpc = "next" /\ pairs # <<>> /\ from = prev_state /\ from # failed_state
        /\ say' = <<F!Line("transition")>>
  /\ Finish("error")
  /\ UNCHANGED <<filter, drned, plan, request, stored, tried, lost>>

\* "Transition failed", or it has not.
EndTransition ==
  /\ tpc = "transition" /\ RunOver
  /\ IF exit = "ok" THEN UNCHANGED <<failures, say>>
     ELSE failures' = TRUE /\ say' = <<F!Line("trans_failed")>>
  /\ pairs' = Tail(pairs)
  /\ tried' = Append(tried, <<from, to, exit>>)
  /\ tpc' = "next"
  /\ UNCHANGED <<filter, drned, prev_state, failed_state, request, result,
                 stored, lost>>

----------------------------------------------------------------------------
(* The end of TransitionsOp.perform()                                      *)

\* The filter is closed: the automaton gets a TerminateEvent.
Terminate ==
  /\ tpc = "terminate" /\ CaughtUp
  /\ F!Send(F!Line("terminate"))
  /\ tpc' = "close"
  /\ UNCHANGED <<drned, plan, request, say, result, stored, tried, lost>>

\* Mutant: the context is closed after its events have been stored.
CloseLate ==
  /\ tpc = "close" /\ CaughtUp
  /\ tpc' = IF result = "error" THEN "done" ELSE "store"
  /\ UNCHANGED <<filter, drned, plan, request, say, result, stored, tried, lost>>

\* The context is closed; an exception leaves perform() here.
Close ==
  /\ tpc = "close" /\ CaughtUp
  /\ F!CloseContext
  /\ tpc' = IF result = "error" THEN "done" ELSE "store"
  /\ UNCHANGED <<drned, plan, request, say, result, stored, tried, lost>>

Store ==
  /\ tpc = "store"
  /\ stored' = Stored(test_events)
  /\ tpc' = "done"
  /\ UNCHANGED <<filter, drned, plan, request, say, result, tried, lost>>

Next ==
  \/ SendOwn \/ SendLine \/ FilterStep \/ LoseLines \/ DrnedStep
  \/ NotStarted \/ BeginRun \/ EndRun
  \/ BeginExplore \/ SkipFailed \/ EndExplore \/ StartingWith \/ InitFailed
  \/ MakeTransition \/ EndTransition
  \/ Terminate \/ Close \/ Store

Spec == Init /\ [][Next]_vars

----------------------------------------------------------------------------
(* Properties.  What was recorded is compared to what DrNED has been       *)
(* through, which only the history `tested' knows.                         *)

\* The transitions recorded by now, the one being made included.
Recorded ==
  IF context.to = NoState THEN test_events
  ELSE Append(test_events, [start |-> context.state, to |-> context.to,
                            failure |-> "none"])

Comparable == CaughtUp /\ ~lost

\* The elements of q at these indices, in order.
Only(q, indices) ==
  LET upTo(i) == Cardinality({j \in indices : j <= i})
  IN [k \in 1..Cardinality(indices) |->
        q[CHOOSE i \in indices : upTo(i) = k]]

\* Explore loses track of the output when a dry run is aborted, or a restore
\* compares twice: what is made next from the same state goes unseen.
Followed ==
  LET unseen(i) == /\ request.action = "explore" /\ tested[i].from # NoState
                   /\ \E k \in 1..(i-1) :
                        /\ tested[k].astray
                        /\ \A n \in (k+1)..i : tested[n].from # NoState
  IN Only(tested, {i \in DOMAIN tested : ~unseen(i)})

\* Each state that DrNED loads is recorded as one transition, in that order,
\* whatever happened before: failed and interrupted tests, teardowns, runs
\* that end before or during the load.
EveryLoadRecorded ==
  Comparable => /\ Len(Recorded) = Len(Followed)
                /\ \A i \in DOMAIN Followed : Recorded[i].to = Followed[i].to

\* A transition is recorded with the state it starts from: for explore, the
\* one it was initialized to, however the transitions before it ended; for
\* walk, the state before.
StartsRecorded ==
  Comparable =>
    \A i \in DOMAIN Recorded :
      Recorded[i].start =
        IF Followed[i].from # NoState THEN Followed[i].from
        ELSE IF i = 1 THEN InitState
        ELSE IF Followed[i-1].from # NoState THEN Followed[i-1].from
        ELSE Followed[i-1].to

\* A failure is recorded for a transition only if that transition failed or
\* the device could not be restored smoothly after it; of several failures
\* the first one that the output tells is recorded, as what it was.
FailuresRecorded ==
  Comparable =>
    \A i \in DOMAIN Recorded :
      /\ Followed[i].told => Recorded[i].failure = Followed[i].failure
      /\ Recorded[i].failure # "none"
           => Followed[i].failure # "none" \/ Followed[i].blurred

Targets(q) == [i \in DOMAIN q |-> q[i].to]

\* The transitions of p are some of those of q, in their order.
PartOf(p, q) ==
  \E f \in [DOMAIN p -> DOMAIN q] :
    /\ \A i, j \in DOMAIN p : i < j => f[i] < f[j]
    /\ \A i \in DOMAIN p : p[i].to = q[f[i]].to

\* What is stored is all that was tested by this action, its last transition
\* included, and never a part of it; if output was lost, it is a part of it, in
\* order, with nothing made up.
StoredWhole ==
  tpc = "done" /\ stored.stored
    => IF lost THEN PartOf(stored.events, tested)
       ELSE Targets(stored.events) = Targets(Followed)

\* When explore-transitions comes to its end, which without a time limit it
\* always does if nothing is raised, each of the planned transitions has been
\* tested once, from a state initialized once, or its start could not be
\* initialized; and it is a success if nothing failed.
ExploreComplete ==
  LET count(f, t) == Cardinality({i \in DOMAIN tried :
                                    tried[i][1] = f /\ tried[i][2] = t})
  IN (/\ request.action = "explore" /\ Len(request.states) > 1
      /\ tpc = "done" /\ result # "error"
      /\ ~request.timed \/ pairs = <<>>)
     => /\ \A i \in DOMAIN Planned :
             LET f == Planned[i][1]  t == Planned[i][2]
             IN /\ count(f, f) = 1
                /\ count(f, t) =
                     IF \E k \in DOMAIN tried : tried[k] = <<f, f, "failed">>
                     THEN 0 ELSE 1
        /\ result = "success" <=> \A k \in DOMAIN tried : tried[k][3] = "ok"

----------------------------------------------------------------------------
(* What a comment says, and the code does not keep                         *)

\* drned/common/test_template.py:288 "Re-raise walk states error to trigger
\* error condition.": if a state fails that is not the last one, the walk goes
\* on after restoring the device and nothing is raised; if the filter does not
\* know the failure either, walk-states is a success.
WalkReportsFailure ==
  (request.action = "walk" /\ tpc = "done" /\ result = "success")
    => failed_states = <<>>

\* python/drned_xmnr/op/filtering/states.py:283 "ExtTrans -> (transition prepare
\* TransitionS transfailed? Teardown)*": an event that does not fit, like an
\* aborted dry run, ends the repetition; the transitions after it that start
\* from the same state are neither shown nor recorded.
TransitionsRecorded ==
  Comparable => Len(Recorded) = Len(tested)
=============================================================================
