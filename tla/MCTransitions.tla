--------------------------- MODULE MCTransitions ----------------------------
(***************************************************************************)
(* Instances of Transitions for TLC.                                       *)
(***************************************************************************)
EXTENDS Transitions

CONSTANTS a, b, c

Plain == [action |-> "walk", queue |-> FALSE, rollback |-> FALSE,
          sets |-> <<>>, states |-> <<>>, cases |-> 0, timed |-> FALSE]

\* Three sets of one state each, the second of which is in a file like c.cfg; a
\* set of two states before such a file; two sets with commit queues; two sets
\* with rollbacks; and no set, for want of states.
WalkRequests ==
  LET Walk(q, r, s) == [Plain EXCEPT !.queue = q, !.rollback = r, !.sets = s]
  IN {Walk(FALSE, FALSE, <<<<a>>, <<c>>, <<b>>>>),
      Walk(FALSE, FALSE, <<<<a, b>>, <<c>>>>),
      Walk(TRUE, FALSE, <<<<a>>, <<b>>>>),
      Walk(FALSE, TRUE, <<<<a>>, <<b>>>>), Walk(FALSE, FALSE, <<>>)}

\* A transition to a state; all transitions between two states, with a time
\* limit that may be reached or not; the first one of them with commit queues;
\* the first two of three states, which start from the same one; and a single
\* state, to which there is no transition.
ExploreRequests ==
  LET Explore(q, states, n, timed) ==
        [Plain EXCEPT !.action = "explore", !.queue = q, !.states = states,
                      !.cases = n, !.timed = timed]
  IN {[Plain EXCEPT !.action = "transition", !.queue = q, !.rollback = r,
                    !.sets = <<<<a>>>>] : q, r \in BOOLEAN}
     \cup {Explore(FALSE, <<a, b>>, 0, TRUE), Explore(TRUE, <<a, b>>, 1, FALSE),
           Explore(FALSE, <<a, b, c>>, 2, FALSE), Explore(FALSE, <<a>>, 0, FALSE)}

AllRequests == WalkRequests \cup ExploreRequests

\* Where output may be lost: walks, and one transition, explored or not.
LosingRequests ==
  {r \in AllRequests : r.action = "explore" => r.cases = 1}
=============================================================================
