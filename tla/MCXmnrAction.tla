---------------------------- MODULE MCXmnrAction ----------------------------
(***************************************************************************)
(* Instances of XmnrAction for TLC: one request of each kind, or two       *)
(* requests that a session sends one after the other.                      *)
(***************************************************************************)
EXTENDS XmnrAction

OneSession == [h \in Handlers |-> CHOOSE u \in Sessions : TRUE]

\* No process (the operations on states and files), a single DrNED run
\* (transition-to-state, walk-states), several (explore-transitions), and
\* setup-xmnr without and with save-default-config.
AllPlans == {<<>>, <<"drned">>, <<"drned", "drned">>,
             <<"make">>, <<"make", "drned">>}

\* For two requests: what one of them does to the other does not depend on how
\* often a process is started after the first.
ShortPlans == {<<"drned">>, <<"make", "drned">>}
=============================================================================
