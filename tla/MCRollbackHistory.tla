------------------------- MODULE MCRollbackHistory -------------------------
(***************************************************************************)
(* Instances of RollbackHistory and SchemaWalkTest for TLC.                *)
(***************************************************************************)
EXTENDS SchemaWalkTest

CONSTANTS new, same, old

MCFiles == {new, same, old}
MCConfigs == 0..2

\* A file that adds something each time (twice at most), one that changes
\* nothing, and one that brings the first configuration back.
MCEffect ==
  [f \in MCFiles |-> [c \in MCConfigs |->
     IF f = new THEN IF c < 2 THEN c + 1 ELSE c ELSE IF f = same THEN c ELSE 0]]

Sets(n) == UNION {[1..k -> MCFiles] : k \in 1..n}
Plain == [init |-> <<>>, sets |-> <<>>, op |-> LoadOps, end |-> DefaultEnd, all |-> TRUE]

\* One set of three files, and two sets where the first one may fail; without
\* set-all-operation; with an init file; with rollback; and with operations
\* that a user may give.
MCTests ==
  LET Test(sets) == [Plain EXCEPT !.sets = sets]
  IN {Test(<<s>>) : s \in [1..3 -> MCFiles]}
     \cup {Test(<<s, <<new>>>>) : s \in Sets(2)}
     \cup {[Test(<<s>>) EXCEPT !.all = FALSE] : s \in Sets(2)}
     \cup {[Test(<<<<new>>, <<f>>>>) EXCEPT !.init = i] : f \in MCFiles, i \in {<<new>>, <<new, new>>, <<same, new>>}}
     \cup {[Test(<<<<f>>>>) EXCEPT !.op = SingleOps, !.end = <<>>] : f \in MCFiles}
     \cup {[Test(<<<<new>>, <<old, f>>>>) EXCEPT !.op = o] : f \in MCFiles,
             o \in {<<Do("load")>>, LoadOps \o RollbackOps("rollback-", 1)}}
     \cup {[Test(<<<<new, f>>>>) EXCEPT !.end = o] : f \in MCFiles,
             o \in {<<>>, RollbackOps("rollback", 0), RollbackOps("rollback-", 2)}}

\* A container that is a choice of full commands with another leaf, its key, and
\* perhaps a full command that is hidden in the submode; a choice between a leaf
\* and two choices; one that has an empty case; and one with two leaves in a case,
\* which may pass over its other case.
MCSchemas ==
  {[values |-> <<v, 2, 1>>, above |-> <<<<1>>, <<1>>, <<1>>>>,
    case |-> <<<<0>>, <<2>>, <<3>>>>, cases |-> <<3>>,
    list |-> <<{1, 2, 3}, {}, {}>>, prunable |-> {1, 2}] : v \in 1..3}
  \cup {[values |-> <<1, 2, 1, v>>, above |-> [l \in 1..4 |-> <<1>>],
         case |-> <<<<0>>, <<2>>, <<3>>, <<4>>>>, cases |-> <<3>>,
         list |-> <<{1, 2, 3, 4}, {}, {}, {}>>, prunable |-> {2}] : v \in 1..2}
  \cup {[values |-> <<1, 1, 2, 1, 1, v>>,
         above |-> <<<<3, 1>>, <<3, 1>>, <<3, 1>>, <<2, 1>>, <<2, 1>>, <<1>>>>,
         case |-> <<<<1, 0, 1>>, <<1, 0, 2>>, <<1, 0, 3>>, <<1, 1, 0>>, <<1, 2, 0>>, <<2, 0, 0>>>>,
         cases |-> <<2, 2, 3>>, list |-> [l \in 1..6 |-> {}], prunable |-> {4}] : v \in 1..2}
  \cup {[values |-> <<1, 2>>, above |-> <<<<1>>, <<>>>>, case |-> <<<<1>>, <<0>>>>,
         cases |-> <<2>>, list |-> <<{}, {}>>, prunable |-> {}]}
  \cup {[values |-> <<v, 1, 1, 2>>, above |-> <<<<1>>, <<1>>, <<1>>, <<>>>>,
         case |-> <<<<1>>, <<1>>, <<2>>, <<0>>>>, cases |-> <<2>>,
         list |-> [l \in 1..4 |-> {}], prunable |-> {}] : v \in 1..2}

\* The effects of the files make one initial configuration enough.
MCInit == AnyInit /\ running.dev = 0

MCSpec == MCInit /\ [][AnyNext]_<<vars, walk_vars>> /\ WF_<<vars, walk_vars>>(TestStep)
=============================================================================
