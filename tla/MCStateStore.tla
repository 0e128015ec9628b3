---------------------------- MODULE MCStateStore ----------------------------
(***************************************************************************)
(* Instances of StateStore for TLC.                                        *)
(***************************************************************************)
EXTENDS StateStore

CONSTANTS a, b, s1, s2

\* b is the name that the first rollback of state a is recorded as; the
\* operation may end after a.
WithRollback == {<<a, b>>}

\* An empty directory, or one with a state that was recorded and a file that
\* the user has put there.
GivenFiles == {{}, {<<a, ".state.xml">>, <<b, ".cfg">>}}

\* Two files, and two files of the same name (a.xml and a.cfg).
TwoFiles == {<<a, b>>, <<a, a>>}

AllOps == AllKinds
Anyone == Permutations(Sessions)

OneImport == {"import"}
OneRecord == {"record"}
=============================================================================
