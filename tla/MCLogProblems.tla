--------------------------- MODULE MCLogProblems ---------------------------
(***************************************************************************)
(* Instances of LogProblems for TLC.                                       *)
(***************************************************************************)
EXTENDS LogProblems

CONSTANTS conv, test

MCCases == {conv, test}

\* Lines that match neither, either or both of two patterns, terminate the
\* second one, or open a test case, perhaps in a line that matches, too.
MCLines ==
  {[match |-> m, stop |-> {}, case |-> NoCase] : m \in SUBSET {1, 2}}
  \cup {[match |-> m, stop |-> {2}, case |-> NoCase] : m \in {{}, {1}}}
  \cup {[match |-> {}, stop |-> {}, case |-> conv],
        [match |-> {1}, stop |-> {2}, case |-> test]}

Matcher(terminated, max) == [terminated |-> terminated, max_lines |-> max]

MCPatterns ==
  {<<Matcher(FALSE, n), Matcher(b, k)>> : b \in BOOLEAN, n \in {0, 1}, k \in {0, 2}}
=============================================================================
