--------------------------- MODULE MCCliConversion ---------------------------
(***************************************************************************)
(* Instances of CliConversion for TLC.                                     *)
(***************************************************************************)
EXTENDS CliConversion, TLC

CONSTANTS f1, f1_txt, f1_sp, f2_2, f2_10, bad

\* f1.cfg, f1.txt, f2:10.cfg, f2:2.cfg and another name, in the order of names;
\* f1_sp is an f1.cfg in a directory with a space in its name.
Names       == {f1, f1_txt, f1_sp, f2_2, f2_10, bad}
NameSets    == f1 :> 1 @@ f1_txt :> 1 @@ f1_sp :> 3 @@ f2_2 :> 2 @@ f2_10 :> 2 @@ bad :> 0
NameIndices == [f \in Names |-> IF f = f2_2 THEN 2 ELSE IF f = f2_10 THEN 10 ELSE 0]
StateNames  == Names \ {f1_txt, f1_sp}
NameStates  == [f \in Names |-> IF f \in {f1_txt, f1_sp} THEN f1 ELSE f]
SomeFiles   == {<<bad, f1>>, <<f1, f1_txt>>, <<f1, f1_sp>>, <<f1, f2_10, f2_2>>}

\* Whether the default configuration survives a conversion, and what a second
\* conversion makes of what the first one has left behind.
Sequences == {<<"save-default", "convert", "load-default">>,
              <<"convert", "convert">>}
=============================================================================
