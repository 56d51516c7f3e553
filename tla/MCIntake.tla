------------------------------ MODULE MCIntake ------------------------------
EXTENDS Intake, TLC

CONSTANTS f1, f2, f3, f4, f5, f6, f7, f8, j1

\* A good file, a damaged one, one that poisons graylog and a verbose one; empty
\* files with other faults; a truncated file.
Mixed == (f1 :> <<"line", "skipped", "line">>) @@ (f2 :> <<"line", "damaged">>)
         @@ (f3 :> <<"poison">>) @@ (f4 :> <<"line">>)
         @@ [f \in {f5, f6, f7, f8} |-> <<>>]
Cut   == [f \in {f1} |-> <<"line", "broken">>]
=============================================================================
