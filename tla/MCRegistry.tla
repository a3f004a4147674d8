----------------------------- MODULE MCRegistry -----------------------------
(* Small instances of Registry for TLC: three or four registrations.       *)
EXTENDS Registry, TLC

\* The numbers an operator may choose: 0.2.0, the next minor of 0.1.0, also
\* written 0.02.0, and a major.
OperatorNumbers == {<<0, 2, 0, "plain">>, <<0, 2, 0, "padded">>,
                    <<1, 0, 0, "plain">>}

Symmetry == Permutations(Request)
=============================================================================
