------------------------------ MODULE MCHarness ------------------------------
(* Small instances of Harness: a backlog with or without role gates, human  *)
(* confirmation and a retry.                                                *)
EXTENDS Harness, TLC

Knob(roles, hitlAtQa, hitlOnBlock, retries) ==
    [roles |-> roles, hitlAtQa |-> hitlAtQa, hitlOnBlock |-> hitlOnBlock, retries |-> retries]

MCKnobs == {Knob(FALSE, FALSE, FALSE, 2), Knob(FALSE, TRUE, FALSE, 1),
            Knob(TRUE, FALSE, FALSE, 1), Knob(TRUE, TRUE, TRUE, 1)}

Symmetry == Permutations(Tasks) \cup Permutations(Runs)
===============================================================================
