---------------------------- MODULE MCAppEffects ---------------------------
(* Small instances of AppEffects for TLC.                                  *)
EXTENDS AppEffects, TLC

CONSTANTS e1, e2

TwoEntities == {e1, e2}

EntitySymmetry == Permutations(TwoEntities)
=============================================================================
