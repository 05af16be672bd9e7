-------------------------- MODULE MCSubscriberSet --------------------------
(* Small instances of SubscriberSet for TLC.                               *)
EXTENDS SubscriberSet, TLC

CONSTANTS e1, e2

OneKey == {e1}
TwoKeys == {e1, e2}

KeySymmetry == Permutations(TwoKeys)
=============================================================================
