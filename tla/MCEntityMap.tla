---------------------------- MODULE MCEntityMap ----------------------------
(* Small instances of EntityMap for TLC.                                   *)
EXTENDS EntityMap

CONSTANTS main, background, e1, e2, h1, h2, h3

TwoThreads == {main, background}
TwoEntities == {e1, e2}
ThreeHandles == {h1, h2, h3}
=============================================================================
