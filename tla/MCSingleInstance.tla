-------------------------- MODULE MCSingleInstance -------------------------
(***************************************************************************)
(* Small instances of SingleInstance.                                      *)
(***************************************************************************)
EXTENDS SingleInstance

CONSTANTS p1, p2, p3, none

TwoProcesses == {p1, p2}
ThreeProcesses == {p1, p2, p3}
EveryPlatform == {"unix", "windows"}
UnixOnly == {"unix"}
NoFaults == {}
\* A probe of a running instance that fails makes two of them.
MostFaults == {"remove", "bind", "mutex", "dup", "accept"}
=============================================================================
