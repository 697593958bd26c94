----------------------------- MODULE MCHostStore -----------------------------
(* Instances of HostStore for TLC.                                         *)
EXTENDS HostStore, TLC

CONSTANTS s1, s2, b1, b2

\* Every Session runs on the same desktop.
MCBindingOf == [s \in Sessions |-> b1]

Symmetric == Permutations(AdmissionKeys) \cup Permutations(StopKeys)
=============================================================================
