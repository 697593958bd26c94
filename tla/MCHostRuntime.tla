---------------------------- MODULE MCHostRuntime ----------------------------
(* Instances of HostRuntime for TLC.                                       *)
EXTENDS HostRuntime

CONSTANTS s1, s2, b1, b2

MCOneDesktop  == [s \in Sessions |-> b1]
MCTwoDesktops == (s1 :> b1) @@ (s2 :> b2)

Symmetric == Permutations(AdmissionKeys) \cup Permutations(StopKeys)
                \cup Permutations(TurnRefs)
=============================================================================
