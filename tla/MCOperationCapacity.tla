------------------------ MODULE MCOperationCapacity -------------------------
(* Small instances of OperationCapacity.                                   *)
EXTENDS OperationCapacity

CONSTANTS a1, a2, c1, e1
=============================================================================
