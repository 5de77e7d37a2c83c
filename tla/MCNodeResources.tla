--------------------------- MODULE MCNodeResources ---------------------------
(* Instances of NodeResources.                                               *)
EXTENDS NodeResources

CONSTANTS a, b
=============================================================================
