-------------------------------- MODULE MCApp --------------------------------
(* Instances of App: two streams in different lists of the snapshot, a       *)
(* receiver list reconciled first and a sender list after it.                *)
EXTENDS App, TLC

CONSTANTS a, b

MCStreams == {a, b}

OneStream == {a}

OneList == a :> 1

MCListOf == (a :> 1) @@ (b :> 4)
=============================================================================
