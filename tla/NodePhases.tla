----------------------------- MODULE NodePhases -----------------------------
(***************************************************************************)
(* How a Node lives, from one start to the next: what the worker and the   *)
(* server's thread do in turn (src/src/node.cpp, Node::Impl).  ConfigUpdate *)
(* implements it, with the calls the daemon makes of start() and stop(),    *)
(* their threads and the death of the process; NodeResources, which begins  *)
(* when start() has returned, goes through no other phases.                *)
(***************************************************************************)

\* "down"     no worker
\* "starting" a worker, of which the server's thread has not inserted the device yet,
\*            or never will
\* "serving"  the device is there, in a model that was empty before
\* "closing"  told to shut down, and the server's thread goes on
\* "closed"   told to shut down, and there is no such thread any more
VARIABLE phase

Init == phase \in {"down", "starting"}

Start == phase = "down" /\ phase' = "starting"

Serve == phase = "starting" /\ phase' = "serving"

Shut == phase \in {"starting", "serving"} /\ phase' \in {"closing", "closed"}

Close == phase = "closing" /\ phase' = "closed"

Joined == phase = "closed" /\ phase' = "down"

\* The process dies.
Die == phase' = "down"

Next == Start \/ Serve \/ Shut \/ Close \/ Joined \/ Die

Spec == Init /\ [][Next]_phase

=============================================================================
