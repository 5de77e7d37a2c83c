---------------------------- MODULE MCConfigUpdate ----------------------------
(* ConfigUpdate with small constants, for TLC.                             *)
EXTENDS ConfigUpdate

CONSTANTS r1, r2, main, x, y

\* Documents and patches: a selection, one with another registry beside it, a
\* registry alone, the end of a selection, and one that is refused.
MCPayloads ==
    {[f \in {"selected_registry_uri"} |-> x],
     [f \in {"registry"} |-> y],
     [f \in {"selected_registry_uri"} |-> Null],
     [f \in {"selected_registry_uri"} |-> Malformed]}

=============================================================================
