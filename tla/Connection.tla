----------------------------- MODULE Connection -----------------------------
(***************************************************************************)
(* What WsClient promises the App: the flag is_connected() returns, the two*)
(* callbacks, which the receive worker makes one at a time, and the end of *)
(* that worker.  WsClient implements it with its three workers and the     *)
(* library's threads; App is built on these actions, and so on nothing else*)
(* of the client.                                                          *)
(*                                                                         *)
(* It says what a user of WsClient may not expect, too: on_disconnected    *)
(* comes only from a client that is being stopped; a connection that is    *)
(* lost just clears the flag, and may be lost without clearing it.         *)
(***************************************************************************)

VARIABLES
    connected,   \* what is_connected() returns
    calling,     \* the callback under way, or "none"
    stopping,    \* stop() was called
    ended        \* the receive worker is done, and makes no more callbacks

vars == <<connected, calling, stopping, ended>>

TypeOK ==
    /\ {connected, stopping, ended} \subseteq BOOLEAN
    /\ calling \in {"none", "on_connected", "on_disconnected"}

Init ==
    /\ connected = FALSE
    /\ calling = "none"
    /\ stopping = FALSE
    /\ ended = FALSE

\* A connection comes up and on_connected is called for it.
Opens ==
    /\ ~ended
    /\ ~connected /\ calling = "none"
    /\ connected' = TRUE
    /\ calling' = "on_connected"
    /\ UNCHANGED <<stopping, ended>>

\* A connection is lost, during a callback or not.
Lost ==
    /\ connected
    /\ connected' = FALSE
    /\ UNCHANGED <<calling, stopping, ended>>

\* A client that is stopping gives up its connection.
Closes ==
    /\ stopping
    /\ connected /\ calling = "none"
    /\ connected' = FALSE
    /\ calling' = "on_disconnected"
    /\ UNCHANGED <<stopping, ended>>

Returns ==
    /\ calling # "none"
    /\ calling' = "none"
    /\ UNCHANGED <<connected, stopping, ended>>

Stops ==
    /\ ~stopping
    /\ stopping' = TRUE
    /\ UNCHANGED <<connected, calling, ended>>

Ends ==
    /\ stopping /\ ~ended
    /\ ~connected /\ calling = "none"
    /\ ended' = TRUE
    /\ UNCHANGED <<connected, calling, stopping>>

Next == Opens \/ Lost \/ Closes \/ Returns \/ Stops \/ Ends

Spec == Init /\ [][Next]_vars

=============================================================================
