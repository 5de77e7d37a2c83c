---------------------------- MODULE NodeContract ----------------------------
(***************************************************************************)
(* What a Node promises the daemon about its streams, through the calls    *)
(* that reconcile makes one at a time and the stops and starts that may    *)
(* come at any moment, under a call too.  NodeResources implements it with *)
(* its caches, its locks and the thread that reinserts; App is built on    *)
(* these actions, and so on nothing else of the Node.                      *)
(*                                                                         *)
(* A stream is held if it is cached, or copied from the cache to be added  *)
(* again; a copy is what counts if there are both, as it is added later.   *)
(* What counts is what the daemon wrote last: what controllers activate in *)
(* between is Endpoints' matter.                                           *)
(***************************************************************************)

CONSTANTS
    Streams,    \* ids of streams
    Contents,   \* configurations of a stream
    Unusable,   \* those a Node refuses
    Absent      \* no such stream

VARIABLES
    held,       \* the configuration the Node has of each stream
    stage,      \* "up", "down", "failed" to start, or "starting": reinserting
    asked,      \* the call under way: its stream and what it is to be
    met,        \* whether that call has met a starting Node
    crossed     \* the streams of calls that ever did

vars == <<held, stage, asked, met, crossed>>

Usable == (Contents \ Unusable) \cup {Absent}

NoCall == [s |-> Absent, to |-> Absent]

TypeOK ==
    /\ held \in [Streams -> Usable]
    /\ stage \in {"up", "down", "failed", "starting"}
    /\ asked = NoCall \/ asked \in [s : Streams, to : Contents \cup {Absent}]
    /\ met \in BOOLEAN
    /\ crossed \subseteq Streams

\* start() has returned, and the server's thread has just begun.
Init ==
    /\ held = [s \in Streams |-> Absent]
    /\ stage = "starting"
    /\ asked = NoCall
    /\ met = FALSE
    /\ crossed = {}

\* A call to add or update a stream, or to remove it.
Ask(s, to) ==
    /\ asked = NoCall
    /\ asked' = [s |-> s, to |-> to]
    /\ met' = (stage = "starting")
    /\ crossed' = IF stage = "starting" THEN crossed \cup {s} ELSE crossed
    /\ UNCHANGED <<held, stage>>

Answer == asked # NoCall /\ asked' = NoCall /\ UNCHANGED <<stage, met, crossed>>

\* It returns, and the stream is as asked.  A stopped Node cannot add.
Done ==
    /\ Answer
    /\ asked.to \in Usable
    /\ stage = "down" /\ asked.to # Absent => held[asked.s] # Absent
    /\ held' = [held EXCEPT ![asked.s] = asked.to]

\* It throws, and nothing has changed.
Refuse ==
    /\ Answer
    /\ asked.to # Absent
    /\ asked.to \in Unusable \/ stage # "up" \/ asked.s \in crossed
    /\ UNCHANGED held

\* It returns and has changed nothing that lasts: the reinsertion's copy wins.
Missed ==
    /\ Answer
    /\ met
    /\ UNCHANGED held

\* The reinsertion meets what a call has done to one of its streams: which of the
\* two remains is open, and it may end there and lose the copies not added yet.
Confuse ==
    /\ stage = "starting" /\ crossed # {}
    /\ held' \in [Streams -> Usable]
    /\ \A s \in Streams \ crossed : held'[s] \in {held[s], Absent}
    /\ UNCHANGED <<stage, asked, met, crossed>>

\* A Node that was up keeps what it held.  One that was starting may lose copies
\* not added yet.
Stop ==
    /\ stage # "down"
    /\ stage' = "down"
    /\ held' \in [Streams -> Usable]
    /\ \A s \in Streams :
          \/ held'[s] = held[s]
          \/ stage = "starting" /\ (held'[s] = Absent \/ s \in crossed)
    /\ UNCHANGED <<asked, met, crossed>>

\* What is in the cache is to be added again, also under a call.
Begin(next) ==
    /\ stage = "down"
    /\ stage' = next
    /\ met' = (asked # NoCall \/ met)
    /\ crossed' = IF asked = NoCall THEN crossed ELSE crossed \cup {asked.s}
    /\ UNCHANGED <<held, asked>>

Start == Begin("starting")

\* start() returns false.
StartFails == Begin("failed")

Ready ==
    /\ stage = "starting"
    /\ stage' = "up"
    /\ UNCHANGED <<held, asked, met, crossed>>

Next ==
    \/ \E s \in Streams, to \in Contents \cup {Absent} : Ask(s, to)
    \/ Done \/ Refuse \/ Missed \/ Confuse
    \/ Stop \/ Start \/ StartFails \/ Ready

Spec == Init /\ [][Next]_vars

=============================================================================
