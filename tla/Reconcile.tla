------------------------------ MODULE Reconcile ------------------------------
(***************************************************************************)
(* What the daemon makes of a snapshot before it calls the Node: the maps  *)
(* of reconcile_engine.cpp, and the one clock that the list of PTP entries *)
(* of a snapshot stands for (dto.cpp).                                     *)
(*                                                                         *)
(* A stream's configuration is a sequence of one leg, or of two if its     *)
(* redudancy is present.  Equality of configurations, clocks and devices is*)
(* the equality of the code, field by field.                               *)
(***************************************************************************)
EXTENDS Integers, Sequences, FiniteSetsExt

CONSTANTS
    Streams,       \* ids of streams, unique over the six lists
    Receivers,     \* those of receivers; the others are senders
    Destinations,  \* multicast addresses
    Addresses,     \* addresses of network interfaces
    Interfaces,    \* names of network interfaces
    Gmids,         \* grandmaster identities is_valid_ptp_gmid accepts
    Malformed,     \* one it does not
    Unset          \* the empty string

ASSUME ReconcileAssumption ==
    /\ Receivers \subseteq Streams
    /\ Unset \notin Destinations \cup Addresses \cup Gmids \cup {Malformed}
    /\ Malformed \notin Gmids

Configs ==
    UNION {[1..n -> [enable : BOOLEAN, ip : Destinations \cup {Unset},
                     source : Addresses \cup {Unset}]] : n \in 1..2}

\* One network interface; only the first of its addresses is modelled.
Devices == Seq([name : Interfaces, ip : Addresses \cup {Unset}])

\* One PTP port of the host; usable says active, connected and initialized.
Entries == [usable : BOOLEAN, gmid : Gmids \cup {Malformed, Unset},
            locked : BOOLEAN, domain : Int]

Snapshots == [ptp_clock : Seq(Entries), devices : Devices,
              streams : Seq([id : Streams, config : Configs])]

EmptySnapshot == [ptp_clock |-> <<>>, devices |-> <<>>, streams |-> <<>>]

-----------------------------------------------------------------------------
(* reconcile_engine.cpp                                                    *)

Ids(items) == {items[i].id : i \in DOMAIN items}

\* make_map: emplace keeps the first of two items with the same id.
MakeMap(items) ==
    [s \in Ids(items) |-> items[Min({i \in DOMAIN items : items[i].id = s})].config]

\* Mutant: a second leg is not compared.
EquivalentFirstLegs(lhs, rhs) == lhs[1] = rhs[1]

\* equivalent: no field of a stream is left out, at any of its legs.
Equivalent(lhs, rhs) == lhs = rhs

\* reconcile_list: the streams it removes or updates, and those it adds.
Changed(current, next) ==
    LET was == MakeMap(current.streams)
        now == MakeMap(next.streams)
    IN  {s \in DOMAIN was : s \in DOMAIN now => ~Equivalent(was[s], now[s])}

Added(current, next) == Ids(next.streams) \ Ids(current.streams)

-----------------------------------------------------------------------------
(* PtpClockDto                                                             *)

Usable(entries) == {i \in DOMAIN entries : entries[i].usable}

\* The identity is that of the first usable port which has one, ...
EffectiveGmid(entries) ==
    LET named == {i \in Usable(entries) : entries[i].gmid # Unset}
    IN  IF named = {} THEN Unset ELSE entries[Min(named)].gmid

\* ... the lock and the domain those of the first usable port.
EffectiveLocked(entries) ==
    Usable(entries) # {} /\ entries[Min(Usable(entries))].locked

EffectiveDomain(entries) ==
    IF Usable(entries) # {} /\ entries[Min(Usable(entries))].domain \in 0..127
    THEN entries[Min(Usable(entries))].domain ELSE 127

=============================================================================
