----------------------------- MODULE MCEndpoints -----------------------------
(* Endpoints with a sender and a receiver, for TLC.                          *)
EXTENDS Endpoints

CONSTANTS v, r, d1, d2, a1, a2, a3, g

Leg(on, ip, source) == [enable |-> on, ip |-> ip, source |-> source]

Item(id, config) == [id |-> id, config |-> config]

Device(name, ip) == [name |-> name, ip |-> ip]

\* The list of video senders, and that of video receivers.
MCListOf == [s \in {v, r} |-> IF s = v THEN 4 ELSE 1]

MCHost == <<Device("eth0", Unset), Device("eth1", a1)>>

Port(usable, gmid, domain) ==
    [usable |-> usable, gmid |-> gmid, locked |-> TRUE, domain |-> domain]

\* A sender twice, with two legs and with one, and a receiver; the sender with its
\* second leg off, a receiver of two legs, a clock of two ports and interfaces with
\* addresses; a sender that is off, and an interface without an address.
MCOffers ==
    {[ptp_clock |-> <<>>, devices |-> <<>>,
      streams |-> <<Item(v, <<Leg(TRUE, d2, a2), Leg(TRUE, d2, Unset)>>),
                    Item(v, <<Leg(TRUE, d1, a1)>>),
                    Item(r, <<Leg(TRUE, d1, Unset)>>)>>],
     [ptp_clock |-> <<Port(FALSE, g, 1), Port(TRUE, Unset, 200), Port(TRUE, g, 3)>>,
      devices |-> <<Device("eth0", a2), Device("eth1", a3)>>,
      streams |-> <<Item(v, <<Leg(TRUE, d2, a2), Leg(FALSE, d1, Unset)>>),
                    Item(r, <<Leg(TRUE, d2, a2), Leg(TRUE, Unset, Unset)>>)>>],
     [ptp_clock |-> <<Port(TRUE, Malformed, 5)>>, devices |-> <<Device("eth0", Unset)>>,
      streams |-> <<Item(v, <<Leg(FALSE, d2, a1)>>)>>]}
=============================================================================
