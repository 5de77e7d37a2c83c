--------------------------- MODULE EndpointsProofs ---------------------------
(***************************************************************************)
(* Proofs about Endpoints, for any streams, addresses, interfaces, clocks  *)
(* and snapshots, and any number of syncs, activations and restarts.       *)
(*                                                                         *)
(* The first part says what the operators give: an address of an interface *)
(* for every leg, endpoints and configurations of the right form.  The     *)
(* second proves the invariant IInv, which relates for each stream alone   *)
(* its cached configuration and its connection resource, action by action. *)
(* The third adds what snapshots say: SnapshotsOK, which holds for each    *)
(* stream the sync under way, or the last one, has decided about.          *)
(***************************************************************************)
EXTENDS Endpoints, TLAPS, WellFoundedInduction

-----------------------------------------------------------------------------
(* The operators the model is built from.                                  *)

\* A set of positions that is not empty has a first one, which is one of them.
LEMMA MinIsIn ==
    ASSUME NEW S \in SUBSET Nat, S # {}
    PROVE  Min(S) \in S
PROOF
<1> DEFINE Less == {p \in Nat \X Nat : p[1] < p[2]}
<1>1. IsWellFoundedOn(Less, Nat)
    BY NatLessThanWellFounded DEF OpToRel
<1>2. PICK x \in S : \A y \in S : ~ (<<y, x>> \in Less)
    <2> HIDE DEF Less
    <2> QED BY <1>1, WFMin
<1>3. ASSUME NEW y \in S PROVE x =< y
    <2>1. x \in Nat /\ y \in Nat
        OBVIOUS
    <2>2. ~ (y < x)
        BY <1>2, <2>1
    <2> QED BY <2>1, <2>2
<1> QED BY <1>3 DEF Min

\* A configuration has one leg or two, and a list of legs as many as it is over.
LEMMA ConfigShape ==
    ASSUME NEW config \in Configs
    PROVE  /\ 1 \in DOMAIN config
           /\ DOMAIN config \in {1..1, 1..2}
           /\ \A i \in DOMAIN config :
                  /\ i \in 1..2
                  /\ config[i] = [enable |-> config[i].enable, ip |-> config[i].ip,
                                  source |-> config[i].source]
                  /\ config[i].enable \in BOOLEAN
                  /\ config[i].ip \in Destinations \cup {Unset}
                  /\ config[i].source \in Addresses \cup {Unset}
PROOF
<1>1. PICK n \in 1..2 :
          config \in [1..n -> [enable : BOOLEAN, ip : Destinations \cup {Unset},
                               source : Addresses \cup {Unset}]]
    BY DEF Configs
<1>2. n = 1 \/ n = 2
    OBVIOUS
<1> QED BY <1>1, <1>2

\* A sequence of one or two legs is a configuration.
LEMMA ConfigIntro ==
    ASSUME NEW D \in {1..1, 1..2},
           NEW f \in [D -> [enable : BOOLEAN, ip : Destinations \cup {Unset},
                            source : Addresses \cup {Unset}]]
    PROVE  f \in Configs
PROOF
<1>1. \E n \in 1..2 : D = 1..n
    OBVIOUS
<1> QED BY <1>1 DEF Configs

\* A list of legs, by its positions.
LEMMA LegListShape ==
    ASSUME NEW legs \in LegLists
    PROVE  /\ DOMAIN legs \in {1..1, 1..2}
           /\ legs \in [DOMAIN legs -> Legs]
PROOF
<1>1. PICK n \in 1..2 : legs \in [1..n -> Legs]
    BY DEF LegLists
<1>2. n = 1 \/ n = 2
    OBVIOUS
<1> QED BY <1>1, <1>2

\* One or two legs are a list of legs.
LEMMA LegListIntro ==
    ASSUME NEW D \in {1..1, 1..2}, NEW f \in [D -> Legs]
    PROVE  f \in LegLists
PROOF
<1>1. \E n \in 1..2 : D = 1..n
    OBVIOUS
<1> QED BY <1>1 DEF LegLists

\* The elements of a sequence, by their positions.
LEMMA SeqShape ==
    ASSUME NEW R, NEW q \in Seq(R)
    PROVE  /\ DOMAIN q = 1..Len(q)
           /\ Len(q) \in Nat
           /\ \A i \in 1..Len(q) : q[i] \in R
OBVIOUS

AnyDevice == [name : Interfaces \cup {Unset}, ip : Addresses \cup {Unset}]

\* FirstOf gives a device, and one of those asked for if there are any.
LEMMA FirstOfType ==
    ASSUME NEW devices \in Devices, NEW some \in SUBSET (DOMAIN devices),
           NEW otherwise \in AnyDevice
    PROVE  /\ FirstOf(devices, some, otherwise) \in AnyDevice
           /\ some # {} => \E i \in some : FirstOf(devices, some, otherwise) = devices[i]
           /\ some = {} => FirstOf(devices, some, otherwise) = otherwise
PROOF
<1>1. /\ some \subseteq Nat
      /\ \A i \in some : devices[i] \in AnyDevice
    <2>1. devices \in Seq([name : Interfaces, ip : Addresses \cup {Unset}])
        BY DEF Devices
    <2>2. /\ DOMAIN devices = 1..Len(devices)
          /\ Len(devices) \in Nat
          /\ \A i \in 1..Len(devices) :
                 devices[i] \in [name : Interfaces, ip : Addresses \cup {Unset}]
        BY <2>1, SeqShape
    <2>4. ASSUME NEW device \in [name : Interfaces, ip : Addresses \cup {Unset}]
          PROVE  device \in AnyDevice
        BY DEF AnyDevice
    <2> QED BY <2>2, <2>4
<1>2. CASE some = {}
    BY <1>2 DEF FirstOf
<1>3. CASE some # {}
    <2>1. Min(some) \in some
        BY <1>1, <1>3, MinIsIn
    <2> QED BY <1>1, <1>3, <2>1 DEF FirstOf
<1> QED BY <1>2, <1>3

\* An address is one the legs of a stream may use.
SourceOK(devices, address) ==
    AddressesOf(devices) # {} => address \in AddressesOf(devices)

\* The device of the first leg has an address, if any device has one.
LEMMA PrimaryOK ==
    ASSUME NEW devices \in Devices, NEW ip
    PROVE  /\ SelectPrimary(devices, ip) \in AnyDevice
           /\ SourceOK(devices, SelectPrimary(devices, ip).ip)
PROOF
<1> DEFINE any == FirstOf(devices, DOMAIN devices, NoDevice)
           addressed == FirstOf(devices, WithAddress(devices), any)
<1>1. /\ Configured(devices, ip) \subseteq WithAddress(devices)
      /\ WithAddress(devices) \subseteq DOMAIN devices
    BY DEF Configured, WithAddress
<1>2. any \in AnyDevice
    <2>1. NoDevice \in AnyDevice
        BY DEF NoDevice, AnyDevice
    <2> QED BY <2>1, FirstOfType
<1>3. /\ addressed \in AnyDevice
      /\ WithAddress(devices) # {} => \E i \in WithAddress(devices) : addressed = devices[i]
    <2> HIDE DEF any
    <2> QED BY <1>1, <1>2, FirstOfType
<1>4. /\ SelectPrimary(devices, ip) \in AnyDevice
      /\ WithAddress(devices) # {} =>
             \E i \in WithAddress(devices) : SelectPrimary(devices, ip) = devices[i]
    <2>1. SelectPrimary(devices, ip) = FirstOf(devices, Configured(devices, ip), addressed)
        BY DEF SelectPrimary
    <2> HIDE DEF addressed
    <2> QED BY <1>1, <1>3, <2>1, FirstOfType
<1> QED BY <1>4 DEF SourceOK, AddressesOf

\* So has the device of the second leg, if the first leg's has one.
LEMMA RedundancyOK ==
    ASSUME NEW devices \in Devices, NEW ip,
           NEW primary \in AnyDevice, SourceOK(devices, primary.ip)
    PROVE  /\ SelectRedundancy(devices, ip, primary) \in AnyDevice
           /\ SourceOK(devices, SelectRedundancy(devices, ip, primary).ip)
PROOF
<1> DEFINE others == {i \in WithAddress(devices) : devices[i].name # primary.name}
           other == FirstOf(devices, others, primary)
<1>1. /\ Configured(devices, ip) \subseteq WithAddress(devices)
      /\ WithAddress(devices) \subseteq DOMAIN devices
      /\ others \subseteq WithAddress(devices)
    BY DEF Configured, WithAddress
<1>2. /\ other \in AnyDevice
      /\ other = primary \/ \E i \in WithAddress(devices) : other = devices[i]
    <2> HIDE DEF others
    <2> QED BY <1>1, FirstOfType
<1>3. SourceOK(devices, other.ip)
    <2> HIDE DEF other
    <2> QED BY <1>2 DEF SourceOK, AddressesOf
<1>4. SelectRedundancy(devices, ip, primary)
          = FirstOf(devices, Configured(devices, ip), other)
    BY DEF SelectRedundancy
<1> HIDE DEF other, others
<1>5. CASE Configured(devices, ip) = {}
    BY <1>2, <1>3, <1>4, <1>5, FirstOfType, <1>1
<1>6. CASE Configured(devices, ip) # {}
    <2>1. /\ SelectRedundancy(devices, ip, primary) \in AnyDevice
          /\ \E i \in WithAddress(devices) :
                 SelectRedundancy(devices, ip, primary) = devices[i]
        BY <1>1, <1>2, <1>4, <1>6, FirstOfType
    <2> QED BY <2>1 DEF SourceOK, AddressesOf
<1> QED BY <1>5, <1>6

\* Every leg of a stream gets the address of an interface, if any has one.
LEMMA SelectionOK ==
    ASSUME NEW devices \in Devices, NEW config \in Configs
    PROVE  /\ Selection(devices, config) \in [DOMAIN config -> Addresses \cup {Unset}]
           /\ \A i \in DOMAIN config : SourceOK(devices, Selection(devices, config)[i])
PROOF
<1> DEFINE primary == SelectPrimary(devices, config[1].source)
           leg(i) == IF i = 1 THEN primary.ip
                     ELSE SelectRedundancy(devices, config[i].source, primary).ip
<1>1. primary \in AnyDevice /\ SourceOK(devices, primary.ip)
    BY PrimaryOK
<1>2. Selection(devices, config) = [i \in DOMAIN config |-> leg(i)]
    BY DEF Selection
<1> HIDE DEF primary
<1>3. ASSUME NEW i \in DOMAIN config
      PROVE  leg(i) \in Addresses \cup {Unset} /\ SourceOK(devices, leg(i))
    <2>1. /\ SelectRedundancy(devices, config[i].source, primary) \in AnyDevice
          /\ SourceOK(devices, SelectRedundancy(devices, config[i].source, primary).ip)
        BY <1>1, RedundancyOK
    <2> QED BY <1>1, <2>1 DEF AnyDevice
<1> HIDE DEF leg
<1> QED BY <1>2, <1>3

-----------------------------------------------------------------------------
(* The inductive invariant, stream by stream: what a stream's cached        *)
(* configuration and its connection resource have to do with each other, and*)
(* with the interfaces and the clock.                                      *)

Aligned(config, connection) ==
    /\ DOMAIN connection.staged.legs = DOMAIN config
    /\ DOMAIN connection.active.legs = DOMAIN config
    /\ DOMAIN connection.allowed = DOMAIN config

FileOK(s, connection, clk) ==
    connection.file # NoFile => connection.file = FileOf(s, connection.active, clk)

\* What may become active is an address of an interface, or to be chosen yet.
SourcesOK(connection, devices) ==
    \A i \in DOMAIN connection.staged.legs :
        /\ SourceOK(devices, connection.allowed[i])
        /\ \/ connection.staged.legs[i].source = Automatic
           \/ SourceOK(devices, connection.staged.legs[i].source)

\* What is active was activated, and nothing of the Node's is pending or was called off.
SettledOK(s, config, connection, devices, who) ==
    connection.scheduled # "node" /\ who # "cancel" =>
        /\ config = Observed(s, connection.active)
        /\ \A i \in DOMAIN connection.active.legs :
               SourceOK(devices, connection.active.legs[i].source)

StreamOK(s, config, connection, devices, clk, who) ==
    IF connection = Absent THEN config = Absent
    ELSE /\ config \in Configs
         /\ connection \in Connections
         /\ Aligned(config, connection)
         /\ s \in Senders =>
                /\ FileOK(s, connection, clk)
                /\ SourcesOK(connection, devices)
                /\ SettledOK(s, config, connection, devices, who)

\* What a leg consists of.
LEMMA LegIntro ==
    ASSUME NEW on \in BOOLEAN, NEW ip \in Destinations \cup {Unset, Automatic},
           NEW source \in Addresses \cup {Unset, Automatic}
    PROVE  [enabled |-> on, ip |-> ip, source |-> source] \in Legs
BY DEF Legs

\* A new endpoint has the legs of its configuration; a sender's are to be resolved.
LEMMA MadeEndpoint ==
    ASSUME NEW s \in Streams, NEW config \in Configs, NEW devices \in Devices
    PROVE  /\ MakeEndpoint(s, config, devices) \in Endpoint
           /\ DOMAIN MakeEndpoint(s, config, devices).legs = DOMAIN config
           /\ s \in Senders =>
                  \A i \in DOMAIN config :
                      MakeEndpoint(s, config, devices).legs[i].source = Automatic
PROOF
<1> DEFINE leg(i) == MakeLeg(s, config, devices, i)
           legs == [i \in DOMAIN config |-> leg(i)]
<1>1. MakeEndpoint(s, config, devices)
          = [master |-> MasterEnabled(s, config), legs |-> legs]
    BY DEF MakeEndpoint
<1>2. ASSUME NEW i \in DOMAIN config PROVE leg(i) \in Legs
    <2>1. /\ config[i].enable \in BOOLEAN
          /\ config[1].enable \in BOOLEAN
          /\ config[i].ip \in Destinations \cup {Unset}
          /\ config[1].ip \in Destinations \cup {Unset}
        BY ConfigShape
    <2>2. Selection(devices, config)[i] \in Addresses \cup {Unset}
        BY SelectionOK
    <2>3. DestinationOf(s, config, i) \in Destinations \cup {Unset}
        BY <2>1 DEF DestinationOf
    <2>4. CASE s \in Receivers
        BY <2>2, <2>3, <2>4 DEF Legs, MakeLeg
    <2>5. CASE s \notin Receivers
        <3>1. leg(i) = [enabled |-> LegEnabled(config, i), ip |-> Automatic, source |-> Automatic]
            BY <2>5 DEF MakeLeg
        <3>2. LegEnabled(config, i) \in BOOLEAN
            BY Zenon DEF LegEnabled
        <3> QED BY <3>1, <3>2, LegIntro
    <2> QED BY <2>4, <2>5
<1>3. ASSUME s \in Senders, NEW i \in DOMAIN config
      PROVE  leg(i).source = Automatic
    <2>1. leg(i) = [enabled |-> LegEnabled(config, i), ip |-> Automatic, source |-> Automatic]
        BY <1>3 DEF Senders, MakeLeg
    <2> QED BY <2>1
<1>4. DOMAIN config \in {1..1, 1..2} /\ 1 \in DOMAIN config /\ config[1].enable \in BOOLEAN
    BY ConfigShape
<1> HIDE DEF leg
<1>5. legs \in [DOMAIN config -> Legs]
    BY <1>2
<1>6. legs \in LegLists
    BY <1>4, <1>5, LegListIntro
<1>7. MasterEnabled(s, config) \in BOOLEAN
    BY Zenon DEF MasterEnabled
<1>8. DOMAIN legs = DOMAIN config /\ \A i \in DOMAIN config : legs[i] = leg(i)
    OBVIOUS
<1> HIDE DEF legs
<1> QED BY <1>1, <1>3, <1>6, <1>7, <1>8 DEF Endpoint

\* The addresses the legs of a connection may use, and its legs, are as many.
LEMMA ConnectionIntro ==
    ASSUME NEW staged \in Endpoint, NEW active \in Endpoint,
           NEW D \in {1..1, 1..2}, NEW allowed \in [D -> Addresses \cup {Unset}],
           NEW scheduled \in {"no", "node", "controller"},
           NEW file \in [legs : LegLists, clock : Clocks] \cup {NoFile}
    PROVE  [staged |-> staged, active |-> active, allowed |-> allowed,
            scheduled |-> scheduled, file |-> file] \in Connections
PROOF
<1>1. \E n \in 1..2 : D = 1..n
    OBVIOUS
<1>2. allowed \in UNION {[1..n -> Addresses \cup {Unset}] : n \in 1..2}
    BY <1>1
<1> QED BY <1>2 DEF Connections

\* What a connection resource consists of.
LEMMA ConnectionShape ==
    ASSUME NEW connection \in Connections
    PROVE  /\ connection = [staged |-> connection.staged, active |-> connection.active,
                            allowed |-> connection.allowed,
                            scheduled |-> connection.scheduled, file |-> connection.file]
           /\ connection.staged \in Endpoint
           /\ connection.active \in Endpoint
           /\ DOMAIN connection.allowed \in {1..1, 1..2}
           /\ connection.allowed \in [DOMAIN connection.allowed -> Addresses \cup {Unset}]
           /\ connection.scheduled \in {"no", "node", "controller"}
           /\ connection.file \in [legs : LegLists, clock : Clocks] \cup {NoFile}
PROOF
<1>1. /\ connection = [staged |-> connection.staged, active |-> connection.active,
                       allowed |-> connection.allowed,
                       scheduled |-> connection.scheduled, file |-> connection.file]
      /\ connection.staged \in Endpoint
      /\ connection.active \in Endpoint
      /\ connection.allowed \in UNION {[1..n -> Addresses \cup {Unset}] : n \in 1..2}
      /\ connection.scheduled \in {"no", "node", "controller"}
      /\ connection.file \in [legs : LegLists, clock : Clocks] \cup {NoFile}
    BY DEF Connections
<1>2. PICK n \in 1..2 : connection.allowed \in [1..n -> Addresses \cup {Unset}]
    BY <1>1
<1>3. n = 1 \/ n = 2
    OBVIOUS
<1> QED BY <1>1, <1>2, <1>3

\* What an endpoint consists of.
LEMMA EndpointShape ==
    ASSUME NEW endpoint \in Endpoint
    PROVE  /\ endpoint = [master |-> endpoint.master, legs |-> endpoint.legs]
           /\ endpoint.master \in BOOLEAN
           /\ endpoint.legs \in LegLists
           /\ DOMAIN endpoint.legs \in {1..1, 1..2}
           /\ endpoint.legs \in [DOMAIN endpoint.legs -> Legs]
PROOF
<1>1. /\ endpoint = [master |-> endpoint.master, legs |-> endpoint.legs]
      /\ endpoint.master \in BOOLEAN
      /\ endpoint.legs \in LegLists
    BY DEF Endpoint
<1> QED BY <1>1, LegListShape

\* set_transportfile makes a file or none.
LEMMA FileType ==
    ASSUME NEW s \in Streams, NEW active \in Endpoint, NEW clk \in Clocks
    PROVE  FileOf(s, active, clk) \in [legs : LegLists, clock : Clocks] \cup {NoFile}
PROOF
<1>1. active.legs \in LegLists
    BY EndpointShape
<1> QED BY <1>1 DEF FileOf

\* A connection resource that was just made is sound, and waits for its addresses.
LEMMA MadeConnection ==
    ASSUME NEW s \in Streams, NEW config \in Configs, NEW devices \in Devices,
           NEW clk \in Clocks, NEW who
    PROVE  /\ MakeConnection(s, config, devices) \in Connections
           /\ StreamOK(s, config, MakeConnection(s, config, devices), devices, clk, who)
           /\ MakeConnection(s, config, devices).staged = MakeEndpoint(s, config, devices)
           /\ s \in Senders => MakeConnection(s, config, devices).scheduled = "node"
PROOF
<1> DEFINE made == MakeEndpoint(s, config, devices)
           allowed == Selection(devices, config)
           scheduled == IF s \in Receivers THEN "no" ELSE "node"
           new == [staged |-> made, active |-> made, allowed |-> allowed,
                   scheduled |-> scheduled, file |-> NoFile]
<1>1. MakeConnection(s, config, devices) = new
    BY DEF MakeConnection
<1>2. /\ made \in Endpoint
      /\ DOMAIN made.legs = DOMAIN config
      /\ s \in Senders => \A i \in DOMAIN config : made.legs[i].source = Automatic
    BY MadeEndpoint
<1>3. /\ allowed \in [DOMAIN config -> Addresses \cup {Unset}]
      /\ \A i \in DOMAIN config : SourceOK(devices, allowed[i])
    BY SelectionOK
<1>4. DOMAIN config \in {1..1, 1..2}
    BY ConfigShape
<1>5. scheduled \in {"no", "node", "controller"} /\ (s \in Senders => scheduled = "node")
    BY DEF Senders
<1> HIDE DEF made, allowed, scheduled
<1>6. new \in Connections
    BY <1>2, <1>3, <1>4, <1>5, ConnectionIntro
<1>7. /\ new.staged = made /\ new.active = made /\ new.allowed = allowed
      /\ new.scheduled = scheduled /\ new.file = NoFile
    OBVIOUS
<1> HIDE DEF new
<1>8. DOMAIN allowed = DOMAIN config
    BY <1>3
<1>9. Aligned(config, new)
    BY <1>2, <1>7, <1>8 DEF Aligned
<1>10. ASSUME s \in Senders
       PROVE  /\ FileOK(s, new, clk) /\ SourcesOK(new, devices)
              /\ SettledOK(s, config, new, devices, who)
    BY <1>2, <1>3, <1>5, <1>7, <1>10 DEF FileOK, SourcesOK, SettledOK
<1>11. new # Absent
    BY <1>6, AbsentAssumption
<1>12. MakeConnection(s, config, devices).staged = MakeEndpoint(s, config, devices)
    BY <1>1, <1>7 DEF made
<1> QED BY <1>1, <1>12, <1>5, <1>6, <1>7, <1>9, <1>10, <1>11 DEF StreamOK

\* Nor does a change of its configuration or of the interfaces make a stream unsound.
LEMMA ReplacedConnection ==
    ASSUME NEW s \in Streams, NEW config \in Configs, NEW devices \in Devices,
           NEW old \in Connections, clock \in Clocks, NEW who
    PROVE  /\ Replace(s, old, config, devices) \in Connections
           /\ StreamOK(s, config, Replace(s, old, config, devices), devices, clock, who)
           /\ Replace(s, old, config, devices).staged = MakeEndpoint(s, config, devices)
           /\ s \in Senders => Replace(s, old, config, devices).scheduled = "node"
           /\ \/ Replace(s, old, config, devices).active = old.active
              \/ /\ DOMAIN Replace(s, old, config, devices).active.legs = DOMAIN config
                 /\ DOMAIN old.active.legs # DOMAIN config
PROOF
<1> DEFINE new == MakeConnection(s, config, devices)
           active == IF DOMAIN old.active.legs = DOMAIN config THEN old.active
                                                               ELSE new.active
           file == FileOf(s, active, clock)
           replaced == [new EXCEPT !.active = active, !.file = file]
<1>1. Replace(s, old, config, devices) = replaced
    BY DEF Replace
<1>2. /\ new \in Connections
      /\ StreamOK(s, config, new, devices, clock, who)
      /\ s \in Senders => new.scheduled = "node"
      /\ new.staged = MakeEndpoint(s, config, devices)
    BY MadeConnection
<1> HIDE DEF new
<1>3. new # Absent
    BY <1>2, AbsentAssumption
<1>4. /\ Aligned(config, new)
      /\ s \in Senders => SourcesOK(new, devices)
    BY <1>2, <1>3 DEF StreamOK
<1>5. active \in Endpoint /\ DOMAIN active.legs = DOMAIN config
    BY <1>2, <1>4, ConnectionShape DEF Aligned
<1>6. \/ active = old.active
      \/ DOMAIN active.legs = DOMAIN config /\ DOMAIN old.active.legs # DOMAIN config
    BY <1>5
<1> HIDE DEF active
<1>7. file \in [legs : LegLists, clock : Clocks] \cup {NoFile}
    BY <1>5, FileType
<1>8. /\ replaced \in Connections
      /\ replaced.staged = new.staged /\ replaced.active = active
      /\ replaced.allowed = new.allowed /\ replaced.scheduled = new.scheduled
      /\ replaced.file = file
    <2> HIDE DEF file
    <2>1. new \in Connections
        BY <1>2
    <2>2. active \in Endpoint
        BY <1>5
    <2>3. replaced.file = file
        BY <2>1 DEF Connections
    <2> QED BY <2>1, <2>2, <1>7 DEF Connections
<1>9. Aligned(config, replaced)
    BY <1>4, <1>5, <1>8 DEF Aligned
<1>10. ASSUME s \in Senders
       PROVE  /\ FileOK(s, replaced, clock) /\ SourcesOK(replaced, devices)
              /\ SettledOK(s, config, replaced, devices, who)
    <2>1. FileOK(s, replaced, clock)
        BY <1>8 DEF FileOK
    <2>2. new.scheduled = "node"
        BY <1>2, <1>10
    <2> HIDE DEF replaced
    <2> QED BY <1>4, <1>8, <1>10, <2>1, <2>2 DEF SourcesOK, SettledOK
<1>11. replaced # Absent
    BY <1>8, AbsentAssumption
<1>12. /\ replaced.staged = MakeEndpoint(s, config, devices)
       /\ s \in Senders => replaced.scheduled = "node"
    BY <1>2, <1>8
<1> HIDE DEF replaced
<1> QED BY <1>1, <1>12, <1>2, <1>6, <1>8, <1>8, <1>9, <1>10, <1>11 DEF StreamOK

\* The Node's clock stays one, whatever ports a snapshot lists.
LEMMA ClockType ==
    ASSUME NEW entries \in Seq(Entries)
    PROVE  EffectiveLocked(entries) \in BOOLEAN /\ EffectiveDomain(entries) \in 0..127
PROOF
<1>1. EffectiveLocked(entries) \in BOOLEAN
    BY Zenon DEF EffectiveLocked
<1>2. EffectiveDomain(entries) \in 0..127
    BY DEF EffectiveDomain
<1> QED BY <1>1, <1>2

\* What a snapshot says of a stream is a configuration.
LEMMA MapShape ==
    ASSUME NEW snapshot \in Snapshots
    PROVE  /\ Ids(snapshot.streams) \subseteq Streams
           /\ DOMAIN MakeMap(snapshot.streams) = Ids(snapshot.streams)
           /\ \A s \in Ids(snapshot.streams) : MakeMap(snapshot.streams)[s] \in Configs
PROOF
<1> DEFINE items == snapshot.streams
           Item == [id : Streams, config : Configs]
           named(s) == {i \in DOMAIN items : items[i].id = s}
<1>1. items \in Seq(Item)
    BY DEF Snapshots
<1> HIDE DEF items, Item
<1>2. /\ DOMAIN items = 1..Len(items)
      /\ Len(items) \in Nat
      /\ \A i \in 1..Len(items) : items[i] \in Item
    BY <1>1, SeqShape
<1>3. \A i \in DOMAIN items : items[i].id \in Streams /\ items[i].config \in Configs
    BY <1>2 DEF Item
<1>4. MakeMap(items) = [s \in Ids(items) |-> items[Min(named(s))].config]
    BY DEF MakeMap
<1>5. ASSUME NEW s \in Ids(items)
      PROVE  items[Min(named(s))].config \in Configs
    <2>1. named(s) # {} /\ named(s) \subseteq DOMAIN items
        BY DEF Ids
    <2>2. named(s) \in SUBSET Nat
        BY <1>2, <2>1
    <2> HIDE DEF named
    <2>3. Min(named(s)) \in named(s)
        BY <2>1, <2>2, MinIsIn
    <2> QED BY <1>3, <2>1, <2>3
<1>6. Ids(items) \subseteq Streams
    BY <1>3 DEF Ids
<1> HIDE DEF named
<1> QED BY <1>4, <1>5, <1>6 DEF items

\* What the activation handler stores is a configuration, once nothing is left to
\* be chosen.
LEMMA ObservedType ==
    ASSUME NEW s \in Streams, NEW endpoint \in Endpoint,
           \A i \in DOMAIN endpoint.legs :
               /\ endpoint.legs[i].ip \in Destinations \cup {Unset}
               /\ endpoint.legs[i].source \in Addresses \cup {Unset}
    PROVE  /\ Observed(s, endpoint) \in Configs
           /\ DOMAIN Observed(s, endpoint) = DOMAIN endpoint.legs
PROOF
<1> DEFINE leg(i) == [enable |-> ObservedEnable(endpoint, i),
                      ip |-> endpoint.legs[i].ip,
                      source |-> endpoint.legs[i].source]
           legs == [i \in DOMAIN endpoint.legs |-> leg(i)]
           Leg == [enable : BOOLEAN, ip : Destinations \cup {Unset},
                   source : Addresses \cup {Unset}]
<1>1. Observed(s, endpoint) = legs
    BY DEF Observed
<1>2. ASSUME NEW i \in DOMAIN endpoint.legs PROVE leg(i) \in Leg
    <2>1. ObservedEnable(endpoint, i) \in BOOLEAN
        BY Zenon DEF ObservedEnable
    <2> QED BY <2>1
<1>3. DOMAIN endpoint.legs \in {1..1, 1..2}
    BY EndpointShape
<1> HIDE DEF leg
<1>4. legs \in [DOMAIN endpoint.legs -> Leg] /\ DOMAIN legs = DOMAIN endpoint.legs
    BY <1>2
<1> HIDE DEF legs
<1> QED BY <1>1, <1>3, <1>4, ConfigIntro

\* Every leg has a destination, or none is configured.
LEMMA DestinationType ==
    ASSUME NEW s \in Streams, NEW config \in Configs, NEW i \in DOMAIN config
    PROVE  DestinationOf(s, config, i) \in Destinations \cup {Unset}
BY ConfigShape DEF DestinationOf

\* The auto resolver leaves nothing to be chosen, and what it chooses is an address
\* of an interface.
LEMMA ResolvedLegs ==
    ASSUME NEW s \in Streams, cache[s] \in Configs, runtime_interfaces \in Devices,
           NEW legs \in LegLists, DOMAIN legs = DOMAIN cache[s]
    PROVE  /\ Resolve(s, legs) \in LegLists
           /\ DOMAIN Resolve(s, legs) = DOMAIN legs
           /\ \A i \in DOMAIN legs :
                  /\ Resolve(s, legs)[i].ip \in Destinations \cup {Unset}
                  /\ Resolve(s, legs)[i].source \in Addresses \cup {Unset}
                  /\ \/ SourceOK(runtime_interfaces, Resolve(s, legs)[i].source)
                     \/ legs[i].source # Automatic /\ Resolve(s, legs)[i].source = legs[i].source
PROOF
<1> DEFINE ip(i) == IF legs[i].ip = Automatic THEN DestinationOf(s, cache[s], i)
                                              ELSE legs[i].ip
           source(i) == IF legs[i].source = Automatic
                        THEN Selection(runtime_interfaces, cache[s])[i]
                        ELSE legs[i].source
           leg(i) == [legs[i] EXCEPT !.ip = ip(i), !.source = source(i)]
           resolved == [i \in DOMAIN legs |-> leg(i)]
<1>1. DOMAIN legs \in {1..1, 1..2} /\ \A i \in DOMAIN legs : legs[i] \in Legs
    BY LegListShape
<1>2. ASSUME NEW i \in DOMAIN legs
      PROVE  /\ ip(i) \in Destinations \cup {Unset}
             /\ source(i) \in Addresses \cup {Unset}
             /\ \/ SourceOK(runtime_interfaces, source(i))
                \/ legs[i].source # Automatic /\ source(i) = legs[i].source
    <2>1. /\ legs[i].ip \in Destinations \cup {Unset, Automatic}
          /\ legs[i].source \in Addresses \cup {Unset, Automatic}
        BY <1>1 DEF Legs
    <2>2. DestinationOf(s, cache[s], i) \in Destinations \cup {Unset}
        BY DestinationType
    <2>3. /\ Selection(runtime_interfaces, cache[s])[i] \in Addresses \cup {Unset}
          /\ SourceOK(runtime_interfaces, Selection(runtime_interfaces, cache[s])[i])
        BY SelectionOK
    <2> QED BY <2>1, <2>2, <2>3
<1> HIDE DEF ip, source
<1>3. Resolve(s, legs) = resolved
    BY DEF Resolve, ip, source
<1>4. ASSUME NEW i \in DOMAIN legs
      PROVE  leg(i) \in Legs /\ leg(i).ip = ip(i) /\ leg(i).source = source(i)
    <2>1. legs[i] \in Legs
        BY <1>1
    <2> QED BY <1>2, <2>1 DEF Legs
<1> HIDE DEF leg
<1>5. resolved \in [DOMAIN legs -> Legs] /\ DOMAIN resolved = DOMAIN legs
    BY <1>4
<1>6. resolved \in LegLists
    <2> HIDE DEF resolved
    <2> QED BY <1>1, <1>5, LegListIntro
<1> QED BY <1>2, <1>3, <1>4, <1>5, <1>6

\* An activation leaves a stream sound: what it puts into the cache is what became
\* active.
LEMMA ActivatedConnection ==
    ASSUME NEW s \in Streams, NEW old \in Connections, runtime_interfaces \in Devices,
           clock \in Clocks, NEW who,
           StreamOK(s, cache[s], old, runtime_interfaces, clock, writer[s])
    PROVE  LET active == [master |-> old.staged.master, legs |-> Resolve(s, old.staged.legs)]
               new == [old EXCEPT !.active = active, !.scheduled = "no",
                                  !.file = FileOf(s, active, clock)]
           IN  /\ new \in Connections
               /\ Observed(s, active) \in Configs
               /\ StreamOK(s, Observed(s, active), new, runtime_interfaces, clock, who)
PROOF
<1> DEFINE active == [master |-> old.staged.master, legs |-> Resolve(s, old.staged.legs)]
           file == FileOf(s, active, clock)
           new == [old EXCEPT !.active = active, !.scheduled = "no", !.file = file]
           config == Observed(s, active)
<1>1. old # Absent
    BY AbsentAssumption
<1>2. /\ cache[s] \in Configs
      /\ Aligned(cache[s], old)
      /\ s \in Senders => SourcesOK(old, runtime_interfaces)
    BY <1>1 DEF StreamOK
<1>3. old.staged \in Endpoint
    BY ConnectionShape
<1>4. old.staged.legs \in LegLists /\ old.staged.master \in BOOLEAN
    BY <1>3, EndpointShape
<1>5. DOMAIN old.staged.legs = DOMAIN cache[s]
    BY <1>2 DEF Aligned
<1>6. /\ active.legs \in LegLists
      /\ DOMAIN active.legs = DOMAIN cache[s]
      /\ \A i \in DOMAIN active.legs :
             /\ active.legs[i].ip \in Destinations \cup {Unset}
             /\ active.legs[i].source \in Addresses \cup {Unset}
             /\ \/ SourceOK(runtime_interfaces, active.legs[i].source)
                \/ /\ old.staged.legs[i].source # Automatic
                   /\ active.legs[i].source = old.staged.legs[i].source
    BY <1>2, <1>4, <1>5, ResolvedLegs
<1>7. active \in Endpoint
    BY <1>4, <1>6 DEF Endpoint
<1> HIDE DEF active
<1>8. config \in Configs /\ DOMAIN config = DOMAIN active.legs
    BY <1>6, <1>7, ObservedType
<1>9. file \in [legs : LegLists, clock : Clocks] \cup {NoFile}
    BY <1>7, FileType
<1>10. /\ new \in Connections
       /\ new.staged = old.staged /\ new.active = active
       /\ new.allowed = old.allowed /\ new.scheduled = "no" /\ new.file = file
    <2> HIDE DEF file
    <2> QED BY <1>7, <1>9 DEF Connections
<1>11. Aligned(config, new)
    <2> HIDE DEF config, new
    <2> QED BY <1>2, <1>6, <1>8, <1>10 DEF Aligned
<1>12. ASSUME s \in Senders
       PROVE  /\ FileOK(s, new, clock)
              /\ SourcesOK(new, runtime_interfaces)
              /\ SettledOK(s, config, new, runtime_interfaces, who)
    <2>1. FileOK(s, new, clock)
        BY <1>10 DEF FileOK
    <2>2. SourcesOK(old, runtime_interfaces)
        BY <1>2, <1>12
    <2> HIDE DEF new
    <2>3. SourcesOK(new, runtime_interfaces)
        BY <1>10, <2>2 DEF SourcesOK
    <2>4. \A i \in DOMAIN active.legs :
              SourceOK(runtime_interfaces, active.legs[i].source)
        BY <1>5, <1>6, <2>2 DEF SourcesOK
    <2>5. SettledOK(s, config, new, runtime_interfaces, who)
        BY <1>10, <2>4 DEF SettledOK
    <2> QED BY <2>1, <2>3, <2>5
<1>13. new # Absent
    BY <1>10, AbsentAssumption
<1>14. StreamOK(s, config, new, runtime_interfaces, clock, who)
    <2> HIDE DEF new, config
    <2> QED BY <1>8, <1>10, <1>11, <1>12, <1>13 DEF StreamOK
<1> QED BY <1>8, <1>10, <1>14 DEF active

\* A controller can only ask for an address some interface has.
LEMMA EditedLeg ==
    ASSUME NEW leg \in Legs, NEW allowed \in Addresses \cup {Unset},
           NEW new \in LegEdits(leg, allowed)
    PROVE  new \in Legs /\ new.source \in {leg.source, allowed}
PROOF
<1>1. CASE \E on \in BOOLEAN : new = [leg EXCEPT !.enabled = on]
    BY <1>1 DEF Legs
<1>2. CASE \E ip \in Destinations \cup {Automatic} : new = [leg EXCEPT !.ip = ip]
    BY <1>2 DEF Legs
<1>3. CASE \E ip \in {allowed} \ {Unset} : new = [leg EXCEPT !.source = ip]
    BY <1>3 DEF Legs
<1> QED BY <1>1, <1>2, <1>3, Zenon DEF LegEdits

\* So an edited endpoint keeps its legs, with addresses they had or may have.
LEMMA EditedEndpoint ==
    ASSUME NEW s \in Streams, connections[s] \in Connections,
           NEW config \in Configs, Aligned(config, connections[s]),
           NEW staged \in Edits(s)
    PROVE  /\ staged \in Endpoint
           /\ DOMAIN staged.legs = DOMAIN connections[s].staged.legs
           /\ \A i \in DOMAIN staged.legs :
                  staged.legs[i].source \in {connections[s].staged.legs[i].source,
                                             connections[s].allowed[i]}
PROOF
<1> DEFINE old == connections[s]
           base == old.staged
           D == DOMAIN base.legs
<1>1. base \in Endpoint
    BY ConnectionShape
<1>2. /\ base.master \in BOOLEAN
      /\ base.legs \in [D -> Legs]
      /\ D \in {1..1, 1..2}
    BY <1>1, EndpointShape
<1>3. old.allowed \in [D -> Addresses \cup {Unset}]
    BY ConnectionShape DEF Aligned
<1>4. ASSUME NEW on \in BOOLEAN, staged = WithMaster(base, on)
      PROVE  staged \in Endpoint /\ staged.legs = base.legs
    BY <1>1, <1>4 DEF Endpoint, WithMaster
<1>5. ASSUME NEW i \in D, NEW leg \in LegEdits(base.legs[i], old.allowed[i]),
             staged = WithLeg(base, i, leg)
      PROVE  /\ staged \in Endpoint
             /\ DOMAIN staged.legs = D
             /\ \A k \in D : staged.legs[k].source \in {base.legs[k].source, old.allowed[k]}
    <2> DEFINE legs == [base.legs EXCEPT ![i] = leg]
    <2>1. leg \in Legs /\ leg.source \in {base.legs[i].source, old.allowed[i]}
        BY <1>2, <1>3, EditedLeg
    <2>2. legs \in [D -> Legs]
        BY <1>2, <2>1
    <2>3. legs \in LegLists
        <3> HIDE DEF legs
        <3> QED BY <1>2, <2>2, LegListIntro
    <2>4. staged = [base EXCEPT !.legs = legs]
        BY <1>5 DEF WithLeg
    <2>5. staged.legs = legs /\ staged \in Endpoint
        <3> HIDE DEF legs
        <3> QED BY <1>1, <2>3, <2>4 DEF Endpoint
    <2> QED BY <1>2, <2>1, <2>2, <2>5
<1>6. \/ \E on \in BOOLEAN : staged = WithMaster(base, on)
      \/ \E i \in D : \E leg \in LegEdits(base.legs[i], old.allowed[i]) :
             staged = WithLeg(base, i, leg)
    BY DEF Edits
<1> QED BY <1>4, <1>5, <1>6

-----------------------------------------------------------------------------
(* Every step preserves the invariant.                                     *)

StreamsOK ==
    \A s \in Streams :
        StreamOK(s, cache[s], connections[s], runtime_interfaces, clock, writer[s])

IInv == TypeOK /\ StreamsOK

\* The invariant holds of a Node that has just come up.
LEMMA InitInv ==
    ASSUME Init
    PROVE  IInv
PROOF
<1> USE EndpointsAssumption, ReconcileAssumption
<1>1. runtime_interfaces \in Devices
    BY DEF Init
<1>2. clock \in Clocks
    BY DEF Init, Clocks
<1>3. /\ cache \in [Streams -> Configs \cup {Absent}]
      /\ connections \in [Streams -> Connections \cup {Absent}]
      /\ todo \in [Streams -> Configs \cup {Absent}]
      /\ job \in Jobs \cup {Absent}
      /\ writer \in [Streams -> Writers]
    BY DEF Init, None, Writers
<1>4. last_snapshot \in Snapshots
    BY DEF Init, EmptySnapshot, Snapshots, Devices
<1>5. budget \in [syncs : 0..MaxSyncs, patches : 0..MaxPatches, restarts : 0..MaxRestarts]
    BY DEF Init
<1>6. StreamsOK
    BY DEF Init, None, StreamsOK, StreamOK
<1> QED BY <1>1, <1>2, <1>3, <1>4, <1>5, <1>6 DEF IInv, TypeOK

\* A stream that is cached has a connection resource, and the other way round.
LEMMA CachedIsConnected ==
    ASSUME IInv, NEW s \in Streams
    PROVE  /\ cache[s] = Absent <=> connections[s] = Absent
           /\ cache[s] # Absent => cache[s] \in Configs /\ connections[s] \in Connections
BY AbsentAssumption DEF IInv, StreamsOK, StreamOK, TypeOK

\* add_* and update_* keep every stream sound.
LEMMA WriteOK ==
    ASSUME IInv, NEW s \in Streams, NEW config \in Configs, Write(s, config),
           UNCHANGED <<runtime_interfaces, clock>>, NEW who,
           writer' = [writer EXCEPT ![s] = who]
    PROVE  /\ cache' \in [Streams -> Configs \cup {Absent}]
           /\ connections' \in [Streams -> Connections \cup {Absent}]
           /\ StreamsOK'
PROOF
<1> DEFINE new == IF cache[s] # Absent
                  THEN Replace(s, connections[s], config, runtime_interfaces)
                  ELSE MakeConnection(s, config, runtime_interfaces)
<1>1. /\ cache \in [Streams -> Configs \cup {Absent}]
      /\ connections \in [Streams -> Connections \cup {Absent}]
      /\ runtime_interfaces \in Devices
      /\ clock \in Clocks
      /\ writer \in [Streams -> Writers]
    BY DEF IInv, TypeOK
<1>2. new \in Connections /\ StreamOK(s, config, new, runtime_interfaces, clock, who)
    BY <1>1, CachedIsConnected, MadeConnection, ReplacedConnection
<1>3. cache' = [cache EXCEPT ![s] = config]
    BY DEF Write
<1>4. connections' = [connections EXCEPT ![s] = new]
    BY DEF Write
<1> HIDE DEF new
<1>5. cache' \in [Streams -> Configs \cup {Absent}]
    BY <1>1, <1>3
<1>6. connections' \in [Streams -> Connections \cup {Absent}]
    BY <1>1, <1>2, <1>4
<1>7. ASSUME NEW t \in Streams
      PROVE  StreamOK(t, cache'[t], connections'[t], runtime_interfaces', clock',
                      writer'[t])
    <2>1. CASE t = s
        BY <1>1, <1>2, <1>3, <1>4, <2>1
    <2>2. CASE t # s
        <3>1. StreamOK(t, cache[t], connections[t], runtime_interfaces, clock, writer[t])
            BY DEF IInv, StreamsOK
        <3> QED BY <1>1, <1>3, <1>4, <2>2, <3>1
    <2> QED BY <2>1, <2>2
<1> QED BY <1>5, <1>6, <1>7 DEF StreamsOK

\* remove_* keeps every stream sound.
LEMMA RemoveOK ==
    ASSUME IInv, NEW s \in Streams, Remove(s), UNCHANGED <<runtime_interfaces, clock>>,
           NEW who, writer' = [writer EXCEPT ![s] = who]
    PROVE  /\ cache' \in [Streams -> Configs \cup {Absent}]
           /\ connections' \in [Streams -> Connections \cup {Absent}]
           /\ StreamsOK'
PROOF
<1>1. /\ cache \in [Streams -> Configs \cup {Absent}]
      /\ connections \in [Streams -> Connections \cup {Absent}]
      /\ writer \in [Streams -> Writers]
    BY DEF IInv, TypeOK
<1>2. cache' = [cache EXCEPT ![s] = Absent] /\ connections' = [connections EXCEPT ![s] = Absent]
    BY <1>1, CachedIsConnected DEF Remove
<1>3. ASSUME NEW t \in Streams
      PROVE  StreamOK(t, cache'[t], connections'[t], runtime_interfaces', clock',
                      writer'[t])
    <2>1. CASE t = s
        BY <1>1, <1>2, <2>1 DEF StreamOK
    <2>2. CASE t # s
        <3>1. StreamOK(t, cache[t], connections[t], runtime_interfaces, clock, writer[t])
            BY DEF IInv, StreamsOK
        <3> QED BY <1>1, <1>2, <2>2, <3>1
    <2> QED BY <2>1, <2>2
<1> QED BY <1>1, <1>2, <1>3 DEF StreamsOK

\* A sync or a drain that begins knows which streams it is about.
LEMMA BeginOK ==
    ASSUME IInv, (\E next \in Offers : BeginSync(next)) \/ BeginDrain
    PROVE  IInv' /\ job' \in Jobs
PROOF
<1>1. TypeOK
    BY DEF IInv
<1>2. last_snapshot \in Snapshots /\ Offers \subseteq Snapshots /\ EmptySnapshot \in Snapshots
    <2>1. last_snapshot \in Snapshots /\ Offers \subseteq Snapshots
        BY <1>1, EndpointsAssumption DEF TypeOK
    <2>2. EmptySnapshot \in Snapshots
        BY DEF EmptySnapshot, Snapshots, Devices
    <2> QED BY <2>1, <2>2
<1>3. job' \in Jobs
    <2>1. ASSUME NEW next \in Offers, BeginSync(next)
          PROVE  job' \in Jobs
        <3>0. next \in Snapshots
            BY <1>2
        <3>1. /\ (last_snapshot.ptp_clock # next.ptp_clock) \in BOOLEAN
              /\ (last_snapshot.devices # next.devices) \in BOOLEAN
            OBVIOUS
        <3>2. Changed(last_snapshot, next) \cup Added(last_snapshot, next) \subseteq Streams
            BY <1>2, <3>0, MapShape DEF Changed, Equivalent, Added
        <3> QED BY <1>2, <2>1, <3>0, <3>1, <3>2 DEF BeginSync, Jobs
    <2>2. CASE BeginDrain
        <3>1. Ids(last_snapshot.streams) \subseteq Streams
            BY <1>2, MapShape
        <3> QED BY <1>2, <2>2, <3>1 DEF BeginDrain, Jobs
    <2> QED BY <2>1, <2>2
<1>4. budget' \in [syncs : 0..MaxSyncs, patches : 0..MaxPatches, restarts : 0..MaxRestarts]
    BY <1>1, EndpointsAssumption DEF TypeOK, BeginSync, BeginDrain
<1>5. UNCHANGED <<node, todo, last_snapshot, writer>>
    BY DEF BeginSync, BeginDrain
<1>6. TypeOK'
    BY <1>1, <1>3, <1>4, <1>5 DEF TypeOK, node
<1>7. StreamsOK'
    BY <1>5 DEF IInv, StreamsOK, node
<1> QED BY <1>3, <1>6, <1>7 DEF IInv

\* A new clock makes new files of the same endpoints.
LEMMA SetPtpClockOK ==
    ASSUME IInv, SetPtpClock
    PROVE  IInv'
PROOF
<1>1. TypeOK
    BY DEF IInv
<1>2. job \in Jobs
    BY <1>1 DEF TypeOK, SetPtpClock
<1>3. job' \in Jobs
    BY <1>2 DEF SetPtpClock, Jobs
<1>4. clock' \in Clocks
    <2>1. job.next.ptp_clock \in Seq(Entries)
        BY <1>2 DEF Jobs, Snapshots
    <2>2. /\ EffectiveLocked(job.next.ptp_clock) \in BOOLEAN
          /\ EffectiveDomain(job.next.ptp_clock) \in 0..127
        BY <2>1, ClockType
    <2> QED BY <1>1, <2>2 DEF TypeOK, SetPtpClock, Clocks
<1>5. ASSUME NEW s \in Streams
      PROVE  /\ connections'[s] \in Connections \cup {Absent}
             /\ StreamOK(s, cache[s], connections'[s], runtime_interfaces, clock', writer[s])
    <2> DEFINE old == connections[s]
               file == FileOf(s, old.active, clock')
               new == [old EXCEPT !.file = file]
    <2>1. connections'[s] = IF old = Absent THEN Absent ELSE new
        BY DEF SetPtpClock
    <2>2. StreamOK(s, cache[s], old, runtime_interfaces, clock, writer[s])
        BY DEF IInv, StreamsOK
    <2>3. CASE old = Absent
        BY <2>1, <2>2, <2>3 DEF StreamOK
    <2>4. CASE old # Absent
        <3>1. /\ cache[s] \in Configs
              /\ old \in Connections
              /\ Aligned(cache[s], old)
              /\ s \in Senders =>
                     /\ SourcesOK(old, runtime_interfaces)
                     /\ SettledOK(s, cache[s], old, runtime_interfaces, writer[s])
            BY <2>2, <2>4 DEF StreamOK
        <3>2. file \in [legs : LegLists, clock : Clocks] \cup {NoFile}
            BY <1>4, <3>1, ConnectionShape, FileType
        <3>3. /\ new \in Connections /\ new.file = file
              /\ new.staged = old.staged /\ new.active = old.active
              /\ new.allowed = old.allowed /\ new.scheduled = old.scheduled
            <4> HIDE DEF file
            <4>1. old \in Connections
                BY <3>1
            <4> HIDE DEF old
            <4> QED BY <3>2, <4>1 DEF Connections
        <3>4. FileOK(s, new, clock')
            BY <3>3 DEF FileOK
        <3> HIDE DEF new
        <3>5. Aligned(cache[s], new)
            BY <3>1, <3>3 DEF Aligned
        <3>6. s \in Senders =>
                  /\ SourcesOK(new, runtime_interfaces)
                  /\ SettledOK(s, cache[s], new, runtime_interfaces, writer[s])
            BY <3>1, <3>3 DEF SourcesOK, SettledOK
        <3>7. new # Absent
            BY <3>3, AbsentAssumption
        <3> QED BY <2>1, <2>4, <3>1, <3>3, <3>4, <3>5, <3>6, <3>7 DEF StreamOK
    <2> QED BY <2>3, <2>4
<1>6. connections' \in [Streams -> Connections \cup {Absent}]
    <2>1. DOMAIN connections' = Streams
        BY DEF SetPtpClock
    <2>2. connections' = [s \in Streams |-> connections'[s]]
        BY DEF SetPtpClock
    <2> QED BY <1>5, <2>2
<1>7. UNCHANGED <<runtime_interfaces, cache, todo, last_snapshot, writer, budget>>
    BY DEF SetPtpClock
<1>8. TypeOK'
    BY <1>1, <1>3, <1>4, <1>6, <1>7 DEF TypeOK
<1>9. StreamsOK'
    BY <1>5, <1>7 DEF StreamsOK
<1> QED BY <1>8, <1>9 DEF IInv

\* New interfaces make new endpoints of the same configurations.
LEMMA SetRuntimeInterfacesOK ==
    ASSUME IInv, SetRuntimeInterfaces
    PROVE  IInv'
PROOF
<1>1. TypeOK
    BY DEF IInv
<1>2. job \in Jobs
    BY <1>1 DEF TypeOK, SetRuntimeInterfaces
<1>3. job' \in Jobs
    BY <1>2 DEF SetRuntimeInterfaces, Jobs
<1>4. runtime_interfaces' = job.next.devices /\ job.next.devices \in Devices
    BY <1>2 DEF SetRuntimeInterfaces, Jobs, Snapshots
<1>5. UNCHANGED <<clock, cache, todo, last_snapshot, writer, budget>>
    BY DEF SetRuntimeInterfaces
<1>6. ASSUME NEW s \in Streams
      PROVE  /\ connections'[s] \in Connections \cup {Absent}
             /\ StreamOK(s, cache[s], connections'[s], runtime_interfaces', clock, writer[s])
    <2>1. connections'[s] = IF cache[s] = Absent THEN connections[s]
                            ELSE Replace(s, connections[s], cache[s], job.next.devices)
        BY DEF SetRuntimeInterfaces
    <2>2. CASE cache[s] = Absent
        BY <2>1, <2>2, CachedIsConnected DEF StreamOK
    <2>3. CASE cache[s] # Absent
        <3>1. cache[s] \in Configs /\ connections[s] \in Connections
            BY <2>3, CachedIsConnected
        <3>2. clock \in Clocks
            BY <1>1 DEF TypeOK
        <3> QED BY <1>4, <2>1, <2>3, <3>1, <3>2, ReplacedConnection
    <2> QED BY <2>2, <2>3
<1>7. connections' \in [Streams -> Connections \cup {Absent}]
    <2>1. connections' = [s \in Streams |-> connections'[s]]
        BY DEF SetRuntimeInterfaces
    <2> QED BY <1>6, <2>1
<1>8. TypeOK'
    BY <1>1, <1>3, <1>4, <1>5, <1>7 DEF TypeOK
<1>9. StreamsOK'
    BY <1>5, <1>6 DEF StreamsOK
<1> QED BY <1>8, <1>9 DEF IInv

\* A sync's call for one stream preserves the invariant.
LEMMA ApplyOK ==
    ASSUME IInv, NEW s \in Streams, Apply(s)
    PROVE  IInv'
PROOF
<1>1. TypeOK
    BY DEF IInv
<1>2. job \in Jobs
    BY <1>1 DEF TypeOK, Apply, Turn
<1>3. job' \in Jobs
    BY <1>2 DEF Apply, Jobs
<1>4. UNCHANGED <<runtime_interfaces, clock, todo, last_snapshot, budget>>
    BY DEF Apply
<1>5. /\ cache' \in [Streams -> Configs \cup {Absent}]
      /\ connections' \in [Streams -> Connections \cup {Absent}]
      /\ StreamsOK'
    <2>0. writer' = [writer EXCEPT ![s] = "snapshot"]
        BY DEF Apply
    <2>1. CASE s \in Ids(job.next.streams)
        <3>1. job.next \in Snapshots
            BY <1>2 DEF Jobs
        <3>2. MakeMap(job.next.streams)[s] \in Configs
            BY <2>1, <3>1, MapShape
        <3>3. Write(s, MakeMap(job.next.streams)[s])
            BY <2>1 DEF Apply
        <3> QED BY <1>4, <2>0, <3>2, <3>3, WriteOK
    <2>2. CASE s \notin Ids(job.next.streams)
        BY <1>4, <2>0, <2>2, RemoveOK DEF Apply
    <2> QED BY <2>1, <2>2
<1>6. writer' \in [Streams -> Writers]
    BY <1>1 DEF TypeOK, Apply, Writers
<1>7. TypeOK'
    BY <1>1, <1>3, <1>4, <1>5, <1>6 DEF TypeOK
<1> QED BY <1>5, <1>7 DEF IInv

\* The end of a sync changes the daemon's record alone.
LEMMA EndSyncOK ==
    ASSUME IInv, EndSync
    PROVE  IInv'
PROOF
<1>1. TypeOK
    BY DEF IInv
<1>2. job.next \in Snapshots
    BY <1>1 DEF TypeOK, EndSync, Jobs
<1>3. last_snapshot' = job.next /\ job' = Absent /\ UNCHANGED <<node, todo, writer, budget>>
    BY DEF EndSync
<1>4. TypeOK'
    BY <1>1, <1>2, <1>3 DEF TypeOK, node
<1>5. StreamsOK'
    BY <1>3 DEF IInv, StreamsOK, node
<1> QED BY <1>4, <1>5 DEF IInv

\* A controller's request leaves what is active alone.
LEMMA PatchOK ==
    ASSUME IInv, NEW s \in Streams, Patch(s)
    PROVE  IInv'
PROOF
<1>1. /\ TypeOK
      /\ StreamOK(s, cache[s], connections[s], runtime_interfaces, clock, writer[s])
    BY DEF IInv, StreamsOK
<1> DEFINE old == connections[s]
<1>2. PICK staged \in Edits(s), asked \in {"no", "controller"} :
          connections' = [connections EXCEPT ![s].staged = staged,
                                             ![s].scheduled = asked]
    BY DEF Patch
<1> DEFINE new == [old EXCEPT !.staged = staged, !.scheduled = asked]
<1>3. connections \in [Streams -> Connections \cup {Absent}]
    BY <1>1 DEF TypeOK
<1>4. connections' = [connections EXCEPT ![s] = new]
    BY <1>2, <1>3
<1>5. old # Absent /\ old.scheduled = "no"
    BY DEF Patch
<1>6. /\ cache[s] \in Configs
      /\ old \in Connections
      /\ Aligned(cache[s], old)
      /\ s \in Senders =>
             /\ FileOK(s, old, clock)
             /\ SourcesOK(old, runtime_interfaces)
             /\ SettledOK(s, cache[s], old, runtime_interfaces, writer[s])
    BY <1>1, <1>5 DEF StreamOK
<1>7. /\ staged \in Endpoint
      /\ DOMAIN staged.legs = DOMAIN old.staged.legs
      /\ \A i \in DOMAIN staged.legs :
             staged.legs[i].source \in {old.staged.legs[i].source, old.allowed[i]}
    BY <1>6, EditedEndpoint
<1>8. /\ new \in Connections
      /\ new.staged = staged /\ new.active = old.active /\ new.allowed = old.allowed
      /\ new.scheduled = asked /\ new.file = old.file
    <2>1. old \in Connections
        BY <1>6
    <2> HIDE DEF old
    <2> QED BY <1>7, <2>1 DEF Connections
<1> HIDE DEF new
<1>9. Aligned(cache[s], new)
    BY <1>6, <1>7, <1>8 DEF Aligned
<1>10. ASSUME s \in Senders
       PROVE  /\ FileOK(s, new, clock) /\ SourcesOK(new, runtime_interfaces)
              /\ SettledOK(s, cache[s], new, runtime_interfaces, writer[s])
    <2>1. FileOK(s, new, clock)
        BY <1>6, <1>8, <1>10 DEF FileOK
    <2>2. SourcesOK(new, runtime_interfaces)
        BY <1>6, <1>7, <1>8, <1>10 DEF SourcesOK
    <2>3. SettledOK(s, cache[s], new, runtime_interfaces, writer[s])
        BY <1>5, <1>6, <1>8, <1>10 DEF SettledOK
    <2> QED BY <2>1, <2>2, <2>3
<1>11. StreamOK(s, cache[s], new, runtime_interfaces, clock, writer[s])
    <2>1. new # Absent
        BY <1>8, AbsentAssumption
    <2> QED BY <1>6, <1>8, <1>9, <1>10, <2>1 DEF StreamOK
<1>12. UNCHANGED <<runtime_interfaces, clock, cache, todo, daemon, writer>>
    BY DEF Patch
<1>13. StreamsOK'
    <2>1. ASSUME NEW t \in Streams
          PROVE  StreamOK(t, cache[t], connections'[t], runtime_interfaces, clock, writer[t])
        <3>1. StreamOK(t, cache[t], connections[t], runtime_interfaces, clock, writer[t])
            BY DEF IInv, StreamsOK
        <3>2. connections'[t] = IF t = s THEN new ELSE connections[t]
            BY <1>3, <1>4
        <3> QED BY <1>11, <3>1, <3>2
    <2> QED BY <1>12, <2>1 DEF StreamsOK
<1>14. connections' \in [Streams -> Connections \cup {Absent}]
    BY <1>3, <1>4, <1>8
<1>15. budget' \in [syncs : 0..MaxSyncs, patches : 0..MaxPatches, restarts : 0..MaxRestarts]
    BY <1>1, EndpointsAssumption DEF TypeOK, Patch
<1>16. TypeOK'
    BY <1>1, <1>12, <1>14, <1>15 DEF TypeOK, daemon
<1> QED BY <1>13, <1>16 DEF IInv

\* Nor does one that calls an activation off; a sender whose own was called off is
\* no longer expected to send what is cached.
LEMMA CancelOK ==
    ASSUME IInv, NEW s \in Streams, CancelPatch(s)
    PROVE  IInv'
PROOF
<1> DEFINE old == connections[s]
           new == [old EXCEPT !.scheduled = "no"]
           who == IF old.scheduled = "node" THEN "cancel" ELSE writer[s]
<1>1. /\ TypeOK
      /\ StreamOK(s, cache[s], old, runtime_interfaces, clock, writer[s])
    BY DEF IInv, StreamsOK
<1>2. /\ connections \in [Streams -> Connections \cup {Absent}]
      /\ writer \in [Streams -> Writers]
    BY <1>1 DEF TypeOK
<1>3. /\ old # Absent
      /\ connections' = [connections EXCEPT ![s] = new]
      /\ writer' = [writer EXCEPT ![s] = who]
      /\ UNCHANGED <<runtime_interfaces, clock, cache, todo, daemon, budget>>
    <2>1. connections' = [connections EXCEPT ![s].scheduled = "no"]
        BY DEF CancelPatch
    <2>2. connections' = [connections EXCEPT ![s] = new]
        BY <1>2, <2>1
    <2> QED BY <2>2 DEF CancelPatch
<1>4. /\ cache[s] \in Configs
      /\ old \in Connections
      /\ Aligned(cache[s], old)
      /\ s \in Senders =>
             /\ FileOK(s, old, clock)
             /\ SourcesOK(old, runtime_interfaces)
             /\ SettledOK(s, cache[s], old, runtime_interfaces, writer[s])
    BY <1>1, <1>3 DEF StreamOK
<1>5. /\ new \in Connections
      /\ new.staged = old.staged /\ new.active = old.active /\ new.allowed = old.allowed
      /\ new.file = old.file
    <2>1. old \in Connections
        BY <1>4
    <2> HIDE DEF old
    <2> QED BY <2>1 DEF Connections
<1> HIDE DEF new
<1>6. Aligned(cache[s], new)
    BY <1>4, <1>5 DEF Aligned
<1>7. ASSUME s \in Senders
      PROVE  /\ FileOK(s, new, clock) /\ SourcesOK(new, runtime_interfaces)
             /\ SettledOK(s, cache[s], new, runtime_interfaces, who)
    <2>1. FileOK(s, new, clock) /\ SourcesOK(new, runtime_interfaces)
        BY <1>4, <1>5, <1>7 DEF FileOK, SourcesOK
    <2>2. ASSUME old.scheduled = "node"
          PROVE  SettledOK(s, cache[s], new, runtime_interfaces, who)
        <3>1. who = "cancel"
            BY <2>2
        <3> HIDE DEF who
        <3> QED BY <3>1 DEF SettledOK
    <2>3. ASSUME old.scheduled # "node"
          PROVE  SettledOK(s, cache[s], new, runtime_interfaces, who)
        <3>1. who = writer[s]
            BY <2>3
        <3>2. SettledOK(s, cache[s], old, runtime_interfaces, writer[s])
            BY <1>4, <1>7
        <3> HIDE DEF who, old
        <3> QED BY <1>5, <2>3, <3>1, <3>2 DEF SettledOK
    <2> QED BY <2>1, <2>2, <2>3
<1>8. StreamOK(s, cache[s], new, runtime_interfaces, clock, who)
    <2>1. new # Absent
        BY <1>5, AbsentAssumption
    <2> HIDE DEF who
    <2> QED BY <1>4, <1>5, <1>6, <1>7, <2>1 DEF StreamOK
<1>9. who \in Writers
    BY <1>2 DEF Writers
<1> HIDE DEF who
<1>10. StreamsOK'
    <2>1. ASSUME NEW t \in Streams
          PROVE  StreamOK(t, cache[t], connections'[t], runtime_interfaces, clock, writer'[t])
        <3>1. StreamOK(t, cache[t], connections[t], runtime_interfaces, clock, writer[t])
            BY DEF IInv, StreamsOK
        <3>2. /\ connections'[t] = IF t = s THEN new ELSE connections[t]
              /\ writer'[t] = IF t = s THEN who ELSE writer[t]
            BY <1>2, <1>3
        <3> QED BY <1>8, <3>1, <3>2
    <2> QED BY <1>3, <2>1 DEF StreamsOK
<1>11. /\ connections' \in [Streams -> Connections \cup {Absent}]
       /\ writer' \in [Streams -> Writers]
    BY <1>2, <1>3, <1>5, <1>9
<1>12. TypeOK'
    BY <1>1, <1>3, <1>11 DEF TypeOK, daemon
<1> QED BY <1>10, <1>12 DEF IInv

\* An activation preserves the invariant.
LEMMA ActivateOK ==
    ASSUME IInv, NEW s \in Streams, Activate(s)
    PROVE  IInv'
PROOF
<1> DEFINE old == connections[s]
           active == [master |-> old.staged.master, legs |-> Resolve(s, old.staged.legs)]
           new == [old EXCEPT !.active = active, !.scheduled = "no",
                              !.file = FileOf(s, active, clock)]
           config == Observed(s, active)
           who == IF old.scheduled = "controller" \/ writer[s] = "cancel"
                  THEN "controller" ELSE writer[s]
<1>1. TypeOK
    BY DEF IInv
<1>2. /\ old # Absent
      /\ connections' = [connections EXCEPT ![s] = new]
      /\ cache' = [cache EXCEPT ![s] = config]
      /\ writer' = [writer EXCEPT ![s] = who]
      /\ UNCHANGED <<runtime_interfaces, clock, todo, daemon, budget>>
    BY DEF Activate
<1>3. /\ runtime_interfaces \in Devices /\ clock \in Clocks
      /\ connections \in [Streams -> Connections \cup {Absent}]
      /\ cache \in [Streams -> Configs \cup {Absent}]
      /\ writer \in [Streams -> Writers]
    BY <1>1 DEF TypeOK
<1>4. old \in Connections /\ StreamOK(s, cache[s], old, runtime_interfaces, clock, writer[s])
    BY <1>2, <1>3 DEF IInv, StreamsOK
<1>5. /\ new \in Connections
      /\ config \in Configs
      /\ StreamOK(s, config, new, runtime_interfaces, clock, who)
    BY <1>3, <1>4, ActivatedConnection
<1>9. who \in Writers
    BY <1>3 DEF Writers
<1> HIDE DEF new, config, who
<1>6. /\ connections' \in [Streams -> Connections \cup {Absent}]
      /\ cache' \in [Streams -> Configs \cup {Absent}]
      /\ writer' \in [Streams -> Writers]
    BY <1>2, <1>3, <1>5, <1>9
<1>7. StreamsOK'
    <2>1. ASSUME NEW t \in Streams
          PROVE  StreamOK(t, cache'[t], connections'[t], runtime_interfaces, clock,
                          writer'[t])
        <3>1. StreamOK(t, cache[t], connections[t], runtime_interfaces, clock, writer[t])
            BY DEF IInv, StreamsOK
        <3>2. /\ connections'[t] = IF t = s THEN new ELSE connections[t]
              /\ cache'[t] = IF t = s THEN config ELSE cache[t]
              /\ writer'[t] = IF t = s THEN who ELSE writer[t]
            BY <1>2, <1>3
        <3> QED BY <1>5, <3>1, <3>2
    <2> QED BY <1>2, <2>1 DEF StreamsOK
<1>8. TypeOK'
    BY <1>1, <1>2, <1>6 DEF TypeOK, daemon
<1> QED BY <1>7, <1>8 DEF IInv

\* A restart leaves no stream, so nothing that could be unsound.
LEMMA RestartOK ==
    ASSUME IInv, Restart
    PROVE  IInv'
PROOF
<1>1. TypeOK
    BY DEF IInv
<1>2. /\ runtime_interfaces' \in Devices
      /\ clock' \in Clocks
      /\ cache' \in [Streams -> Configs \cup {Absent}]
      /\ connections' \in [Streams -> Connections \cup {Absent}]
      /\ todo' \in [Streams -> Configs \cup {Absent}]
      /\ writer' \in [Streams -> Writers]
      /\ job' \in Jobs \cup {Absent}
    <2>1. clock' \in Clocks
        BY <1>1 DEF TypeOK, Restart, Clocks
    <2> QED BY <1>1, <2>1, EndpointsAssumption DEF TypeOK, Restart, None, Writers
<1>3. last_snapshot' \in Snapshots
    BY DEF Restart, EmptySnapshot, Snapshots, Devices
<1>4. budget' \in [syncs : 0..MaxSyncs, patches : 0..MaxPatches, restarts : 0..MaxRestarts]
    BY <1>1, EndpointsAssumption DEF TypeOK, Restart
<1>5. TypeOK'
    BY <1>2, <1>3, <1>4 DEF TypeOK
<1>6. StreamsOK'
    BY DEF Restart, None, StreamsOK, StreamOK
<1> QED BY <1>5, <1>6 DEF IInv

\* A reinsertion is an add_* with what was cached.
LEMMA ReinsertOK ==
    ASSUME IInv, NEW s \in Streams, Reinsert(s)
    PROVE  IInv'
PROOF
<1>1. TypeOK
    BY DEF IInv
<1>2. todo[s] \in Configs
    BY <1>1 DEF TypeOK, Reinsert
<1>3. /\ UNCHANGED <<runtime_interfaces, clock, daemon, budget>>
      /\ todo' = [todo EXCEPT ![s] = Absent]
      /\ writer' = [writer EXCEPT ![s] = "reinsertion"]
      /\ Write(s, todo[s])
    BY DEF Reinsert
<1>4. /\ cache' \in [Streams -> Configs \cup {Absent}]
      /\ connections' \in [Streams -> Connections \cup {Absent}]
      /\ StreamsOK'
    BY <1>2, <1>3, WriteOK
<1>5. TypeOK'
    BY <1>1, <1>3, <1>4 DEF TypeOK, daemon, Writers
<1> QED BY <1>4, <1>5 DEF IInv

\* No step breaks the invariant.
LEMMA StepInv ==
    ASSUME IInv, [Next]_vars
    PROVE  IInv'
PROOF
<1>1. CASE Next
    BY <1>1, BeginOK, SetPtpClockOK, SetRuntimeInterfacesOK, ApplyOK, EndSyncOK,
       PatchOK, CancelOK, ActivateOK, RestartOK, ReinsertOK DEF Next, Sync
<1>2. CASE UNCHANGED vars
    BY <1>2 DEF vars, node, daemon, IInv, TypeOK, StreamsOK
<1> QED BY <1>1, <1>2

\* The inductive invariant holds in every state the Node and the daemon reach.
THEOREM Invariance == Spec => []IInv
PROOF
<1>1. Init => IInv
    BY InitInv
<1>2. IInv /\ [Next]_vars => IInv'
    BY StepInv
<1> QED BY <1>1, <1>2, PTL DEF Spec

-----------------------------------------------------------------------------
(* What the invariant says.                                                *)

\* Every variable has its type in every state: no leg of an endpoint is ever
\* given something that is not an address, or "auto", or empty.
THEOREM TypeCorrect == Spec => []TypeOK
PROOF
<1>1. IInv => TypeOK
    BY DEF IInv
<1> QED BY <1>1, Invariance, PTL

\* Whatever a snapshot, a controller or a restart makes of a stream, its cached
\* configuration and both its endpoints have the same legs.
THEOREM LegsAgreeHolds == Spec => []LegsAgree
PROOF
<1>1. ASSUME IInv PROVE LegsAgree
    <2>1. ASSUME NEW s \in Streams
          PROVE  IF connections[s] = Absent THEN cache[s] = Absent
                 ELSE /\ cache[s] # Absent
                      /\ DOMAIN connections[s].active.legs = DOMAIN cache[s]
                      /\ DOMAIN connections[s].staged.legs = DOMAIN cache[s]
        <3>1. StreamOK(s, cache[s], connections[s], runtime_interfaces, clock, writer[s])
            BY <1>1 DEF IInv, StreamsOK
        <3> QED BY <3>1, AbsentAssumption DEF StreamOK, Aligned
    <2> QED BY <2>1 DEF LegsAgree
<1> QED BY <1>1, Invariance, PTL

\* Whatever changes a sender or the clock makes its SDP file anew.
THEOREM TransportFilesHold == Spec => []TransportFilesAreCurrent
PROOF
<1>1. ASSUME IInv PROVE TransportFilesAreCurrent
    <2>1. ASSUME NEW s \in Senders, connections[s] # Absent, connections[s].file # NoFile
          PROVE  connections[s].file = FileOf(s, connections[s].active, clock)
        <3>1. StreamOK(s, cache[s], connections[s], runtime_interfaces, clock, writer[s])
            BY <1>1 DEF IInv, StreamsOK, Senders
        <3> QED BY <2>1, <3>1 DEF StreamOK, FileOK
    <2> QED BY <2>1 DEF TransportFilesAreCurrent
<1> QED BY <1>1, Invariance, PTL

\* No change of interfaces, snapshot or staged endpoint leaves an activated sender
\* on an address no interface has, as long as one has an address.
THEOREM SendersUseAnInterfaceHolds == Spec => []SendersUseAnInterface
PROOF
<1>1. ASSUME IInv PROVE SendersUseAnInterface
    <2>1. ASSUME AddressesOf(runtime_interfaces) # {}, NEW s \in Senders, Settled(s),
                 NEW i \in DOMAIN connections[s].active.legs
          PROVE  connections[s].active.legs[i].source \in AddressesOf(runtime_interfaces)
        <3>1. StreamOK(s, cache[s], connections[s], runtime_interfaces, clock, writer[s])
            BY <1>1 DEF IInv, StreamsOK, Senders
        <3>2. SettledOK(s, cache[s], connections[s], runtime_interfaces, writer[s])
            BY <2>1, <3>1 DEF Settled, StreamOK
        <3> QED BY <2>1, <3>2 DEF SettledOK, SourceOK, Settled
    <2> QED BY <2>1 DEF SendersUseAnInterface
<1> QED BY <1>1, Invariance, PTL

\* What a sender sends once its activation is done is what is cached of it.
THEOREM SendersSettleHolds == Spec => []SendersSettle
PROOF
<1>1. ASSUME IInv PROVE SendersSettle
    <2>1. ASSUME NEW s \in Senders, Settled(s),
                 NEW i \in DOMAIN connections[s].active.legs
          PROVE  LET leg == connections[s].active.legs[i]
                 IN  /\ cache[s][i].ip = leg.ip
                     /\ cache[s][i].source = leg.source
                     /\ cache[s][i].enable <=> IF i = 1 THEN Sends(s, i) ELSE leg.enabled
        <3>1. StreamOK(s, cache[s], connections[s], runtime_interfaces, clock, writer[s])
            BY <1>1 DEF IInv, StreamsOK, Senders
        <3>2. cache[s] = Observed(s, connections[s].active)
            BY <2>1, <3>1 DEF Settled, StreamOK, SettledOK
        <3>3. cache[s][i] = [enable |-> ObservedEnable(connections[s].active, i),
                             ip |-> connections[s].active.legs[i].ip,
                             source |-> connections[s].active.legs[i].source]
            BY <2>1, <3>2 DEF Observed
        <3>4. /\ cache[s][i].ip = connections[s].active.legs[i].ip
              /\ cache[s][i].source = connections[s].active.legs[i].source
              /\ cache[s][i].enable = ObservedEnable(connections[s].active, i)
            BY <3>3
        <3>5. ObservedEnable(connections[s].active, i) <=>
                  IF i = 1 THEN Sends(s, i) ELSE connections[s].active.legs[i].enabled
            BY Zenon DEF ObservedEnable, Sends
        <3> QED BY <3>4, <3>5, Zenon
    <2> QED BY <2>1, Zenon DEF SendersSettle
<1> QED BY <1>1, Invariance, PTL

\* A stream's connection survives a step: it is as active as before, or it was
\* activated, or it has another number of legs.
Survives(s) ==
    connections[s] # Absent /\ connections'[s] # Absent =>
        \/ connections'[s].active = connections[s].active
        \/ connections[s].scheduled # "no" /\ connections'[s].scheduled = "no"
        \/ DOMAIN connections'[s].active.legs # DOMAIN connections[s].active.legs

\* add_* and update_* interrupt no stream.
LEMMA WriteSurvives ==
    ASSUME IInv, NEW s \in Streams, NEW config \in Configs, Write(s, config),
           NEW t \in Streams
    PROVE  Survives(t)
PROOF
<1>1. /\ connections \in [Streams -> Connections \cup {Absent}]
      /\ runtime_interfaces \in Devices /\ clock \in Clocks
    BY DEF IInv, TypeOK
<1>2. CASE t # s
    BY <1>1, <1>2 DEF Write, Survives
<1>3. CASE t = s /\ connections[s] # Absent
    <2> DEFINE new == Replace(s, connections[s], config, runtime_interfaces)
    <2>1. cache[s] # Absent /\ connections[s] \in Connections
        BY <1>3, CachedIsConnected
    <2>2. connections'[s] = new
        BY <1>1, <2>1 DEF Write
    <2>3. \/ new.active = connections[s].active
          \/ /\ DOMAIN new.active.legs = DOMAIN config
             /\ DOMAIN connections[s].active.legs # DOMAIN config
        BY <1>1, <2>1, ReplacedConnection
    <2> HIDE DEF new
    <2> QED BY <1>3, <2>2, <2>3 DEF Survives
<1>4. CASE t = s /\ connections[s] = Absent
    BY <1>4 DEF Survives
<1> QED BY <1>2, <1>3, <1>4

\* Neither a sync, a change of the clock or of the interfaces, nor a controller's
\* PATCH alone ever changes what is active.
THEOREM SyncsKeepConnectionsHolds == Spec => SyncsKeepConnections
PROOF
<1>1. ASSUME IInv, [Next]_vars, NEW s \in Streams
      PROVE  Survives(s)
    <2>1. /\ connections \in [Streams -> Connections \cup {Absent}]
          /\ TypeOK
        BY <1>1 DEF IInv, TypeOK
    <2>2. ASSUME UNCHANGED connections PROVE Survives(s)
        BY <2>2 DEF Survives
    <2>3. CASE \/ \E next \in Offers : BeginSync(next)
               \/ BeginDrain \/ EndSync \/ UNCHANGED vars
        BY <2>2, <2>3 DEF BeginSync, BeginDrain, EndSync, vars, node
    <2>4. CASE SetPtpClock
        <3> DEFINE old == connections[s]
                   file == FileOf(s, old.active, clock')
        <3>1. connections'[s] = IF old = Absent THEN Absent ELSE [old EXCEPT !.file = file]
            BY <2>4 DEF SetPtpClock
        <3>2. old # Absent => [old EXCEPT !.file = file].active = old.active
            <4>1. old # Absent => old \in Connections
                BY <2>1
            <4> HIDE DEF old, file
            <4> QED BY <4>1 DEF Connections
        <3> HIDE DEF file
        <3> QED BY <3>1, <3>2 DEF Survives
    <2>5. CASE SetRuntimeInterfaces
        <3>1. connections'[s] = IF cache[s] = Absent THEN connections[s]
                                ELSE Replace(s, connections[s], cache[s], job.next.devices)
            BY <2>5 DEF SetRuntimeInterfaces
        <3>2. CASE cache[s] = Absent
            BY <3>1, <3>2 DEF Survives
        <3>3. CASE cache[s] # Absent
            <4> DEFINE new == Replace(s, connections[s], cache[s], job.next.devices)
            <4>1. /\ cache[s] \in Configs /\ connections[s] \in Connections
                  /\ clock \in Clocks /\ job.next.devices \in Devices
                BY <1>1, <2>1, <2>5, <3>3, CachedIsConnected
                DEF TypeOK, SetRuntimeInterfaces, Jobs, Snapshots
            <4>2. \/ new.active = connections[s].active
                  \/ /\ DOMAIN new.active.legs = DOMAIN cache[s]
                     /\ DOMAIN connections[s].active.legs # DOMAIN cache[s]
                BY <4>1, ReplacedConnection
            <4>3. connections'[s] = new
                BY <3>1, <3>3
            <4> HIDE DEF new
            <4> QED BY <4>2, <4>3 DEF Survives
        <3> QED BY <3>2, <3>3
    <2>6. ASSUME NEW t \in Streams, Apply(t) PROVE Survives(s)
        <3>1. job \in Jobs
            BY <2>1, <2>6 DEF TypeOK, Apply, Turn
        <3>2. CASE t \in Ids(job.next.streams)
            <4>1. MakeMap(job.next.streams)[t] \in Configs
                BY <3>1, <3>2, MapShape DEF Jobs
            <4> QED BY <1>1, <2>6, <3>2, <4>1, WriteSurvives DEF Apply
        <3>3. CASE t \notin Ids(job.next.streams)
            BY <2>1, <2>6, <3>3 DEF Apply, Remove, Survives
        <3> QED BY <3>2, <3>3
    <2>7. ASSUME NEW t \in Streams, Patch(t) PROVE Survives(s)
        <3>1. PICK staged \in Edits(t), asked \in {"no", "controller"} :
                  connections' = [connections EXCEPT ![t].staged = staged,
                                                     ![t].scheduled = asked]
            BY <2>7 DEF Patch
        <3>2. connections[t] \in Connections
            BY <2>1, <2>7 DEF Patch
        <3>3. CASE s # t
            <4>1. connections'[s] = connections[s]
                BY <2>1, <3>1, <3>3
            <4> QED BY <4>1 DEF Survives
        <3>4. CASE s = t
            <4> DEFINE old == connections[s]
            <4>1. connections'[s] = [old EXCEPT !.staged = staged, !.scheduled = asked]
                BY <2>1, <3>1, <3>4
            <4>2. [old EXCEPT !.staged = staged, !.scheduled = asked].active = old.active
                <5>1. old \in Connections
                    BY <3>2, <3>4
                <5> HIDE DEF old
                <5> QED BY <5>1 DEF Connections
            <4> QED BY <4>1, <4>2 DEF Survives
        <3> QED BY <3>3, <3>4
    <2>8. ASSUME NEW t \in Streams, Activate(t) PROVE Survives(s)
        <3> DEFINE old == connections[t]
                   active == [master |-> old.staged.master, legs |-> Resolve(t, old.staged.legs)]
                   new == [old EXCEPT !.active = active, !.scheduled = "no",
                                      !.file = FileOf(t, active, clock)]
        <3>1. /\ old # Absent /\ old.scheduled # "no"
              /\ connections' = [connections EXCEPT ![t] = new]
            BY <2>8 DEF Activate
        <3>2. new.scheduled = "no"
            <4>1. old \in Connections
                BY <2>1, <3>1
            <4> DEFINE file == FileOf(t, active, clock)
            <4> HIDE DEF old, active, file
            <4> QED BY <4>1 DEF Connections
        <3> HIDE DEF new
        <3> QED BY <2>1, <3>1, <3>2 DEF Survives
    <2>9. CASE Restart
        BY <2>9 DEF Restart, None, Survives
    <2>11. ASSUME NEW t \in Streams, CancelPatch(t) PROVE Survives(s)
        <3>1. CASE s # t
            <4>1. connections'[s] = connections[s]
                BY <2>1, <2>11, <3>1 DEF CancelPatch
            <4> QED BY <4>1 DEF Survives
        <3>2. CASE s = t
            <4> DEFINE old == connections[s]
            <4>1. old \in Connections /\ connections'[s] = [old EXCEPT !.scheduled = "no"]
                BY <2>1, <2>11, <3>2 DEF CancelPatch
            <4>2. [old EXCEPT !.scheduled = "no"].active = old.active
                <5>1. old \in Connections
                    BY <4>1
                <5> HIDE DEF old
                <5> QED BY <5>1 DEF Connections
            <4> QED BY <4>1, <4>2 DEF Survives
        <3> QED BY <3>1, <3>2
    <2>10. ASSUME NEW t \in Streams, Reinsert(t) PROVE Survives(s)
        <3>1. todo[t] \in Configs /\ Write(t, todo[t])
            BY <2>1, <2>10 DEF TypeOK, Reinsert
        <3> QED BY <1>1, <3>1, WriteSurvives
    <2> QED
        BY <1>1, <2>3, <2>4, <2>5, <2>6, <2>7, <2>8, <2>9, <2>10, <2>11
        DEF Next, Sync
<1>2. IInv /\ [Next]_vars =>
          [\A s \in Streams :
              connections[s] # Absent /\ connections'[s] # Absent =>
                  \/ connections'[s].active = connections[s].active
                  \/ connections[s].scheduled # "no" /\ connections'[s].scheduled = "no"
                  \/ DOMAIN connections'[s].active.legs # DOMAIN connections[s].active.legs]_vars
    BY <1>1 DEF Survives
<1> QED BY <1>2, Invariance, PTL DEF Spec, SyncsKeepConnections

-----------------------------------------------------------------------------
(* Snapshots.  A stream that neither a controller nor a reinsertion decided *)
(* about carries what the last snapshot, or the one being applied if it had *)
(* its turn, says of it: in its cached configuration, in the endpoint that  *)
(* is to be activated, and in the one that is active.                       *)

SameTarget(wanted, config) ==
    /\ DOMAIN config = DOMAIN wanted
    /\ \A i \in DOMAIN wanted :
           /\ config[i].ip = wanted[i].ip
           /\ LegEnabled(config, i) <=> LegEnabled(wanted, i)

Waits(wanted, connection) ==
    connection.scheduled = "node" =>
        /\ connection.staged.master <=> LegEnabled(wanted, 1)
        /\ \A i \in DOMAIN wanted :
               /\ connection.staged.legs[i].ip = Automatic
               /\ connection.staged.legs[i].enabled <=> LegEnabled(wanted, i)

Runs(wanted, connection) ==
    connection.scheduled # "node" =>
        \A i \in DOMAIN wanted :
            /\ connection.active.legs[i].ip = wanted[i].ip
            /\ connection.active.master /\ connection.active.legs[i].enabled
                   <=> LegEnabled(wanted, i)

Carries(wanted, config, connection) ==
    /\ SameTarget(wanted, config)
    /\ Waits(wanted, connection)
    /\ Runs(wanted, connection)

Matches(s, streams) ==
    /\ s \in Ids(streams) <=> cache[s] # Absent
    /\ s \in Senders /\ s \in Ids(streams) =>
           Carries(MakeMap(streams)[s], cache[s], connections[s])

\* The streams a snapshot decided about, and the snapshot that did.
Current == IF job = Absent THEN last_snapshot.streams ELSE job.next.streams

Decided(s) == writer[s] = "snapshot" /\ (job = Absent \/ s \notin job.left)

SnapshotsOK == \A s \in Streams : Decided(s) => Matches(s, Current)

\* An endpoint made from a configuration carries what that configuration carries.
LEMMA MadeWaits ==
    ASSUME NEW s \in Senders, NEW wanted \in Configs, NEW config \in Configs,
           SameTarget(wanted, config), NEW devices \in Devices, NEW connection,
           connection.staged = MakeEndpoint(s, config, devices),
           connection.scheduled = "node"
    PROVE  Carries(wanted, config, connection)
PROOF
<1> DEFINE made == MakeEndpoint(s, config, devices)
<1>1. s \notin Receivers /\ s \in Streams
    BY DEF Senders
<1>2. made.master = MasterEnabled(s, config) /\ DOMAIN made.legs = DOMAIN config
    BY MadeEndpoint, <1>1 DEF MakeEndpoint
<1>3. ASSUME NEW i \in DOMAIN config
      PROVE  made.legs[i].ip = Automatic /\ made.legs[i].enabled = LegEnabled(config, i)
    <2>1. made.legs[i] = MakeLeg(s, config, devices, i)
        BY DEF MakeEndpoint
    <2>2. MakeLeg(s, config, devices, i)
              = [enabled |-> LegEnabled(config, i), ip |-> Automatic, source |-> Automatic]
        BY <1>1 DEF MakeLeg
    <2> QED BY <2>1, <2>2
<1>4. MasterEnabled(s, config) <=> LegEnabled(config, 1)
    BY <1>1, Zenon DEF MasterEnabled, LegEnabled
<1>5. 1 \in DOMAIN wanted
    BY ConfigShape
<1> HIDE DEF made
<1>6. Waits(wanted, connection)
    <2>1. connection.staged = made
        BY DEF made
    <2>2. DOMAIN config = DOMAIN wanted
          /\ \A i \in DOMAIN wanted : LegEnabled(config, i) <=> LegEnabled(wanted, i)
        BY DEF SameTarget
    <2>3. made.master <=> LegEnabled(wanted, 1)
        BY <1>2, <1>4, <1>5, <2>2, Zenon
    <2>4. \A i \in DOMAIN wanted :
              made.legs[i].ip = Automatic /\ (made.legs[i].enabled <=> LegEnabled(wanted, i))
        BY <1>3, <2>2, Zenon
    <2> QED BY <2>1, <2>3, <2>4, Zenon DEF Waits
<1>7. Runs(wanted, connection)
    BY DEF Runs
<1> QED BY <1>6, <1>7 DEF Carries

\* An activation the Node asked for itself makes a sender send what is wanted.
LEMMA ActivatedRuns ==
    ASSUME NEW s \in Senders, NEW wanted \in Configs, IInv, connections[s] # Absent,
           Carries(wanted, cache[s], connections[s]),
           connections[s].scheduled = "node",
           NEW active, NEW new,
           active = [master |-> connections[s].staged.master,
                     legs |-> Resolve(s, connections[s].staged.legs)],
           new.active = active, new.scheduled = "no"
    PROVE  Carries(wanted, Observed(s, active), new)
PROOF
<1> DEFINE old == connections[s]
<1>1. /\ s \in Streams /\ s \notin Receivers
      /\ cache[s] \in Configs /\ old \in Connections
    BY CachedIsConnected DEF Senders
<1>2. StreamOK(s, cache[s], old, runtime_interfaces, clock, writer[s])
    BY <1>1 DEF IInv, StreamsOK
<1>3. /\ DOMAIN old.staged.legs = DOMAIN cache[s]
      /\ DOMAIN cache[s] = DOMAIN wanted
    BY <1>2 DEF StreamOK, Aligned, Carries, SameTarget
<1>4. Waits(wanted, old) /\ SameTarget(wanted, cache[s])
    BY DEF Carries
<1>5. old.staged.legs \in [DOMAIN wanted -> Legs] /\ old.staged.master \in BOOLEAN
    BY <1>1, <1>3, ConnectionShape, EndpointShape
<1>6. ASSUME NEW i \in DOMAIN wanted
      PROVE  /\ active.legs[i].ip = wanted[i].ip
             /\ active.legs[i].enabled = old.staged.legs[i].enabled
    <2> DEFINE leg == old.staged.legs[i]
               ip == IF leg.ip = Automatic THEN DestinationOf(s, cache[s], i) ELSE leg.ip
               source == IF leg.source = Automatic
                         THEN Selection(runtime_interfaces, cache[s])[i] ELSE leg.source
    <2>1. active.legs[i] = [leg EXCEPT !.ip = ip, !.source = source]
        <3>1. Resolve(s, old.staged.legs) =
                  [k \in DOMAIN old.staged.legs |->
                      [old.staged.legs[k] EXCEPT
                          !.ip = IF old.staged.legs[k].ip = Automatic
                                 THEN DestinationOf(s, cache[s], k)
                                 ELSE old.staged.legs[k].ip,
                          !.source = IF old.staged.legs[k].source = Automatic
                                     THEN Selection(runtime_interfaces, cache[s])[k]
                                     ELSE old.staged.legs[k].source]]
            BY DEF Resolve
        <3>2. i \in DOMAIN old.staged.legs
            BY <1>3
        <3>3. active.legs = Resolve(s, old.staged.legs)
            OBVIOUS
        <3> QED BY <3>1, <3>2, <3>3
    <2>2. leg \in Legs /\ leg.ip = Automatic
        BY <1>4, <1>5 DEF Waits
    <2>3. ip = wanted[i].ip
        BY <1>1, <1>4, <2>2 DEF DestinationOf, SameTarget
    <2> HIDE DEF ip, source, leg
    <2>4. [leg EXCEPT !.ip = ip, !.source = source].ip = ip
          /\ [leg EXCEPT !.ip = ip, !.source = source].enabled = leg.enabled
        BY <2>2 DEF Legs
    <2> QED BY <2>1, <2>3, <2>4 DEF leg
<1>7. ASSUME NEW i \in DOMAIN wanted
      PROVE  active.legs[i].enabled <=> LegEnabled(wanted, i)
    <2>1. old.staged.legs[i].enabled <=> LegEnabled(wanted, i)
        BY <1>4, Zenon DEF Waits
    <2> QED BY <1>6, <2>1, Zenon
<1>8. active.master <=> LegEnabled(wanted, 1)
    <2>1. active.master = old.staged.master
        OBVIOUS
    <2>2. old.staged.master <=> LegEnabled(wanted, 1)
        BY <1>4, Zenon DEF Waits
    <2> QED BY <2>1, <2>2, Zenon
<1>9. 1 \in DOMAIN wanted
    BY ConfigShape
<1>10. DOMAIN active.legs = DOMAIN wanted
    <2>1. active.legs = Resolve(s, old.staged.legs)
        OBVIOUS
    <2>2. DOMAIN Resolve(s, old.staged.legs) = DOMAIN old.staged.legs
        BY DEF Resolve
    <2> QED BY <1>3, <2>1, <2>2
<1>11. ASSUME NEW i \in DOMAIN wanted
       PROVE  LegEnabled(wanted, i) => LegEnabled(wanted, 1)
    BY Zenon DEF LegEnabled
<1>12. SameTarget(wanted, Observed(s, active))
    <2>1. DOMAIN Observed(s, active) = DOMAIN wanted
        BY <1>10 DEF Observed
    <2>2. ASSUME NEW i \in DOMAIN wanted
          PROVE  /\ Observed(s, active)[i].ip = wanted[i].ip
                 /\ Observed(s, active)[i].enable = ObservedEnable(active, i)
        <3>1. Observed(s, active)[i] = [enable |-> ObservedEnable(active, i),
                                        ip |-> active.legs[i].ip,
                                        source |-> active.legs[i].source]
            BY <1>10 DEF Observed
        <3> QED BY <1>6, <3>1
    <2>3. ASSUME NEW i \in DOMAIN wanted
          PROVE  LegEnabled(Observed(s, active), i) <=> LegEnabled(wanted, i)
        <3>1. ObservedEnable(active, i) <=> LegEnabled(wanted, i)
            BY <1>7, <1>8, Zenon DEF ObservedEnable
        <3>2. ObservedEnable(active, 1) <=> LegEnabled(wanted, 1)
            BY <1>7, <1>8, <1>9, Zenon DEF ObservedEnable
        <3>3. LegEnabled(Observed(s, active), i)
                  <=> ObservedEnable(active, 1) /\ ObservedEnable(active, i)
            BY <1>9, <2>2, Zenon DEF LegEnabled
        <3> QED BY <1>11, <3>1, <3>2, <3>3, Zenon
    <2> QED BY <2>1, <2>2, <2>3 DEF SameTarget
<1>13. Runs(wanted, new)
    <2>1. ASSUME NEW i \in DOMAIN wanted
          PROVE  active.master /\ active.legs[i].enabled <=> LegEnabled(wanted, i)
        BY <1>7, <1>8, <1>11, Zenon
    <2> QED BY <1>6, <2>1, Zenon DEF Runs
<1>14. Waits(wanted, new)
    BY DEF Waits
<1> QED BY <1>12, <1>13, <1>14 DEF Carries

\* The snapshot that decides gives configurations.
LEMMA CurrentType ==
    ASSUME TypeOK
    PROVE  \A s \in Ids(Current) : MakeMap(Current)[s] \in Configs
PROOF
<1>1. last_snapshot \in Snapshots
    BY DEF TypeOK
<1>2. job # Absent => job.next \in Snapshots
    BY DEF TypeOK, Jobs
<1> QED BY <1>1, <1>2, MapShape DEF Current

\* Two snapshots may say the same of a stream.
LEMMA MatchesSame ==
    ASSUME NEW s \in Streams, NEW was, NEW now, Matches(s, was),
           s \in Ids(was) <=> s \in Ids(now),
           s \in Ids(now) => MakeMap(now)[s] = MakeMap(was)[s]
    PROVE  Matches(s, now)
BY DEF Matches

\* A sync or a drain that begins has already done what it is not to do.
LEMMA BeginMatches ==
    ASSUME IInv, SnapshotsOK, (\E next \in Offers : BeginSync(next)) \/ BeginDrain
    PROVE  SnapshotsOK'
PROOF
<1>1. job = Absent /\ UNCHANGED <<node, writer>>
    BY DEF BeginSync, BeginDrain
<1>2. job' # Absent
    BY BeginOK, AbsentAssumption
<1>3. DOMAIN MakeMap(last_snapshot.streams) = Ids(last_snapshot.streams)
    BY DEF MakeMap
<1>4. ASSUME NEW s \in Streams, Decided(s)'
      PROVE  Matches(s, Current)'
    <2>1. writer[s] = "snapshot" /\ s \notin job'.left /\ Current' = job'.next.streams
        BY <1>1, <1>2, <1>4 DEF Decided, Current
    <2>2. Matches(s, last_snapshot.streams)
        BY <1>1, <2>1 DEF SnapshotsOK, Decided, Current
    <2>3. ASSUME NEW next \in Offers, BeginSync(next)
          PROVE  Matches(s, job'.next.streams)
        <3>1. /\ job'.next = next
              /\ s \notin Changed(last_snapshot, next)
              /\ s \notin Added(last_snapshot, next)
            BY <2>1, <2>3 DEF BeginSync
        <3>2. DOMAIN MakeMap(next.streams) = Ids(next.streams)
            BY DEF MakeMap
        <3>3. /\ s \in Ids(last_snapshot.streams) =>
                     /\ s \in Ids(next.streams)
                     /\ MakeMap(next.streams)[s] = MakeMap(last_snapshot.streams)[s]
              /\ s \in Ids(next.streams) => s \in Ids(last_snapshot.streams)
            BY <1>3, <3>1, <3>2 DEF Changed, Equivalent, Added
        <3> QED BY <2>2, <3>1, <3>3, MatchesSame
    <2>4. ASSUME BeginDrain
          PROVE  Matches(s, job'.next.streams)
        <3>1. job'.next = EmptySnapshot /\ s \notin Ids(last_snapshot.streams)
            BY <2>1, <2>4 DEF BeginDrain
        <3>2. s \notin Ids(EmptySnapshot.streams)
            BY DEF Ids, EmptySnapshot
        <3>3. Matches(s, EmptySnapshot.streams)
            BY <2>2, <3>1, <3>2, MatchesSame
        <3> QED BY <3>1, <3>3
    <2>5. Matches(s, job'.next.streams)
        BY <2>3, <2>4
    <2>6. cache'[s] = cache[s] /\ connections'[s] = connections[s]
        BY <1>1 DEF node
    <2> QED BY <2>1, <2>5, <2>6 DEF Matches
<1> QED BY <1>4 DEF SnapshotsOK

\* A stream made again from what is cached still carries what it carried.
LEMMA InterfacesMatch ==
    ASSUME IInv, SnapshotsOK, SetRuntimeInterfaces
    PROVE  SnapshotsOK'
PROOF
<1>1. /\ job \in Jobs /\ job # Absent
      /\ job' = [job EXCEPT !.devices = FALSE]
      /\ UNCHANGED <<cache, writer>>
    BY DEF SetRuntimeInterfaces, IInv, TypeOK
<1>2. job' \in Jobs /\ job'.next = job.next /\ job'.left = job.left
    BY <1>1 DEF Jobs
<1>3. Current' = Current /\ \A s \in Streams : Decided(s)' <=> Decided(s)
    <2>1. job' # Absent
        BY <1>2, AbsentAssumption
    <2>2. Current' = Current
        BY <1>1, <1>2, <2>1 DEF Current
    <2>3. ASSUME NEW s \in Streams
          PROVE  Decided(s)' <=> Decided(s)
        BY <1>1, <1>2, <2>1 DEF Decided
    <2> QED BY <2>2, <2>3
<1>4. ASSUME NEW s \in Streams, Decided(s)
      PROVE  Matches(s, Current)'
    <2>1. Matches(s, Current)
        BY <1>4 DEF SnapshotsOK
    <2>2. ASSUME s \in Senders, s \in Ids(Current)
          PROVE  Carries(MakeMap(Current)[s], cache[s], connections'[s])
        <3> DEFINE new == Replace(s, connections[s], cache[s], job.next.devices)
        <3>1. cache[s] # Absent /\ SameTarget(MakeMap(Current)[s], cache[s])
            BY <2>1, <2>2 DEF Matches, Carries
        <3>2. connections'[s] = new
            BY <3>1 DEF SetRuntimeInterfaces
        <3>3. /\ cache[s] \in Configs /\ connections[s] \in Connections
              /\ clock \in Clocks /\ job.next.devices \in Devices
            BY <1>1, <3>1, CachedIsConnected DEF IInv, TypeOK, Jobs, Snapshots
        <3>4. /\ new.staged = MakeEndpoint(s, cache[s], job.next.devices)
              /\ new.scheduled = "node"
            <4>1. /\ s \in Streams /\ cache[s] \in Configs /\ connections[s] \in Connections
                  /\ clock \in Clocks /\ job.next.devices \in Devices
                BY <3>3
            <4>2. ASSUME NEW config \in Configs, NEW devices \in Devices,
                         NEW old \in Connections
                  PROVE  /\ StreamOK(s, config, Replace(s, old, config, devices),
                                     devices, clock, "snapshot")
                         /\ Replace(s, old, config, devices).staged
                                = MakeEndpoint(s, config, devices)
                         /\ s \in Senders =>
                                Replace(s, old, config, devices).scheduled = "node"
                BY <4>1, ReplacedConnection
            <4> QED BY <2>2, <4>1, <4>2
        <3>5. MakeMap(Current)[s] \in Configs
            BY <2>2, CurrentType DEF IInv
        <3> HIDE DEF new
        <3> QED BY <2>2, <3>1, <3>2, <3>3, <3>4, <3>5, MadeWaits
    <2> QED BY <1>1, <1>3, <2>1, <2>2 DEF Matches
<1> QED BY <1>3, <1>4 DEF SnapshotsOK

\* A new clock changes files alone.
LEMMA PtpClockMatches ==
    ASSUME IInv, SnapshotsOK, SetPtpClock
    PROVE  SnapshotsOK'
PROOF
<1>1. /\ job \in Jobs /\ job # Absent
      /\ job' = [job EXCEPT !.clock = FALSE]
      /\ UNCHANGED <<cache, writer>>
    BY DEF SetPtpClock, IInv, TypeOK
<1>2. job' \in Jobs /\ job'.next = job.next /\ job'.left = job.left
    BY <1>1 DEF Jobs
<1>3. Current' = Current /\ \A s \in Streams : Decided(s)' <=> Decided(s)
    <2>1. job' # Absent
        BY <1>2, AbsentAssumption
    <2>2. Current' = Current
        BY <1>1, <1>2, <2>1 DEF Current
    <2>3. ASSUME NEW s \in Streams
          PROVE  Decided(s)' <=> Decided(s)
        BY <1>1, <1>2, <2>1 DEF Decided
    <2> QED BY <2>2, <2>3
<1>4. ASSUME NEW s \in Streams, Decided(s)
      PROVE  Matches(s, Current)'
    <2>1. Matches(s, Current)
        BY <1>4 DEF SnapshotsOK
    <2>2. ASSUME s \in Senders, s \in Ids(Current)
          PROVE  Carries(MakeMap(Current)[s], cache[s], connections'[s])
        <3> DEFINE old == connections[s]
                   file == FileOf(s, old.active, clock')
                   new == [old EXCEPT !.file = file]
        <3>1. cache[s] # Absent /\ Carries(MakeMap(Current)[s], cache[s], old)
            BY <2>1, <2>2 DEF Matches
        <3>2. old # Absent /\ old \in Connections
            BY <3>1, CachedIsConnected
        <3>3. connections'[s] = new
            BY <3>2 DEF SetPtpClock
        <3>4. new.staged = old.staged /\ new.active = old.active /\ new.scheduled = old.scheduled
            <4>1. old \in Connections
                BY <3>2
            <4> HIDE DEF old, file
            <4> QED BY <4>1 DEF Connections
        <3> HIDE DEF new
        <3> QED BY <3>1, <3>3, <3>4 DEF Carries, Waits, Runs
    <2> QED BY <1>1, <1>3, <2>1, <2>2 DEF Matches
<1> QED BY <1>3, <1>4 DEF SnapshotsOK

\* A stream that was written carries what was written.
LEMMA WriteCarries ==
    ASSUME IInv, NEW s \in Senders, NEW config \in Configs, Write(s, config)
    PROVE  cache'[s] = config /\ Carries(config, cache'[s], connections'[s])
PROOF
<1> DEFINE new == IF cache[s] # Absent
                  THEN Replace(s, connections[s], config, runtime_interfaces)
                  ELSE MakeConnection(s, config, runtime_interfaces)
<1>1. /\ cache \in [Streams -> Configs \cup {Absent}]
      /\ connections \in [Streams -> Connections \cup {Absent}]
      /\ runtime_interfaces \in Devices
      /\ clock \in Clocks
      /\ s \in Streams
    BY DEF IInv, TypeOK, Senders
<1>2. /\ new.staged = MakeEndpoint(s, config, runtime_interfaces)
      /\ new.scheduled = "node"
      /\ StreamOK(s, config, new, runtime_interfaces, clock, "snapshot")
    BY <1>1, CachedIsConnected, MadeConnection, ReplacedConnection
<1>3. cache' = [cache EXCEPT ![s] = config]
    BY DEF Write
<1>4. connections' = [connections EXCEPT ![s] = new]
    BY DEF Write
<1> HIDE DEF new
<1>5. cache'[s] = config /\ connections'[s] = new
    BY <1>1, <1>3, <1>4
<1>6. SameTarget(config, config)
    BY Zenon DEF SameTarget
<1> QED BY <1>1, <1>2, <1>5, <1>6, MadeWaits

\* A sync's call makes its stream match, and no other stream worse.
LEMMA ApplyMatches ==
    ASSUME IInv, SnapshotsOK, NEW t \in Streams, Apply(t)
    PROVE  SnapshotsOK'
PROOF
<1>1. /\ TypeOK
      /\ job \in Jobs /\ job # Absent
      /\ job' = [job EXCEPT !.left = @ \ {t}]
      /\ writer' = [writer EXCEPT ![t] = "snapshot"]
      /\ writer \in [Streams -> Writers]
      /\ cache \in [Streams -> Configs \cup {Absent}]
      /\ connections \in [Streams -> Connections \cup {Absent}]
    BY DEF Apply, Turn, IInv, TypeOK
<1>2. /\ job' \in Jobs /\ job' # Absent
      /\ job'.next = job.next /\ job'.left = job.left \ {t}
    BY <1>1, AbsentAssumption DEF Jobs
<1>3. Current' = Current /\ Current = job.next.streams
    BY <1>1, <1>2 DEF Current
<1>4. ASSUME NEW s \in Streams, Decided(s)', s # t
      PROVE  Matches(s, Current)'
    <2>1. Decided(s)
        BY <1>1, <1>2, <1>4 DEF Decided
    <2>2. cache'[s] = cache[s] /\ connections'[s] = connections[s]
        BY <1>1, <1>4 DEF Apply, Write, Remove
    <2>3. Matches(s, Current)
        BY <2>1 DEF SnapshotsOK
    <2> QED BY <1>3, <2>2, <2>3 DEF Matches
<1>5. Matches(t, Current)'
    <2>1. CASE t \in Ids(Current)
        <3> DEFINE wanted == MakeMap(Current)[t]
        <3>1. wanted \in Configs
            BY <1>1, <2>1, CurrentType
        <3>2. Write(t, wanted)
            BY <1>3, <2>1 DEF Apply
        <3>3. cache'[t] = wanted
            BY <1>1, <3>2 DEF Write
        <3>4. cache'[t] # Absent
            BY <3>1, <3>3, AbsentAssumption
        <3>5. t \in Senders => Carries(wanted, cache'[t], connections'[t])
            BY <3>1, <3>2, WriteCarries
        <3> QED BY <1>3, <2>1, <3>4, <3>5 DEF Matches
    <2>2. CASE t \notin Ids(Current)
        <3>1. Remove(t)
            BY <1>3, <2>2 DEF Apply
        <3>2. cache'[t] = Absent
            BY <1>1, <3>1 DEF Remove
        <3> QED BY <1>3, <2>2, <3>2 DEF Matches
    <2> QED BY <2>1, <2>2
<1> QED BY <1>4, <1>5 DEF SnapshotsOK

\* At its end a sync has decided about every stream.
LEMMA EndSyncMatches ==
    ASSUME IInv, SnapshotsOK, EndSync
    PROVE  SnapshotsOK'
PROOF
<1>1. /\ job # Absent /\ job.left = {} /\ job' = Absent
      /\ last_snapshot' = job.next
      /\ UNCHANGED <<cache, connections, writer>>
    BY DEF EndSync, node
<1>2. Current' = Current
    BY <1>1 DEF Current
<1>3. ASSUME NEW s \in Streams, Decided(s)'
      PROVE  Matches(s, Current)'
    <2>1. Matches(s, Current)
        BY <1>1, <1>3 DEF SnapshotsOK, Decided
    <2> QED BY <1>1, <1>2, <2>1 DEF Matches
<1> QED BY <1>3 DEF SnapshotsOK

\* A controller's request changes nothing until it is activated.
LEMMA PatchMatches ==
    ASSUME IInv, SnapshotsOK, NEW t \in Streams, Patch(t)
    PROVE  SnapshotsOK'
PROOF
<1>1. /\ UNCHANGED <<cache, daemon, writer>>
      /\ connections[t] # Absent
      /\ connections[t].scheduled = "no"
      /\ connections \in [Streams -> Connections \cup {Absent}]
    BY DEF Patch, IInv, TypeOK
<1>2. Current' = Current /\ \A s \in Streams : Decided(s)' <=> Decided(s)
    BY <1>1 DEF daemon, Current, Decided
<1>3. PICK staged \in Edits(t), asked \in {"no", "controller"} :
          connections' = [connections EXCEPT ![t].staged = staged,
                                             ![t].scheduled = asked]
    BY DEF Patch
<1>4. ASSUME NEW s \in Streams, Decided(s)
      PROVE  Matches(s, Current)'
    <2>1. Matches(s, Current)
        BY <1>4 DEF SnapshotsOK
    <2>2. CASE s # t
        <3>1. connections'[s] = connections[s]
            BY <1>1, <1>3, <2>2
        <3> QED BY <1>1, <1>2, <2>1, <3>1 DEF Matches
    <2>3. CASE s = t
        <3> DEFINE old == connections[s]
                   new == [old EXCEPT !.staged = staged, !.scheduled = asked]
        <3>1. /\ connections'[s] = new /\ old \in Connections
              /\ old.scheduled = "no"
            BY <1>1, <1>3, <2>3
        <3>2. new.scheduled # "node" /\ new.active = old.active
            <4>1. old \in Connections
                BY <3>1
            <4> HIDE DEF old
            <4> QED BY <4>1 DEF Connections
        <3> HIDE DEF new
        <3>3. ASSUME NEW wanted, Runs(wanted, old)
              PROVE  Waits(wanted, new) /\ Runs(wanted, new)
            BY <3>1, <3>2, <3>3 DEF Waits, Runs
        <3> QED BY <1>1, <1>2, <2>1, <3>1, <3>3 DEF Matches, Carries
    <2> QED BY <2>2, <2>3
<1> QED BY <1>2, <1>4 DEF SnapshotsOK

\* Nor does one that calls an activation off, unless that was to bring a snapshot.
LEMMA CancelMatches ==
    ASSUME IInv, SnapshotsOK, NEW t \in Streams, CancelPatch(t)
    PROVE  SnapshotsOK'
PROOF
<1>1. /\ UNCHANGED <<cache, daemon>>
      /\ connections[t] # Absent
      /\ connections' = [connections EXCEPT ![t].scheduled = "no"]
      /\ connections \in [Streams -> Connections \cup {Absent}]
      /\ writer' = [writer EXCEPT ![t] =
                       IF connections[t].scheduled = "node" THEN "cancel" ELSE @]
      /\ writer \in [Streams -> Writers]
    BY DEF CancelPatch, IInv, TypeOK
<1>2. Current' = Current
    BY <1>1 DEF daemon, Current
<1>3. ASSUME NEW s \in Streams, Decided(s)'
      PROVE  Matches(s, Current)'
    <2>1. writer'[s] = IF s = t /\ connections[t].scheduled = "node" THEN "cancel"
                       ELSE writer[s]
        BY <1>1
    <2>2. Decided(s) /\ ~(s = t /\ connections[t].scheduled = "node")
        BY <1>1, <1>3, <2>1 DEF Decided, daemon
    <2>3. Matches(s, Current)
        BY <2>2 DEF SnapshotsOK
    <2>4. CASE s # t
        <3>1. connections'[s] = connections[s]
            BY <1>1, <2>4
        <3> QED BY <1>1, <1>2, <2>3, <3>1 DEF Matches
    <2>5. CASE s = t
        <3> DEFINE old == connections[s]
                   new == [old EXCEPT !.scheduled = "no"]
        <3>1. /\ connections'[s] = new /\ old \in Connections
              /\ old.scheduled # "node"
            BY <1>1, <2>2, <2>5
        <3>2. new.scheduled = "no" /\ new.active = old.active
            <4>1. old \in Connections
                BY <3>1
            <4> HIDE DEF old
            <4> QED BY <4>1 DEF Connections
        <3> HIDE DEF new
        <3>3. ASSUME NEW wanted, Runs(wanted, old)
              PROVE  Waits(wanted, new) /\ Runs(wanted, new)
            BY <3>1, <3>2, <3>3 DEF Waits, Runs
        <3> QED BY <1>1, <1>2, <2>3, <3>1, <3>3 DEF Matches, Carries
    <2> QED BY <2>4, <2>5
<1> QED BY <1>3 DEF SnapshotsOK

\* An activation of the Node's own carries on what was wanted; a controller's decides itself.
LEMMA ActivateMatches ==
    ASSUME IInv, SnapshotsOK, NEW t \in Streams, Activate(t)
    PROVE  SnapshotsOK'
PROOF
<1> DEFINE old == connections[t]
           active == [master |-> old.staged.master, legs |-> Resolve(t, old.staged.legs)]
           new == [old EXCEPT !.active = active, !.scheduled = "no",
                              !.file = FileOf(t, active, clock)]
           config == Observed(t, active)
<1>1. /\ old # Absent /\ old.scheduled # "no"
      /\ connections' = [connections EXCEPT ![t] = new]
      /\ cache' = [cache EXCEPT ![t] = config]
      /\ writer' = [writer EXCEPT ![t] =
                       IF old.scheduled = "controller" \/ @ = "cancel"
                       THEN "controller" ELSE @]
      /\ UNCHANGED daemon
    BY DEF Activate
<1>2. /\ TypeOK
      /\ runtime_interfaces \in Devices /\ clock \in Clocks
      /\ connections \in [Streams -> Connections \cup {Absent}]
      /\ cache \in [Streams -> Configs \cup {Absent}]
      /\ writer \in [Streams -> Writers]
    BY DEF IInv, TypeOK
<1>3. old \in Connections /\ old.scheduled \in {"node", "controller"}
    BY <1>1, <1>2, ConnectionShape
<1>4. config \in Configs
    BY <1>2, <1>3, ActivatedConnection DEF IInv, StreamsOK
<1>5. new.active = active /\ new.scheduled = "no"
    <2>1. old \in Connections
        BY <1>3
    <2> DEFINE file == FileOf(t, active, clock)
    <2> HIDE DEF old, active, file
    <2> QED BY <2>1 DEF Connections
<1> HIDE DEF new
<1>6. Current' = Current
    BY <1>1 DEF daemon, Current
<1>7. ASSUME NEW s \in Streams, Decided(s)', s # t
      PROVE  Matches(s, Current)'
    <2>1. Decided(s)
        BY <1>1, <1>2, <1>7 DEF Decided, daemon
    <2>2. cache'[s] = cache[s] /\ connections'[s] = connections[s]
        BY <1>1, <1>2, <1>7
    <2> QED BY <1>6, <2>1, <2>2 DEF SnapshotsOK, Matches
<1>8. ASSUME Decided(t)'
      PROVE  Matches(t, Current)'
    <2>1. writer'[t] = IF old.scheduled = "controller" \/ writer[t] = "cancel"
                       THEN "controller" ELSE writer[t]
        BY <1>1, <1>2
    <2>2. Decided(t) /\ old.scheduled = "node"
        BY <1>1, <1>3, <1>8, <2>1 DEF Decided, daemon
    <2>3. Matches(t, Current)
        BY <2>2 DEF SnapshotsOK
    <2>4. cache'[t] = config /\ connections'[t] = new /\ cache'[t] # Absent
        BY <1>1, <1>2, <1>4, AbsentAssumption
    <2>5. cache[t] # Absent
        BY <1>1, CachedIsConnected
    <2>6. ASSUME t \in Senders
          PROVE  Carries(MakeMap(Current)[t], config, new)
        <3>1. /\ t \in Ids(Current)
              /\ Carries(MakeMap(Current)[t], cache[t], old)
            BY <2>3, <2>5, <2>6 DEF Matches
        <3>2. MakeMap(Current)[t] \in Configs
            BY <1>2, <3>1, CurrentType
        <3> QED BY <1>1, <1>5, <2>2, <2>6, <3>1, <3>2, ActivatedRuns
    <2> QED BY <1>6, <2>3, <2>4, <2>5, <2>6 DEF Matches
<1> QED BY <1>7, <1>8 DEF SnapshotsOK

\* A restart forgets which snapshot was applied, and every stream it had.
LEMMA RestartMatches ==
    ASSUME IInv, SnapshotsOK, Restart
    PROVE  SnapshotsOK'
PROOF
<1>1. /\ cache' = None /\ connections' = None /\ job' = job
      /\ last_snapshot' = EmptySnapshot
      /\ writer' = [s \in Streams |->
                       IF cache[s] # Absent THEN "reinsertion" ELSE writer[s]]
    BY DEF Restart
<1>2. ASSUME NEW s \in Streams, Decided(s)'
      PROVE  Matches(s, Current)'
    <2>1. cache[s] = Absent /\ Decided(s)
        BY <1>1, <1>2 DEF Decided
    <2>2. s \notin Ids(Current)
        BY <2>1 DEF SnapshotsOK, Matches
    <2>3. s \notin Ids(EmptySnapshot.streams)
        BY DEF Ids, EmptySnapshot
    <2>4. s \notin Ids(Current)'
        <3>1. Current' = IF job = Absent THEN EmptySnapshot.streams ELSE job.next.streams
            BY <1>1 DEF Current
        <3>2. CASE job = Absent
            <4>1. Current' = EmptySnapshot.streams
                BY <3>1, <3>2
            <4> QED BY <2>3, <4>1 DEF Ids
        <3>3. CASE job # Absent
            <4>1. Current' = Current
                BY <3>1, <3>3 DEF Current
            <4> QED BY <2>2, <4>1 DEF Ids
        <3> QED BY <3>2, <3>3
    <2>5. cache'[s] = Absent
        BY <1>1 DEF None
    <2> QED BY <2>4, <2>5 DEF Matches
<1> QED BY <1>2 DEF SnapshotsOK

\* A reinsertion decides about its stream, and about no other.
LEMMA ReinsertMatches ==
    ASSUME IInv, SnapshotsOK, NEW t \in Streams, Reinsert(t)
    PROVE  SnapshotsOK'
PROOF
<1>1. /\ writer \in [Streams -> Writers]
      /\ cache \in [Streams -> Configs \cup {Absent}]
      /\ connections \in [Streams -> Connections \cup {Absent}]
      /\ writer' = [writer EXCEPT ![t] = "reinsertion"]
      /\ UNCHANGED daemon
    BY DEF Reinsert, IInv, TypeOK
<1>2. Current' = Current
    BY <1>1 DEF daemon, Current
<1>3. ASSUME NEW s \in Streams, Decided(s)'
      PROVE  Matches(s, Current)'
    <2>1. s # t /\ Decided(s)
        BY <1>1, <1>3 DEF Decided, daemon
    <2>2. cache'[s] = cache[s] /\ connections'[s] = connections[s]
        BY <1>1, <2>1 DEF Reinsert, Write
    <2> QED BY <1>2, <2>1, <2>2 DEF SnapshotsOK, Matches
<1> QED BY <1>3 DEF SnapshotsOK

\* Between two syncs the streams are those of the last snapshot, unless a controller
\* or a reinsertion had the last word, however many snapshots, clocks, interfaces,
\* activations and restarts came before.
THEOREM SnapshotIsAppliedHolds == Spec => []SnapshotIsApplied
PROOF
<1>1. Init => IInv /\ SnapshotsOK
    <2>1. ASSUME Init, NEW s \in Streams
          PROVE  Matches(s, Current)
        <3>1. cache[s] = Absent /\ Current = EmptySnapshot.streams
            BY <2>1 DEF Init, None, Current
        <3>2. s \notin Ids(EmptySnapshot.streams)
            BY DEF Ids, EmptySnapshot
        <3> QED BY <3>1, <3>2 DEF Matches
    <2> QED BY <2>1, InitInv DEF SnapshotsOK
<1>2. ASSUME IInv, SnapshotsOK, [Next]_vars
      PROVE  IInv' /\ SnapshotsOK'
    <2>1. IInv'
        BY <1>2, StepInv
    <2>2. ASSUME Next
          PROVE  SnapshotsOK'
        BY <1>2, <2>2, BeginMatches, PtpClockMatches, InterfacesMatch, ApplyMatches,
           EndSyncMatches, PatchMatches, CancelMatches, ActivateMatches, RestartMatches,
           ReinsertMatches
        DEF Next, Sync
    <2>3. ASSUME UNCHANGED vars
          PROVE  SnapshotsOK'
        <3>1. UNCHANGED <<job, last_snapshot, writer, cache, connections>>
            BY <2>3 DEF vars, node, daemon
        <3>2. Current' = Current
            BY <3>1 DEF Current
        <3> QED BY <1>2, <3>1, <3>2 DEF SnapshotsOK, Decided, Matches
    <2> QED BY <1>2, <2>1, <2>2, <2>3
<1>3. ASSUME IInv, SnapshotsOK
      PROVE  SnapshotIsApplied
    <2>1. ASSUME job = Absent, NEW s \in Streams, writer[s] = "snapshot"
          PROVE  Matches(s, last_snapshot.streams)
        BY <1>3, <2>1 DEF SnapshotsOK, Decided, Current
    <2>2. DOMAIN MakeMap(last_snapshot.streams) = Ids(last_snapshot.streams)
        BY DEF MakeMap
    <2> DEFINE wanted == MakeMap(last_snapshot.streams)
    <2>3. ASSUME job = Absent, NEW s \in Streams, writer[s] = "snapshot",
                 s \in Senders, Settled(s), NEW i \in DOMAIN wanted[s]
          PROVE  /\ connections[s].active.legs[i].ip = wanted[s][i].ip
                 /\ Sends(s, i) <=> wanted[s][1].enable /\ wanted[s][i].enable
        <3>1. cache[s] # Absent /\ s \in Ids(last_snapshot.streams)
            BY <1>3, <2>1, <2>3, CachedIsConnected DEF Settled, Matches
        <3>2. Runs(wanted[s], connections[s])
            BY <2>1, <2>3, <3>1 DEF Matches, Carries
        <3>3. /\ connections[s].active.legs[i].ip = wanted[s][i].ip
              /\ connections[s].active.master /\ connections[s].active.legs[i].enabled
                     <=> LegEnabled(wanted[s], i)
            BY <2>3, <3>2, Zenon DEF Runs, Settled
        <3> QED BY <3>3, Zenon DEF Sends, LegEnabled
    <2> HIDE DEF wanted
    <2>4. ASSUME job = Absent, NEW s \in Streams, writer[s] = "snapshot"
          PROVE  s \in DOMAIN wanted <=> cache[s] # Absent
        BY <2>1, <2>2, <2>4 DEF Matches, wanted
    <2> QED BY <2>3, <2>4, Zenon DEF SnapshotIsApplied, wanted
<1> QED BY <1>1, <1>2, <1>3, PTL DEF Spec

=============================================================================
