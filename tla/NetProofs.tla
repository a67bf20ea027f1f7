----------------------------- MODULE NetProofs -----------------------------
(***************************************************************************)
(* Proofs about the settings of the networks, for any number of threads,   *)
(* requests, ports and radios and any configuration that is found.         *)
(*                                                                         *)
(* TunnelFollowsType is inductive; the other properties are not.           *)
(*   AskedFits     the ports of each network are where get_settings looks  *)
(*                 for them, in terms of the sections that exist; what wan *)
(*                 and guest write later keeps it because BridgesFit says  *)
(*                 whose device a bridge is.                               *)
(*   BackupsFit    a backup of reset() fits the settings it was made with, *)
(*                 so that only a change in between (crossed) can make the *)
(*                 restored guest networks wrong; OnlyOwnGuests says that  *)
(*                 no guest network belongs to a radio that is not there.  *)
(*   RestartDue, LimitDue, TimeDue                                         *)
(*                 what is saved and not in use yet is the task of a       *)
(*                 thread, of one only unless updates overlapped and none  *)
(*                 has run alone since.                                    *)
(* The first part is about the operators that rewrite the files, each with *)
(* what it sets (GuestSet, NetworkSet, DeviceSet) and what it keeps.       *)
(***************************************************************************)
EXTENDS NetConfig, FiniteSetTheorems, TLAPS

----------------------------------------------------------------------------
\* The sections of bridges

LEMMA SectionNames ==
  /\ Named("wan") = "br_wan" /\ Named("lan") = "br_lan" /\ Named("guest") = "br_guest_turris"
  /\ Anonymous("wan") = "cfg_wan" /\ Anonymous("lan") = "cfg_lan" /\ Anonymous("guest") = "cfg_guest"
  /\ Sections = {"br_wan", "br_lan", "br_guest_turris", "cfg_lan", "cfg_guest"}
  <1>1. Named("wan") = "br_wan" /\ Named("lan") = "br_lan" /\ Named("guest") = "br_guest_turris"
    BY DEF Named
  <1>2. {Named(n) : n \in Nets} = {"br_wan", "br_lan", "br_guest_turris"}
    BY <1>1 DEF Nets
  <1> QED  BY <1>1, <1>2 DEF Anonymous, Sections

\* A bridge section is added or removed and the others stay as they are.
LEMMA WithBridge ==
  ASSUME NEW b \in BridgeType, NEW s \in Sections, NEW ports \in SUBSET Ports
  PROVE  /\ With(b, s, ports) \in BridgeType
         /\ DOMAIN With(b, s, ports) = DOMAIN b \cup {s}
         /\ With(b, s, ports)[s] = ports
         /\ \A x \in DOMAIN b \ {s} : With(b, s, ports)[x] = b[x]
  <1>1. PICK S \in SUBSET Sections : b \in [S -> SUBSET Ports]
    BY DEF BridgeType
  <1>2. With(b, s, ports) \in [S \cup {s} -> SUBSET Ports]
    BY <1>1 DEF With
  <1> QED  BY <1>1, <1>2 DEF With, BridgeType

LEMMA WithoutBridge ==
  ASSUME NEW b \in BridgeType, NEW s
  PROVE  /\ Without(b, s) \in BridgeType
         /\ DOMAIN Without(b, s) = DOMAIN b \ {s}
         /\ \A x \in DOMAIN b \ {s} : Without(b, s)[x] = b[x]
  <1>1. PICK S \in SUBSET Sections : b \in [S -> SUBSET Ports]
    BY DEF BridgeType
  <1>2. Without(b, s) \in [S \ {s} -> SUBSET Ports]
    BY <1>1 DEF Without
  <1> QED  BY <1>1, <1>2 DEF Without, BridgeType

----------------------------------------------------------------------------
\* What the transactions write

\* Fields that the modules of the networks leave alone
SameTime(c, d) == d.country = c.country /\ d.ntp = c.ntp
SameWan6(c, d) == d.wan6 = c.wan6 /\ d.rules = c.rules /\ d.options = c.options
SameGuest(c, d) == d.guest = c.guest /\ d.limit = c.limit
SameWan(c, d) == d.zone = c.zone /\ d.proto = c.proto

\* set_guest_network(c, enabled, qos) is d.
GuestSet(c, enabled, qos, d) ==
  /\ d \in Conf
  /\ d.guest = enabled /\ d.limit = (enabled /\ qos)
  /\ d.ifname = c.ifname
  /\ d.device = [c.device EXCEPT !["guest"] = Bridge("guest")]
  /\ DOMAIN d.bridge = DOMAIN c.bridge \cup {"br_guest_turris"}
  /\ \A x \in DOMAIN c.bridge : d.bridge[x] = c.bridge[x]
  /\ SameTime(c, d) /\ SameWan6(c, d) /\ SameWan(c, d)

LEMMA SetGuest ==
  ASSUME NEW c \in Conf, NEW enabled \in BOOLEAN, NEW qos \in BOOLEAN,
         NEW d, d = set_guest_network(c, enabled, qos)
  PROVE  GuestSet(c, enabled, qos, d)
  <1> DEFINE b == IF "br_guest_turris" \in DOMAIN c.bridge THEN c.bridge
                  ELSE With(c.bridge, "br_guest_turris", {})
             v == [c.device EXCEPT !["guest"] = Bridge("guest")]
  <1>1. c.bridge \in BridgeType /\ "br_guest_turris" \in Sections /\ Named("guest") = "br_guest_turris"
    BY SectionNames DEF Conf
  <1>2. /\ b \in BridgeType
        /\ DOMAIN b = DOMAIN c.bridge \cup {"br_guest_turris"}
        /\ \A x \in DOMAIN c.bridge : b[x] = c.bridge[x]
    <2>1. CASE "br_guest_turris" \in DOMAIN c.bridge
      BY <2>1, <1>1
    <2>2. CASE "br_guest_turris" \notin DOMAIN c.bridge
      <3>1. b = With(c.bridge, "br_guest_turris", {}) /\ {} \in SUBSET Ports
        BY <2>2
      <3>2. /\ With(c.bridge, "br_guest_turris", {}) \in BridgeType
            /\ DOMAIN With(c.bridge, "br_guest_turris", {}) = DOMAIN c.bridge \cup {"br_guest_turris"}
            /\ \A x \in DOMAIN c.bridge \ {"br_guest_turris"} :
                 With(c.bridge, "br_guest_turris", {})[x] = c.bridge[x]
        BY <3>1, <1>1, WithBridge
      <3> HIDE DEF b
      <3> QED  BY <3>1, <3>2, <2>2
    <2> QED  BY <2>1, <2>2
  <1>3. v \in [Nets -> DeviceType]
    BY DEF Conf, Nets, DeviceType, Bridge, Dev, NoPorts
  <1>4. d = [c EXCEPT !.guest = enabled, !.device = v, !.bridge = b, !.limit = enabled /\ qos]
    BY <1>1 DEF set_guest_network
  <1> HIDE DEF b, v
  <1>5. /\ d.guest = enabled /\ d.limit = (enabled /\ qos) /\ d.device = v /\ d.bridge = b
        /\ d.ifname = c.ifname
        /\ SameTime(c, d) /\ SameWan6(c, d) /\ SameWan(c, d)
    BY <1>4 DEF Conf, SameTime, SameWan6, SameWan
  <1>6. d \in Conf
    BY <1>2, <1>3, <1>4 DEF Conf
  <1> QED  BY <1>2, <1>5, <1>6 DEF v, GuestSet

LEMMA EnableGuest ==
  ASSUME NEW c \in Conf, NEW d, d = enable_guest_network(c)
  PROVE  GuestSet(c, TRUE, FALSE, d)
  BY SetGuest, Zenon DEF enable_guest_network

\* The device of a network that is a bridge (asBridge), a port or nothing
Chosen(n, ports, asBridge) ==
  IF asBridge THEN Bridge(n) ELSE IF ports = {} THEN NoDevice ELSE Dev(CHOOSE p \in ports : TRUE)

LEMMA ChosenType ==
  ASSUME NEW n \in Nets, NEW ports \in SUBSET Ports, NEW asBridge \in BOOLEAN
  PROVE  Chosen(n, ports, asBridge) \in DeviceType
  <1>1. Bridge(n) \in DeviceType /\ NoDevice \in DeviceType
    BY DEF Bridge, NoDevice, Dev, DeviceType, NoPorts, Nets
  <1>2. ASSUME ports # {}
        PROVE  Dev(CHOOSE p \in ports : TRUE) \in DeviceType
    <2>1. (CHOOSE p \in ports : TRUE) \in Ports
      BY <1>2
    <2> QED  BY <2>1 DEF Dev, DeviceType
  <1> QED  BY <1>1, <1>2 DEF Chosen

\* SetNetwork(data, c, n, ports) is d.
NetworkSet(data, c, n, ports, d) ==
  LET asBridge == Cardinality(ports) > 1 \/ n = "lan"
      gone == IF data.device[n] = Bridge(n) THEN {Anonymous(n)} ELSE {}
  IN /\ d.ifname = [c.ifname EXCEPT ![n] = {}]
     /\ d.device = IF asBridge /\ Named(n) \in DOMAIN data.bridge THEN c.device
                   ELSE [c.device EXCEPT ![n] = Chosen(n, ports, asBridge)]
     /\ IF asBridge
        THEN /\ DOMAIN d.bridge = (DOMAIN c.bridge \ gone) \cup {Named(n)}
             /\ d.bridge[Named(n)] = ports
        ELSE DOMAIN d.bridge = (DOMAIN c.bridge \ gone) \ {Named(n)}
     /\ \A x \in DOMAIN d.bridge \ {Named(n)} : d.bridge[x] = c.bridge[x]

LEMMA SetOne ==
  ASSUME NEW c \in Conf, NEW data \in Conf, NEW n \in Nets, NEW ports \in SUBSET Ports,
         NEW d, d = SetNetwork(data, c, n, ports)
  PROVE  /\ d \in Conf
         /\ NetworkSet(data, c, n, ports, d)
         /\ SameTime(c, d) /\ SameWan6(c, d) /\ SameWan(c, d) /\ SameGuest(c, d)
  <1> DEFINE asBridge == Cardinality(ports) > 1 \/ n = "lan"
             gone == IF data.device[n] = Bridge(n) THEN {Anonymous(n)} ELSE {}
             bare == IF data.device[n] = Bridge(n) THEN Without(c.bridge, Anonymous(n)) ELSE c.bridge
             b == IF asBridge THEN With(bare, Named(n), ports) ELSE Without(bare, Named(n))
             i == [c.ifname EXCEPT ![n] = {}]
             v == IF asBridge /\ Named(n) \in DOMAIN data.bridge THEN c.device
                  ELSE [c.device EXCEPT ![n] = Chosen(n, ports, asBridge)]
  <1>1. /\ c.bridge \in BridgeType /\ c.ifname \in [Nets -> SUBSET Ports]
        /\ c.device \in [Nets -> DeviceType]
    BY DEF Conf
  <1>2. /\ bare \in BridgeType /\ DOMAIN bare = DOMAIN c.bridge \ gone
        /\ \A x \in DOMAIN bare : bare[x] = c.bridge[x]
    BY <1>1, WithoutBridge
  <1>3. Named(n) \in Sections
    BY DEF Sections
  <1>4. d = [c EXCEPT !.ifname = i, !.bridge = b, !.device = v]
    BY DEF SetNetwork, Chosen
  <1> HIDE DEF bare
  <1>5. /\ b \in BridgeType
        /\ IF asBridge THEN DOMAIN b = DOMAIN bare \cup {Named(n)} /\ b[Named(n)] = ports
           ELSE DOMAIN b = DOMAIN bare \ {Named(n)}
        /\ \A x \in DOMAIN b \ {Named(n)} : b[x] = bare[x]
    <2> HIDE DEF asBridge
    <2>1. CASE asBridge
      <3>1. b = With(bare, Named(n), ports)
        BY <2>1
      <3>2. /\ With(bare, Named(n), ports) \in BridgeType
            /\ DOMAIN With(bare, Named(n), ports) = DOMAIN bare \cup {Named(n)}
            /\ With(bare, Named(n), ports)[Named(n)] = ports
            /\ \A x \in DOMAIN bare \ {Named(n)} : With(bare, Named(n), ports)[x] = bare[x]
        BY <1>2, <1>3, WithBridge
      <3> HIDE DEF b
      <3> QED  BY <2>1, <3>1, <3>2
    <2>2. CASE ~asBridge
      BY <2>2, <1>2, WithoutBridge
    <2> QED  BY <2>1, <2>2
  <1>6. v \in [Nets -> DeviceType] /\ i \in [Nets -> SUBSET Ports]
    BY <1>1, ChosenType
  <1> HIDE DEF b, v, i
  <1>7. /\ d.ifname = i /\ d.bridge = b /\ d.device = v
        /\ SameTime(c, d) /\ SameWan6(c, d) /\ SameWan(c, d) /\ SameGuest(c, d)
    BY <1>4 DEF Conf, SameTime, SameWan6, SameWan, SameGuest
  <1>8. d \in Conf
    BY <1>4, <1>5, <1>6 DEF Conf
  <1>9. NetworkSet(data, c, n, ports, d)
    <2>1. d.ifname = [c.ifname EXCEPT ![n] = {}]
      BY <1>7 DEF i
    <2>2. d.device = IF asBridge /\ Named(n) \in DOMAIN data.bridge THEN c.device
                     ELSE [c.device EXCEPT ![n] = Chosen(n, ports, asBridge)]
      BY <1>7 DEF v
    <2>3. /\ IF asBridge
             THEN /\ DOMAIN d.bridge = (DOMAIN c.bridge \ gone) \cup {Named(n)}
                  /\ d.bridge[Named(n)] = ports
             ELSE DOMAIN d.bridge = (DOMAIN c.bridge \ gone) \ {Named(n)}
          /\ \A x \in DOMAIN d.bridge \ {Named(n)} : d.bridge[x] = c.bridge[x]
      <3> HIDE DEF asBridge, gone
      <3> QED  BY <1>2, <1>5, <1>7
    <2> QED  BY <2>1, <2>2, <2>3 DEF NetworkSet
  <1> QED  BY <1>7, <1>8, <1>9

\* A set of ports that is no bridge of the WAN holds the chosen port only.
LEMMA OnePort ==
  ASSUME NEW ports \in SUBSET Ports, ports # {}, ~(Cardinality(ports) > 1)
  PROVE  ports = {CHOOSE p \in ports : TRUE}
  <1>1. IsFiniteSet(ports)
    BY NetAssumption, FS_Subset
  <1>2. Cardinality(ports) \in Nat /\ Cardinality(ports) # 0
    BY <1>1, FS_CardinalityType, FS_EmptySet
  <1>3. Cardinality(ports) = 1
    BY <1>2
  <1>4. PICK x : ports = {x}
    BY <1>1, <1>3, FS_Singleton
  <1>5. (CHOOSE p \in ports : TRUE) \in ports
    OBVIOUS
  <1> QED  BY <1>4, <1>5

\* The files as networks.update_settings leaves them for the ports a, and as
\* the other modules keep them
NetworksFit(c, a) ==
  /\ c.ifname["wan"] = {} /\ c.ifname["lan"] = {}
  /\ c.device["lan"] = Bridge("lan") /\ c.device["guest"] = Bridge("guest")
  /\ "br_lan" \in DOMAIN c.bridge /\ c.bridge["br_lan"] = a["lan"]
  /\ "br_guest_turris" \in DOMAIN c.bridge /\ c.bridge["br_guest_turris"] = a["guest"]
  /\ "cfg_lan" \notin DOMAIN c.bridge
  /\ IF Cardinality(a["wan"]) > 1 THEN c.device["wan"].base = "br-wan"
     ELSE IF a["wan"] = {} THEN c.device["wan"] = NoDevice
     ELSE a["wan"] = {c.device["wan"].base} /\ c.device["wan"].vlan = FALSE

LEMMA BridgeNames ==
  /\ Bridge("wan") = [base |-> "br-wan", vlan |-> FALSE]
  /\ Bridge("lan") = [base |-> "br-lan", vlan |-> FALSE]
  /\ Bridge("guest") = [base |-> "br-guest-turris", vlan |-> FALSE]
  BY DEF Bridge, Dev

LEMMA SetAll ==
  ASSUME NEW c \in Conf, BridgesFit(c), NEW a, \A n \in Nets : a[n] \in SUBSET Ports,
         NEW d, d = SetNetworks(c, a)
  PROVE  /\ d \in Conf /\ d.guest = TRUE /\ d.limit = FALSE
         /\ SameTime(c, d) /\ SameWan6(c, d) /\ SameWan(c, d)
         /\ BridgesFit(d) /\ NetworksFit(d, a)
  <1> DEFINE data == enable_guest_network(c)
             guest == [data EXCEPT !.bridge = With(data.bridge, Named("guest"), a["guest"])]
             wan == SetNetwork(data, guest, "wan", a["wan"])
  <1>1. /\ data \in Conf /\ data.guest = TRUE /\ data.limit = FALSE
        /\ data.ifname = c.ifname
        /\ data.device = [c.device EXCEPT !["guest"] = Bridge("guest")]
        /\ DOMAIN data.bridge = DOMAIN c.bridge \cup {"br_guest_turris"}
        /\ \A x \in DOMAIN c.bridge : data.bridge[x] = c.bridge[x]
        /\ SameTime(c, data) /\ SameWan6(c, data) /\ SameWan(c, data)
    BY EnableGuest DEF GuestSet
  <1> HIDE DEF data
  <1>2. /\ "wan" \in Nets /\ "lan" \in Nets /\ "guest" \in Nets
        /\ a["wan"] \in SUBSET Ports /\ a["lan"] \in SUBSET Ports /\ a["guest"] \in SUBSET Ports
    BY DEF Nets
  <1>3. /\ guest \in Conf
        /\ guest.ifname = c.ifname /\ guest.device = data.device
        /\ DOMAIN guest.bridge = DOMAIN data.bridge
        /\ guest.bridge["br_guest_turris"] = a["guest"]
        /\ SameTime(data, guest) /\ SameWan6(data, guest) /\ SameWan(data, guest)
        /\ SameGuest(data, guest)
    <2> DEFINE b == With(data.bridge, "br_guest_turris", a["guest"])
    <2>1. data.bridge \in BridgeType
      BY <1>1 DEF Conf
    <2>2. b \in BridgeType /\ DOMAIN b = DOMAIN data.bridge /\ b["br_guest_turris"] = a["guest"]
      <3>1. DOMAIN data.bridge \cup {"br_guest_turris"} = DOMAIN data.bridge
        BY <1>1
      <3>2. "br_guest_turris" \in Sections
        BY SectionNames
      <3>3. /\ b \in BridgeType /\ b["br_guest_turris"] = a["guest"]
            /\ DOMAIN b = DOMAIN data.bridge \cup {"br_guest_turris"}
        BY <2>1, <3>2, <1>2, WithBridge, Zenon
      <3> QED  BY <3>1, <3>3
    <2>3. guest = [data EXCEPT !.bridge = b]
      BY SectionNames
    <2> HIDE DEF b, guest
    <2>4. guest \in Conf /\ guest.bridge = b /\ guest.ifname = data.ifname /\ guest.device = data.device
      BY <2>2, <2>3, <1>1 DEF Conf
    <2>5. /\ SameTime(data, guest) /\ SameWan6(data, guest) /\ SameWan(data, guest)
          /\ SameGuest(data, guest)
      BY <2>2, <2>3, <1>1 DEF Conf, SameTime, SameWan6, SameWan, SameGuest
    <2> QED  BY <2>2, <2>4, <2>5, <1>1
  <1>4. d = SetNetwork(data, wan, "lan", a["lan"])
    BY DEF SetNetworks, data
  <1> HIDE DEF guest
  <1>5. /\ wan \in Conf /\ NetworkSet(data, guest, "wan", a["wan"], wan)
        /\ SameTime(guest, wan) /\ SameWan6(guest, wan) /\ SameWan(guest, wan)
        /\ SameGuest(guest, wan)
    BY <1>1, <1>2, <1>3, SetOne
  <1> HIDE DEF wan
  <1>6. /\ d \in Conf /\ NetworkSet(data, wan, "lan", a["lan"], d)
        /\ SameTime(wan, d) /\ SameWan6(wan, d) /\ SameWan(wan, d) /\ SameGuest(wan, d)
    BY <1>1, <1>2, <1>4, <1>5, SetOne
  <1>7. /\ SameTime(c, d) /\ SameWan6(c, d) /\ SameWan(c, d)
        /\ d.guest = TRUE /\ d.limit = FALSE
    BY <1>1, <1>3, <1>5, <1>6 DEF SameTime, SameWan6, SameWan, SameGuest
  <1>8. /\ c.ifname \in [Nets -> SUBSET Ports] /\ c.device \in [Nets -> DeviceType]
        /\ wan.ifname \in [Nets -> SUBSET Ports] /\ wan.device \in [Nets -> DeviceType]
    BY <1>5 DEF Conf
  <1>9. d.ifname["wan"] = {} /\ d.ifname["lan"] = {}
    BY <1>3, <1>5, <1>6, <1>8 DEF NetworkSet, Nets
  <1>10. /\ data.device["wan"] = c.device["wan"] /\ data.device["lan"] = c.device["lan"]
         /\ data.device["guest"] = Bridge("guest")
    BY <1>1, <1>8 DEF Nets
  <1>11. /\ wan.device["lan"] = c.device["lan"] /\ wan.device["guest"] = Bridge("guest")
         /\ d.device["guest"] = Bridge("guest") /\ d.device["wan"] = wan.device["wan"]
    BY <1>3, <1>5, <1>6, <1>8, <1>10 DEF NetworkSet, Nets
  <1>12. d.device["lan"] = Bridge("lan")
    <2>1. CASE "br_lan" \in DOMAIN data.bridge
      <3>1. c.device["lan"] = Bridge("lan")
        BY <2>1, <1>1 DEF BridgesFit
      <3> QED  BY <2>1, <3>1, <1>6, <1>11, SectionNames DEF NetworkSet
    <2>2. CASE "br_lan" \notin DOMAIN data.bridge
      BY <2>2, <1>2, <1>6, <1>8, SectionNames DEF NetworkSet, Chosen
    <2> QED  BY <2>1, <2>2
  <1>13. /\ "br_lan" \in DOMAIN d.bridge /\ d.bridge["br_lan"] = a["lan"]
         /\ "br_guest_turris" \in DOMAIN d.bridge /\ d.bridge["br_guest_turris"] = a["guest"]
    <2>1. "br_guest_turris" \in DOMAIN wan.bridge /\ wan.bridge["br_guest_turris"] = a["guest"]
      BY <1>1, <1>3, <1>5, SectionNames DEF NetworkSet
    <2> QED  BY <2>1, <1>6, SectionNames DEF NetworkSet
  <1>14. "cfg_lan" \notin DOMAIN d.bridge
    <2>1. CASE c.device["lan"] = Bridge("lan")
      BY <2>1, <1>6, <1>10, SectionNames DEF NetworkSet
    <2>2. CASE c.device["lan"] # Bridge("lan")
      <3>1. "cfg_lan" \notin DOMAIN wan.bridge
        BY <2>2, <1>1, <1>3, <1>5, SectionNames DEF NetworkSet, BridgesFit
      <3> QED  BY <3>1, <1>6, SectionNames DEF NetworkSet
    <2> QED  BY <2>1, <2>2
  <1>15. /\ "br_wan" \in DOMAIN d.bridge <=> "br_wan" \in DOMAIN wan.bridge
         /\ "br_wan" \in DOMAIN wan.bridge <=> Cardinality(a["wan"]) > 1
    BY <1>5, <1>6, SectionNames DEF NetworkSet
  <1>16. CASE Cardinality(a["wan"]) > 1
    <2>1. d.device["wan"].base = "br-wan"
      <3>1. CASE "br_wan" \in DOMAIN data.bridge
        <4>1. c.device["wan"].base = "br-wan"
          BY <3>1, <1>1 DEF BridgesFit
        <4> QED  BY <4>1, <3>1, <1>16, <1>3, <1>5, <1>10, <1>11, SectionNames DEF NetworkSet
      <3>2. CASE "br_wan" \notin DOMAIN data.bridge
        <4>1. wan.device["wan"] = Bridge("wan")
          BY <3>2, <1>16, <1>1, <1>2, <1>3, <1>5, <1>8, SectionNames DEF NetworkSet, Chosen
        <4> QED  BY <4>1, <1>11, BridgeNames
      <3> QED  BY <3>1, <3>2
    <2> QED  BY <2>1, <1>6, <1>7, <1>9, <1>11, <1>12, <1>13, <1>14, <1>16 DEF NetworksFit, BridgesFit
  <1>17. CASE ~(Cardinality(a["wan"]) > 1)
    <2>1. d.device["wan"] = IF a["wan"] = {} THEN NoDevice ELSE Dev(CHOOSE p \in a["wan"] : TRUE)
      BY <1>17, <1>1, <1>3, <1>5, <1>8, <1>11, SectionNames DEF NetworkSet, Chosen, Nets
    <2>2. a["wan"] # {} => a["wan"] = {d.device["wan"].base} /\ d.device["wan"].vlan = FALSE
      <3>1. ASSUME a["wan"] # {}
            PROVE  a["wan"] = {d.device["wan"].base} /\ d.device["wan"].vlan = FALSE
        <4>1. a["wan"] = {CHOOSE p \in a["wan"] : TRUE}
          BY <3>1, <1>2, <1>17, OnePort
        <4>2. d.device["wan"] = [base |-> CHOOSE p \in a["wan"] : TRUE, vlan |-> FALSE]
          BY <3>1, <2>1 DEF Dev
        <4> QED  BY <4>1, <4>2
      <3> QED  BY <3>1
    <2>3. "br_wan" \notin DOMAIN d.bridge
      BY <1>15, <1>17
    <2> QED  BY <2>1, <2>2, <2>3, <1>6, <1>7, <1>9, <1>11, <1>12, <1>13, <1>14, <1>17
             DEF NetworksFit, BridgesFit
  <1> QED  BY <1>16, <1>17

----------------------------------------------------------------------------
\* The WAN: a configuration of OpenWrt 19.07 is migrated, the type of IPv6 and
\* its options are written, then the device and the uplink.

LEMMA Migrate ==
  ASSUME NEW c \in Conf, BridgesFit(c), NEW d, d = _migrate_old_config(c)
  PROVE  /\ d \in Conf /\ BridgesFit(d)
         /\ c.ifname["wan"] = {} => d = c
         /\ SameTime(c, d) /\ SameWan6(c, d) /\ SameGuest(c, d)
  <1>1. CASE c.ifname["wan"] = {}
    BY <1>1 DEF _migrate_old_config, SameTime, SameWan6, SameGuest
  <1>2. CASE c.ifname["wan"] # {}
    <2> DEFINE p == CHOOSE q \in c.ifname["wan"] : TRUE
               v == [c.device EXCEPT !["wan"] = Dev(p)]
               i == [c.ifname EXCEPT !["wan"] = {}]
    <2>1. /\ c.ifname \in [Nets -> SUBSET Ports] /\ c.device \in [Nets -> DeviceType]
          /\ "wan" \in Nets /\ "lan" \in Nets
      BY DEF Conf, Nets
    <2>2. p \in Ports
      BY <1>2, <2>1
    <2>3. v \in [Nets -> DeviceType] /\ i \in [Nets -> SUBSET Ports] /\ v["lan"] = c.device["lan"]
      BY <2>1, <2>2 DEF Dev, DeviceType
    <2>4. d = [c EXCEPT !.device = v, !.ifname = i]
      BY <1>2 DEF _migrate_old_config
    <2> HIDE DEF v, i
    <2>5. /\ d \in Conf /\ d.device = v /\ d.ifname = i /\ d.bridge = c.bridge
          /\ SameTime(c, d) /\ SameWan6(c, d) /\ SameGuest(c, d)
      BY <2>3, <2>4 DEF Conf, SameTime, SameWan6, SameGuest
    <2> QED  BY <2>3, <2>5, <1>2 DEF BridgesFit
  <1> QED  BY <1>1, <1>2

\* The options of a type of IPv6 once they are written
Wan6Written(c, six, given) ==
  LET clean == KeptOptions(c.options, six)
      optional(o) == IF given THEN {o} ELSE {}
  IN CASE six = "static" -> clean \cup {"ip6addr", "ip6prefix", "ip6gw"}
       [] six = "dhcpv6" -> (clean \ {"clientid"}) \cup optional("clientid")
       [] six = "6to4"   -> (clean \ {"ipaddr"}) \cup optional("ipaddr")
       [] six = "6in4"   -> (clean \ {"ip6prefix", "tunnelid"})
                              \cup {"peeraddr", "ip6addr"}
                              \cup optional("ip6prefix") \cup optional("tunnelid")
       [] OTHER          -> clean \ {"ip6prefix", "ip6addr", "ip6gw"}

LEMMA Wan6OptionsFit ==
  ASSUME NEW c \in Conf, NEW six \in Wan6Types, NEW given
  PROVE  /\ Wan6Written(c, six, given) \subseteq Wan6Options
         /\ Wan6Written(c, six, given) \cap {"peeraddr", "tunnelid"} # {} => six = "6in4"
         /\ Wan6Written(c, six, given) \cap {"ip6addr", "ip6prefix"} # {} => six \in {"6in4", "static"}
         /\ six = "static" => {"ip6addr", "ip6prefix", "ip6gw"} \subseteq Wan6Written(c, six, given)
         /\ six = "6in4" => "peeraddr" \in Wan6Written(c, six, given)
  <1> DEFINE clean == KeptOptions(c.options, six)
             optional(o) == IF given THEN {o} ELSE {}
  <1>1. /\ clean \subseteq Wan6Options /\ "ip6prefix" \notin clean
        /\ six # "6in4" => clean \cap {"tunnelid", "peeraddr", "ip6addr"} = {}
    BY DEF Conf, KeptOptions
  <1>2. \A o : optional(o) \subseteq {o}
    OBVIOUS
  <1> HIDE DEF clean, optional
  <1>3. CASE six = "static"
    <2>1. Wan6Written(c, six, given) = clean \cup {"ip6addr", "ip6prefix", "ip6gw"}
      BY <1>3 DEF Wan6Written, clean
    <2> QED  BY <2>1, <1>1, <1>3 DEF Wan6Options
  <1>4. CASE six = "dhcpv6"
    <2>1. Wan6Written(c, six, given) = (clean \ {"clientid"}) \cup optional("clientid")
      BY <1>4 DEF Wan6Written, clean, optional
    <2>2. optional("clientid") \subseteq {"clientid"}
      BY <1>2
    <2> QED  BY <2>1, <2>2, <1>1, <1>4 DEF Wan6Options
  <1>5. CASE six = "6to4"
    <2>1. Wan6Written(c, six, given) = (clean \ {"ipaddr"}) \cup optional("ipaddr")
      BY <1>5 DEF Wan6Written, clean, optional
    <2>2. optional("ipaddr") \subseteq {"ipaddr"}
      BY <1>2
    <2> QED  BY <2>1, <2>2, <1>1, <1>5 DEF Wan6Options
  <1>6. CASE six = "6in4"
    <2>1. Wan6Written(c, six, given) =
            (clean \ {"ip6prefix", "tunnelid"}) \cup {"peeraddr", "ip6addr"}
              \cup optional("ip6prefix") \cup optional("tunnelid")
      BY <1>6 DEF Wan6Written, clean, optional
    <2> QED  BY <2>1, <1>1, <1>2, <1>6 DEF Wan6Options
  <1>7. CASE six = "none"
    <2>1. Wan6Written(c, six, given) = clean \ {"ip6prefix", "ip6addr", "ip6gw"}
      BY <1>7 DEF Wan6Written, clean, optional
    <2> QED  BY <2>1, <1>1, <1>7 DEF Wan6Options
  <1> QED  BY <1>3, <1>4, <1>5, <1>6, <1>7 DEF Wan6Types

LEMMA WriteWan6 ==
  ASSUME NEW c \in Conf, NEW six \in Wan6Types, NEW given,
         NEW d, d = SetWan6(c, six, given)
  PROVE  /\ d \in Conf /\ TunnelFits(d)
         /\ d.ifname = c.ifname /\ d.device = c.device /\ d.bridge = c.bridge
         /\ SameTime(c, d) /\ SameGuest(c, d)
  <1> DEFINE r == (c.rules \ (Tunnels \ {six})) \cup ({six} \cap Tunnels)
             o == Wan6Written(c, six, given)
  <1>1. r \subseteq Tunnels /\ r = {six} \cap Tunnels
    BY DEF Conf
  <1>2. d = [c EXCEPT !.wan6 = six, !.rules = r, !.options = o]
    BY DEF SetWan6, Wan6Written
  <1>3. /\ o \subseteq Wan6Options
        /\ o \cap {"peeraddr", "tunnelid"} # {} => six = "6in4"
        /\ o \cap {"ip6addr", "ip6prefix"} # {} => six \in {"6in4", "static"}
        /\ six = "static" => {"ip6addr", "ip6prefix", "ip6gw"} \subseteq o
        /\ six = "6in4" => "peeraddr" \in o
    BY Wan6OptionsFit
  <1> HIDE DEF r, o
  <1>4. /\ d \in Conf /\ d.wan6 = six /\ d.rules = r /\ d.options = o
    BY <1>1, <1>2, <1>3 DEF Conf
  <1>5. /\ d.ifname = c.ifname /\ d.device = c.device /\ d.bridge = c.bridge
        /\ SameTime(c, d) /\ SameGuest(c, d)
    BY <1>2 DEF Conf, SameTime, SameGuest
  <1> QED  BY <1>1, <1>3, <1>4, <1>5 DEF TunnelFits

\* SetWanDevice(c, vlan) is d.
DeviceSet(c, vlan, d) ==
  /\ d \in Conf /\ d.ifname = c.ifname /\ d.bridge = c.bridge
  /\ d.device["lan"] = c.device["lan"] /\ d.device["guest"] = c.device["guest"]
  /\ d.device["wan"].base = c.device["wan"].base
  /\ vlan # "set" /\ c.device["wan"].vlan = FALSE => d.device["wan"] = c.device["wan"]
  /\ SameTime(c, d) /\ SameWan6(c, d) /\ SameGuest(c, d)

LEMMA WriteDevice ==
  ASSUME NEW c \in Conf, NEW vlan \in {"keep", "set", "clear"},
         NEW d, d = SetWanDevice(c, vlan)
  PROVE  DeviceSet(c, vlan, d)
  <1> DEFINE w == [c.device["wan"] EXCEPT !.vlan = (vlan = "set")]
             v == IF vlan = "keep" THEN c.device ELSE [c.device EXCEPT !["wan"] = w]
  <1>1. /\ c.device \in [Nets -> DeviceType] /\ c.device["wan"] \in DeviceType
        /\ "wan" \in Nets /\ "lan" \in Nets /\ "guest" \in Nets
    BY DEF Conf, Nets
  <1>2. /\ w \in DeviceType /\ w.base = c.device["wan"].base
        /\ vlan # "set" /\ c.device["wan"].vlan = FALSE => w = c.device["wan"]
    <2>1. (vlan = "set") \in BOOLEAN
      OBVIOUS
    <2> QED  BY <2>1, <1>1 DEF DeviceType
  <1>3. d = [c EXCEPT !.device = v, !.proto = "configured", !.zone = "wired"]
    <2>1. CASE vlan = "keep"
      BY <2>1 DEF SetWanDevice
    <2>2. CASE vlan # "keep"
      BY <2>2, <1>1 DEF SetWanDevice
    <2> QED  BY <2>1, <2>2
  <1> HIDE DEF w
  <1>4. /\ v \in [Nets -> DeviceType]
        /\ v["lan"] = c.device["lan"] /\ v["guest"] = c.device["guest"]
        /\ v["wan"] = c.device["wan"] \/ v["wan"] = w
    <2>1. w \in DeviceType
      BY <1>2
    <2>2. CASE vlan = "keep"
      BY <2>2, <1>1
    <2>3. CASE vlan # "keep"
      BY <2>1, <2>3, <1>1
    <2> QED  BY <2>2, <2>3
  <1> HIDE DEF v
  <1>5. d \in Conf /\ d.device = v /\ d.ifname = c.ifname /\ d.bridge = c.bridge
    BY <1>3, <1>4 DEF Conf
  <1>6. SameTime(c, d) /\ SameWan6(c, d) /\ SameGuest(c, d)
    BY <1>3 DEF Conf, SameTime, SameWan6, SameGuest
  <1> QED  BY <1>2, <1>4, <1>5, <1>6 DEF DeviceSet

\* A transaction of wan.update_settings from c to d
LEMMA SetWan ==
  ASSUME NEW c \in Conf, BridgesFit(c), NEW six \in Wan6Types, NEW given,
         NEW vlan \in {"keep", "set", "clear"}, NEW m, NEW d,
         m = SetWan6(_migrate_old_config(c), six, given), d = SetWanDevice(m, vlan)
  PROVE  /\ d \in Conf /\ TunnelFits(d) /\ BridgesFit(d)
         /\ SameTime(c, d) /\ SameGuest(c, d)
         /\ \A a : NetworksFit(c, a) /\ m.device["wan"] # NoDevice /\ vlan # "set"
                    => NetworksFit(d, a)
  <1> DEFINE n == _migrate_old_config(c)
  <1>1. /\ n \in Conf /\ BridgesFit(n)
        /\ c.ifname["wan"] = {} => n = c
        /\ SameTime(c, n) /\ SameGuest(c, n)
    BY Migrate
  <1> HIDE DEF n
  <1>2. m = SetWan6(n, six, given)
    BY DEF n
  <1>3. /\ m \in Conf /\ TunnelFits(m)
        /\ m.ifname = n.ifname /\ m.device = n.device /\ m.bridge = n.bridge
        /\ SameTime(n, m) /\ SameGuest(n, m)
    BY <1>1, <1>2, WriteWan6
  <1>4. DeviceSet(m, vlan, d)
    BY <1>3, WriteDevice
  <1>5. TunnelFits(d) /\ BridgesFit(d)
    BY <1>1, <1>3, <1>4 DEF TunnelFits, BridgesFit, SameWan6, DeviceSet
  <1>6. SameTime(c, d) /\ SameGuest(c, d)
    BY <1>1, <1>3, <1>4 DEF SameTime, SameGuest, DeviceSet
  <1>7. ASSUME NEW a, NetworksFit(c, a), m.device["wan"] # NoDevice, vlan # "set"
        PROVE  NetworksFit(d, a)
    <2>1. n = c
      BY <1>1, <1>7 DEF NetworksFit
    <2>2. a["wan"] # {} \/ Cardinality(a["wan"]) > 1
      BY <2>1, <1>3, <1>7 DEF NetworksFit
    <2> QED  BY <2>1, <2>2, <1>3, <1>4, <1>7 DEF NetworksFit, DeviceSet
  <1> QED  BY <1>4, <1>5, <1>6, <1>7 DEF DeviceSet

----------------------------------------------------------------------------
\* The inductive invariant

Todo ==
  {Idle}
  \cup [at : {"sqm"}, enable : BOOLEAN]
  \cup [at : {"restart", "default"}]
  \cup [at : {"import", "restore"}, backup : Wireless, conf : Conf]
  \cup [at : {"sysntpd", "domain"}, ntp : BOOLEAN, country : Countries]

ThreadsOK == thread \in [Threads -> Todo]

\* What networks.update_settings was last asked for is in the files.
AskedFits == asked # NotAsked => NetworksFit(conf, asked)

\* A backup of reset() fits the settings it was made with.
BackupsFit ==
  \A t \in Threads : thread[t].at \in {"import", "restore"} =>
    /\ OnlyOwnGuests(thread[t].backup)
    /\ "reset" \in crossed \/ GuestFits(thread[t].backup, thread[t].conf)

\* Until the network is restarted, it is about to be or a thread will ask for it.
RestartDue ==
  unapplied => restart \/ \E t \in Threads : thread[t].at \in {"sqm", "restart"}

\* Unless updates overlap, one thread at most has the service sqm to switch, and
\* to what is saved.
LimitDue ==
  "guest" \notin crossed =>
    /\ \A t, u \in Threads : thread[t].at = "sqm" /\ thread[u].at = "sqm" => t = u
    /\ \A t \in Threads : thread[t].at = "sqm" => (conf.limit => thread[t].enable)
    /\ (conf.limit => sqm) \/ \E t \in Threads : thread[t].at = "sqm"

\* The same for sysntpd and, after it, the regulatory domain
TimeDue ==
  "time" \notin crossed =>
    /\ \A t, u \in Threads :
         thread[t].at \in {"sysntpd", "domain"} /\ thread[u].at \in {"sysntpd", "domain"} => t = u
    /\ \A t \in Threads : thread[t].at \in {"sysntpd", "domain"} =>
         /\ thread[t].country = conf.country
         /\ IF thread[t].at = "sysntpd" THEN thread[t].ntp = conf.ntp ELSE ntpd = conf.ntp
    /\ \/ ntpd = conf.ntp /\ domain = conf.country
       \/ \E t \in Threads : thread[t].at \in {"sysntpd", "domain"}

IInv ==
  /\ TypeOK
  /\ ThreadsOK
  /\ TunnelFollowsType
  /\ BridgesFit(conf)
  /\ AskedFits
  /\ OnlyOwnGuests(wireless)
  /\ GuestWifiNeedsGuest
  /\ BackupsFit
  /\ RestartDue
  /\ LimitDue
  /\ TimeDue

----------------------------------------------------------------------------
\* The threads

LEMMA TodoFields ==
  ASSUME NEW r \in Todo
  PROVE  /\ r.at = "sqm" => r.enable \in BOOLEAN
         /\ r.at \in {"import", "restore"} => r.backup \in Wireless /\ r.conf \in Conf
         /\ r.at \in {"import", "restore"} => r \in [at : {"import", "restore"}, backup : Wireless, conf : Conf]
         /\ r.at \in {"sysntpd", "domain"} => r.ntp \in BOOLEAN /\ r.country \in Countries
         /\ r.at \in {"sysntpd", "domain"} =>
              r \in [at : {"sysntpd", "domain"}, ntp : BOOLEAN, country : Countries]
  <1>1. CASE r = Idle
    BY <1>1 DEF Idle
  <1>2. CASE r \in [at : {"sqm"}, enable : BOOLEAN]
    BY <1>2
  <1>3. CASE r \in [at : {"restart", "default"}]
    BY <1>3
  <1>4. CASE r \in [at : {"import", "restore"}, backup : Wireless, conf : Conf]
    BY <1>4
  <1>5. CASE r \in [at : {"sysntpd", "domain"}, ntp : BOOLEAN, country : Countries]
    BY <1>5
  <1> QED  BY <1>1, <1>2, <1>3, <1>4, <1>5 DEF Todo

\* A failed import goes on to the restore with the same backup.
LEMMA ImportFails ==
  ASSUME NEW r \in Todo, r.at = "import", NEW next, next = [r EXCEPT !.at = "restore"]
  PROVE  /\ next \in Todo /\ next.at = "restore"
         /\ next.backup = r.backup /\ next.conf = r.conf
  <1>1. r \in [at : {"import", "restore"}, backup : Wireless, conf : Conf]
    BY TodoFields
  <1>2. /\ next \in [at : {"import", "restore"}, backup : Wireless, conf : Conf]
        /\ next.at = "restore" /\ next.backup = r.backup /\ next.conf = r.conf
    BY <1>1
  <1> QED  BY <1>2 DEF Todo

\* After sysntpd comes the regulatory domain of the same request.
LEMMA DomainNext ==
  ASSUME NEW r \in Todo, r.at = "sysntpd", NEW next, next = [r EXCEPT !.at = "domain"]
  PROVE  /\ next \in Todo /\ next.at = "domain"
         /\ next.ntp = r.ntp /\ next.country = r.country
  <1>1. r \in [at : {"sysntpd", "domain"}, ntp : BOOLEAN, country : Countries]
    BY TodoFields
  <1>2. /\ next \in [at : {"sysntpd", "domain"}, ntp : BOOLEAN, country : Countries]
        /\ next.at = "domain" /\ next.ntp = r.ntp /\ next.country = r.country
    BY <1>1
  <1> QED  BY <1>2 DEF Todo

\* What a thread that answers a request at once has to do next
LEMMA TodoMembers ==
  /\ Idle \in Todo /\ [at |-> "restart"] \in Todo /\ [at |-> "default"] \in Todo
  /\ \A e \in BOOLEAN : [at |-> "sqm", enable |-> e] \in Todo
  /\ \A w \in Wireless, c \in Conf : [at |-> "import", backup |-> w, conf |-> c] \in Todo
  /\ \A n \in BOOLEAN, c \in Countries : [at |-> "sysntpd", ntp |-> n, country |-> c] \in Todo
  BY DEF Todo

LEMMA ThreadsStep ==
  ASSUME IInv, Next, conf' \in Conf
  PROVE  ThreadsOK'
  <1>t. thread \in [Threads -> Todo] /\ conf \in Conf /\ wireless \in Wireless
    BY DEF IInv, ThreadsOK, TypeOK
  <1>n. ASSUME NEW t \in Threads, NEW next \in Todo, Then(t, next)
        PROVE  ThreadsOK'
    BY <1>n, <1>t DEF Then, ThreadsOK
  <1>s. ASSUME thread' = thread
        PROVE  ThreadsOK'
    BY <1>s, <1>t DEF ThreadsOK
  <1>1. CASE NetworkRestarts
    BY <1>1, <1>s DEF NetworkRestarts
  <1>2. ASSUME NEW t \in Threads, NEW enabled \in BOOLEAN, NEW qos \in BOOLEAN,
               GuestUpdate(t, enabled, qos)
        PROVE  ThreadsOK'
    <2>1. conf'.limit \in BOOLEAN
      BY DEF Conf
    <2>2. [at |-> "sqm", enable |-> conf'.limit] \in Todo
      BY <2>1, TodoMembers
    <2> QED  BY <1>2, <2>2, <1>n DEF GuestUpdate
  <1>3. ASSUME NEW t \in Threads, NEW ok, GuestServices(t, ok) \/ TimeDomain(t, ok)
        PROVE  ThreadsOK'
    BY <1>3, <1>n, TodoMembers DEF GuestServices, TimeDomain
  <1>4. ASSUME NEW t \in Threads,
               RestartNetwork(t) \/ WanDefaultRead(t) \/ ResetRestore(t)
        PROVE  ThreadsOK'
    BY <1>4, <1>n, TodoMembers DEF RestartNetwork, WanDefaultRead, ResetRestore
  <1>5. ASSUME NEW t \in Threads, NEW a, NetworksUpdate(t, a) \/ NetworksRefused(t, a)
        PROVE  ThreadsOK'
    BY <1>5, <1>n, <1>s, TodoMembers DEF NetworksUpdate, NetworksRefused
  <1>6. ASSUME NEW t \in Threads, NEW six, NEW given, NEW vlan,
               WanTransaction(t, six, given, vlan)
        PROVE  ThreadsOK'
    BY <1>6, <1>n, TodoMembers DEF WanTransaction
  <1>7. ASSUME NEW t \in Threads, NEW s, WifiUpdate(t, s)
        PROVE  ThreadsOK'
    BY <1>7, <1>n, TodoMembers DEF WifiUpdate
  <1>8. ASSUME NEW t \in Threads, WifiRefused(t)
        PROVE  ThreadsOK'
    BY <1>8, <1>s DEF WifiRefused
  <1>9. ASSUME NEW t \in Threads, ResetExport(t)
        PROVE  ThreadsOK'
    BY <1>9, <1>n, <1>t, TodoMembers DEF ResetExport
  <1>10. ASSUME NEW t \in Threads, NEW k, ResetDetect(t, k)
         PROVE  ThreadsOK'
    BY <1>10, <1>n, TodoMembers DEF ResetDetect
  <1>11. ASSUME NEW t \in Threads, ResetFails(t)
         PROVE  ThreadsOK'
    <2>1. thread[t] \in Todo /\ thread[t].at = "import"
      BY <1>11, <1>t DEF ResetFails, Continue
    <2>2. [thread[t] EXCEPT !.at = "restore"] \in Todo
      BY <2>1, ImportFails
    <2> QED  BY <1>11, <2>2, <1>n DEF ResetFails
  <1>12. ASSUME NEW t \in Threads, NEW country \in Countries, NEW ntp \in BOOLEAN,
                TimeUpdate(t, country, ntp)
         PROVE  ThreadsOK'
    BY <1>12, <1>n, TodoMembers DEF TimeUpdate
  <1>13. ASSUME NEW t \in Threads, NEW done, NEW ok, TimeServices(t, done, ok)
         PROVE  ThreadsOK'
    <2>1. thread[t] \in Todo /\ thread[t].at = "sysntpd"
      BY <1>13, <1>t DEF TimeServices, Continue
    <2>2. [thread[t] EXCEPT !.at = "domain"] \in Todo
      BY <2>1, DomainNext
    <2>3. CASE ok
      BY <1>13, <2>2, <2>3, <1>n DEF TimeServices
    <2>4. CASE ~ok
      BY <1>13, <2>4, <1>n, TodoMembers DEF TimeServices
    <2> QED  BY <2>3, <2>4
  <1> QED  BY <1>1, <1>2, <1>3, <1>4, <1>5, <1>6, <1>7, <1>8, <1>9, <1>10, <1>11, <1>12, <1>13
           DEF Next, WanUpdate, WanDefault

----------------------------------------------------------------------------
\* The files network, firewall, sqm, system and resolver

\* A step of an action leaves them as they are, or is the transaction of one
\* of the modules.
Keeps == conf' = conf /\ asked' = asked
GuestWrites(enabled, qos) == conf' = set_guest_network(conf, enabled, qos) /\ asked' = asked
NetworksWrites(a) ==
  NamesAllPorts(a) /\ conf' = SetNetworks(conf, a) /\ asked' = [n \in Nets |-> a[n]]
WanWrites(six, given, vlan) ==
  LET m == SetWan6(_migrate_old_config(conf), six, given)
  IN /\ m.device["wan"] # NoDevice
     /\ conf' = SetWanDevice(m, vlan)
     /\ asked' = IF vlan = "set" THEN NotAsked ELSE asked
TimeWrites(country, ntp) == conf' = [conf EXCEPT !.country = country, !.ntp = ntp] /\ asked' = asked

LEMMA Writers ==
  ASSUME Next
  PROVE  \/ Keeps
         \/ \E enabled, qos \in BOOLEAN : GuestWrites(enabled, qos)
         \/ \E a \in NetworkRequests : NetworksWrites(a)
         \/ \E six \in Wan6Types, given \in BOOLEAN, vlan \in {"keep", "set", "clear"} :
              WanWrites(six, given, vlan)
         \/ \E country \in Countries, ntp \in BOOLEAN : TimeWrites(country, ntp)
  <1> DEFINE Goal ==
         \/ Keeps
         \/ \E enabled, qos \in BOOLEAN : GuestWrites(enabled, qos)
         \/ \E a \in NetworkRequests : NetworksWrites(a)
         \/ \E six \in Wan6Types, given \in BOOLEAN, vlan \in {"keep", "set", "clear"} :
              WanWrites(six, given, vlan)
         \/ \E country \in Countries, ntp \in BOOLEAN : TimeWrites(country, ntp)
  <1>1. CASE NetworkRestarts
    BY <1>1 DEF NetworkRestarts, Keeps
  <1>2. ASSUME NEW t \in Threads, NEW enabled \in BOOLEAN, NEW qos \in BOOLEAN,
               GuestUpdate(t, enabled, qos)
        PROVE  Goal
    BY <1>2 DEF GuestUpdate, GuestWrites
  <1>3. ASSUME NEW t \in Threads, NEW ok, GuestServices(t, ok) \/ TimeDomain(t, ok)
        PROVE  Keeps
    BY <1>3 DEF GuestServices, TimeDomain, Keeps
  <1>4. ASSUME NEW t \in Threads,
               \/ RestartNetwork(t) \/ WanDefaultRead(t) \/ ResetRestore(t)
               \/ WifiRefused(t) \/ ResetExport(t) \/ ResetFails(t)
        PROVE  Keeps
    BY <1>4 DEF RestartNetwork, WanDefaultRead, ResetRestore, WifiRefused, ResetExport, ResetFails, Keeps
  <1>5. ASSUME NEW t \in Threads, NEW a \in NetworkRequests,
               NetworksUpdate(t, a) \/ NetworksRefused(t, a)
        PROVE  Goal
    BY <1>5 DEF NetworksUpdate, NetworksRefused, NetworksWrites, Keeps
  <1>6. ASSUME NEW t \in Threads, NEW six \in Wan6Types, NEW given \in BOOLEAN,
               NEW vlan \in {"keep", "set", "clear"}, WanTransaction(t, six, given, vlan)
        PROVE  Goal
    <2>1. Keeps \/ WanWrites(six, given, vlan)
      BY <1>6 DEF WanTransaction, WanWrites, Keeps
    <2> QED  BY <2>1
  <1>7. ASSUME NEW t \in Threads, NEW s, WifiUpdate(t, s)
        PROVE  Goal
    <2>1. conf' = conf \/ conf' = set_guest_network(conf, TRUE, FALSE)
      BY <1>7 DEF WifiUpdate, enable_guest_network
    <2>2. asked' = asked
      BY <1>7 DEF WifiUpdate
    <2>3. Keeps \/ GuestWrites(TRUE, FALSE)
      BY <2>1, <2>2 DEF Keeps, GuestWrites
    <2> HIDE DEF Keeps, GuestWrites
    <2> QED  BY <2>3, Zenon
  <1>8. ASSUME NEW t \in Threads, NEW k, ResetDetect(t, k)
        PROVE  Keeps
    BY <1>8 DEF ResetDetect, Keeps
  <1>9. ASSUME NEW t \in Threads, NEW country \in Countries, NEW ntp \in BOOLEAN,
               TimeUpdate(t, country, ntp)
        PROVE  Goal
    BY <1>9 DEF TimeUpdate, TimeWrites
  <1>10. ASSUME NEW t \in Threads, NEW done, NEW ok, TimeServices(t, done, ok)
         PROVE  Keeps
    BY <1>10 DEF TimeServices, Keeps
  <1>11. ASSUME NEW t \in Threads, WanDefault(t)
         PROVE  Goal
    <2>1. WanTransaction(t, "dhcpv6", FALSE, "keep")
      BY <1>11 DEF WanDefault
    <2>2. "dhcpv6" \in Wan6Types /\ FALSE \in BOOLEAN /\ "keep" \in {"keep", "set", "clear"}
      BY DEF Wan6Types
    <2>3. Keeps \/ WanWrites("dhcpv6", FALSE, "keep")
      BY <2>1 DEF WanTransaction, WanWrites, Keeps
    <2> HIDE DEF Keeps, WanWrites
    <2> QED  BY <2>2, <2>3, Zenon
  <1> HIDE DEF Keeps
  <1> QED  BY <1>1, <1>2, <1>3, <1>4, <1>5, <1>6, <1>7, <1>8, <1>9, <1>10, <1>11
           DEF Next, WanUpdate

LEMMA ConfStep ==
  ASSUME IInv, Next
  PROVE  /\ conf' \in Conf /\ asked' \in [Nets -> SUBSET Ports]
         /\ TunnelFits(conf') /\ BridgesFit(conf') /\ AskedFits'
  <1>1. /\ conf \in Conf /\ asked \in [Nets -> SUBSET Ports] /\ TunnelFits(conf)
        /\ BridgesFit(conf)
        /\ asked # NotAsked => NetworksFit(conf, asked)
    BY DEF IInv, TypeOK, TunnelFollowsType, AskedFits
  <1>2. CASE Keeps
    BY <1>1, <1>2 DEF Keeps, AskedFits
  <1>3. ASSUME NEW enabled \in BOOLEAN, NEW qos \in BOOLEAN, GuestWrites(enabled, qos)
        PROVE  /\ conf' \in Conf /\ asked' \in [Nets -> SUBSET Ports]
               /\ TunnelFits(conf') /\ BridgesFit(conf') /\ AskedFits'
    <2>1. GuestSet(conf, enabled, qos, conf')
      BY <1>1, <1>3, SetGuest DEF GuestWrites
    <2>2. /\ conf'.device["wan"] = conf.device["wan"] /\ conf'.device["lan"] = conf.device["lan"]
          /\ conf'.device["guest"] = Bridge("guest")
      BY <1>1, <2>1 DEF GuestSet, Conf, Nets
    <2>3. /\ conf' \in Conf /\ conf'.ifname = conf.ifname
          /\ DOMAIN conf'.bridge = DOMAIN conf.bridge \cup {"br_guest_turris"}
          /\ \A x \in DOMAIN conf.bridge : conf'.bridge[x] = conf.bridge[x]
      BY <2>1 DEF GuestSet
    <2>4. TunnelFits(conf')
      BY <1>1, <2>1 DEF GuestSet, SameWan6, TunnelFits
    <2>5. BridgesFit(conf')
      BY <1>1, <2>2, <2>3 DEF BridgesFit
    <2>6. asked' = asked
      BY <1>3 DEF GuestWrites
    <2>7. AskedFits'
      <3>1. ASSUME NetworksFit(conf, asked)
            PROVE  NetworksFit(conf', asked)
        BY <3>1, <2>2, <2>3 DEF NetworksFit
      <3> QED  BY <3>1, <2>6, <1>1 DEF AskedFits, NotAsked
    <2> QED  BY <2>3, <2>4, <2>5, <2>6, <2>7, <1>1
  <1>4. ASSUME NEW a \in NetworkRequests, NetworksWrites(a)
        PROVE  /\ conf' \in Conf /\ asked' \in [Nets -> SUBSET Ports]
               /\ TunnelFits(conf') /\ BridgesFit(conf') /\ AskedFits'
    <2>1. \A n \in Nets : n \in DOMAIN a /\ a[n] \in SUBSET Ports
      BY <1>4, NetAssumption DEF NetworksWrites, NamesAllPorts
    <2>2. /\ conf' \in Conf /\ SameWan6(conf, conf')
          /\ BridgesFit(conf') /\ NetworksFit(conf', a)
      BY <1>1, <1>4, <2>1, SetAll DEF NetworksWrites
    <2>3. /\ asked' \in [Nets -> SUBSET Ports]
          /\ asked'["wan"] = a["wan"] /\ asked'["lan"] = a["lan"] /\ asked'["guest"] = a["guest"]
      BY <1>4, <2>1 DEF NetworksWrites, Nets
    <2>4. NetworksFit(conf', asked')
      BY <2>2, <2>3 DEF NetworksFit
    <2> QED  BY <2>2, <2>3, <2>4, <1>1 DEF SameWan6, TunnelFits, AskedFits
  <1>5. ASSUME NEW six \in Wan6Types, NEW given, NEW vlan \in {"keep", "set", "clear"},
               WanWrites(six, given, vlan)
        PROVE  /\ conf' \in Conf /\ asked' \in [Nets -> SUBSET Ports]
               /\ TunnelFits(conf') /\ BridgesFit(conf') /\ AskedFits'
    <2> DEFINE m == SetWan6(_migrate_old_config(conf), six, given)
    <2>1. m.device["wan"] # NoDevice /\ conf' = SetWanDevice(m, vlan)
      BY <1>5 DEF WanWrites
    <2>2. /\ conf' \in Conf /\ TunnelFits(conf') /\ BridgesFit(conf')
          /\ \A a : NetworksFit(conf, a) /\ vlan # "set" => NetworksFit(conf', a)
      <3>1. PICK k : k = m
        OBVIOUS
      <3>2. /\ k = SetWan6(_migrate_old_config(conf), six, given)
            /\ k.device["wan"] # NoDevice /\ conf' = SetWanDevice(k, vlan)
        BY <3>1, <2>1
      <3> QED  BY <1>1, <3>2, SetWan
    <2>3. asked' = IF vlan = "set" THEN NotAsked ELSE asked
      BY <1>5 DEF WanWrites
    <2>4. NotAsked \in [Nets -> SUBSET Ports]
      BY DEF NotAsked
    <2> QED  BY <2>2, <2>3, <2>4, <1>1 DEF AskedFits, NotAsked
  <1>6. ASSUME NEW country \in Countries, NEW ntp \in BOOLEAN, TimeWrites(country, ntp)
        PROVE  /\ conf' \in Conf /\ asked' \in [Nets -> SUBSET Ports]
               /\ TunnelFits(conf') /\ BridgesFit(conf') /\ AskedFits'
    <2>1. /\ conf' \in Conf /\ asked' = asked
          /\ conf'.ifname = conf.ifname /\ conf'.device = conf.device /\ conf'.bridge = conf.bridge
          /\ SameWan6(conf, conf')
      BY <1>1, <1>6 DEF TimeWrites, Conf, SameWan6
    <2>2. TunnelFits(conf') /\ BridgesFit(conf')
      BY <2>1, <1>1 DEF TunnelFits, BridgesFit, SameWan6
    <2>3. NetworksFit(conf, asked) => NetworksFit(conf', asked')
      BY <2>1 DEF NetworksFit
    <2> QED  BY <2>1, <2>2, <2>3, <1>1 DEF AskedFits, NotAsked
  <1> QED  BY <1>2, <1>3, <1>4, <1>5, <1>6, Writers

----------------------------------------------------------------------------
\* The file wireless

LEMMA RadiosFinite ==
  ASSUME NEW w \in Wireless
  PROVE  /\ Cardinality(w.radios) \in Nat /\ w.radios \subseteq Radios /\ Radios \subseteq Nat
         /\ w.guest \in [Radios -> GuestSection]
  <1>1. w.radios \in SUBSET Radios /\ w.guest \in [Radios -> GuestSection]
    BY DEF Wireless
  <1>2. IsFiniteSet(w.radios)
    BY <1>1, NetAssumption, FS_Subset
  <1>3. Cardinality(Radios) \in Nat
    BY NetAssumption, FS_CardinalityType
  <1>4. Radios \subseteq Nat
    BY <1>3, NetAssumption
  <1> QED  BY <1>1, <1>2, <1>4, FS_CardinalityType

\* The guest network is switched off: where the radios are numbered by their
\* place no guest Wi-Fi is left.
LEMMA DisableGuestWifi ==
  ASSUME NEW w \in Wireless, OnlyOwnGuests(w), NEW x, x = set_guest_wifi_disabled(w)
  PROVE  /\ x \in Wireless /\ x.radios = w.radios /\ OnlyOwnGuests(x)
         /\ \A c : GuestFits(x, c)
  <1> DEFINE g == [i \in Radios |-> IF i >= Cardinality(w.radios) THEN w.guest[i]
                                   ELSE IF w.guest[i] \in {"absent", "bare"} THEN "bare" ELSE "off"]
  <1>1. x = [w EXCEPT !.guest = g]
    BY DEF set_guest_wifi_disabled
  <1>2. g \in [Radios -> GuestSection]
    BY RadiosFinite DEF GuestSection
  <1>3. \A i \in Radios : g[i] = "on" => w.guest[i] = "on" /\ i >= Cardinality(w.radios)
    OBVIOUS
  <1> HIDE DEF g
  <1>4. x \in Wireless /\ x.radios = w.radios /\ x.guest = g
    BY <1>1, <1>2 DEF Wireless
  <1>5. OnlyOwnGuests(x)
    BY <1>3, <1>4 DEF OnlyOwnGuests
  <1>6. ASSUME w.radios = 0 .. Cardinality(w.radios) - 1, NEW r \in Radios
        PROVE  g[r] # "on"
    <2>1. SUFFICES ASSUME g[r] = "on"
                   PROVE  FALSE
      OBVIOUS
    <2>2. r \in w.radios /\ r >= Cardinality(w.radios)
      BY <2>1, <1>3 DEF OnlyOwnGuests
    <2> QED  BY <2>2, <1>6, RadiosFinite
  <1> QED  BY <1>4, <1>5, <1>6 DEF GuestFits

\* A request of the Wi-Fi settings: only the radios it names for a guest Wi-Fi
\* get one.
LEMMA UpdateWifi ==
  ASSUME NEW w \in Wireless, OnlyOwnGuests(w), NEW R \in SUBSET Radios,
         NEW s \in [R -> {"off", "wifi", "guest"}], DOMAIN s \subseteq w.radios,
         NEW country \in Countries \cup {Unset},
         NEW x, x = update_regulator_domain(_update_wifi(w, s), country)
  PROVE  /\ x \in Wireless /\ x.radios = w.radios /\ OnlyOwnGuests(x)
         /\ \A r \in Radios : x.guest[r] = "on" =>
              w.guest[r] = "on" \/ \E q \in DOMAIN s : s[q] = "guest"
  <1> DEFINE off == {r \in DOMAIN s : s[r] = "off"}
             g == [r \in Radios |->
                    CASE r \notin DOMAIN s -> w.guest[r]
                      [] r \in off -> IF w.guest[r] = "on" THEN "off" ELSE w.guest[r]
                      [] OTHER -> IF s[r] = "guest" THEN "on" ELSE "off"]
             o == (w.on \cup DOMAIN s) \ off
             u == _update_wifi(w, s)
  <1>1. u = [w EXCEPT !.on = o, !.guest = g]
    BY DEF _update_wifi
  <1>2. w.guest \in [Radios -> GuestSection] /\ w.on \in SUBSET Radios
    BY DEF Wireless
  <1>3. ASSUME NEW r \in Radios
        PROVE  /\ g[r] \in GuestSection
               /\ g[r] = "on" => \/ w.guest[r] = "on"
                                 \/ r \in DOMAIN s /\ s[r] = "guest"
    <2>1. CASE r \notin DOMAIN s
      <3>1. g[r] = w.guest[r]
        BY <2>1
      <3> HIDE DEF g
      <3> QED  BY <3>1, <1>2
    <2>2. CASE r \in off
      <3>1. g[r] = IF w.guest[r] = "on" THEN "off" ELSE w.guest[r]
        BY <2>2
      <3> HIDE DEF g
      <3> QED  BY <3>1, <1>2 DEF GuestSection
    <2>3. CASE r \in DOMAIN s /\ r \notin off
      <3>1. g[r] = IF s[r] = "guest" THEN "on" ELSE "off"
        BY <2>3
      <3> HIDE DEF g
      <3> QED  BY <3>1, <2>3 DEF GuestSection
    <2> QED  BY <2>1, <2>2, <2>3
  <1>4. DOMAIN g = Radios /\ g \in [Radios -> GuestSection] /\ o \in SUBSET Radios
    BY <1>2, <1>3
  <1> HIDE DEF g, o, u
  <1>5. u \in Wireless /\ u.radios = w.radios /\ u.guest = g
    BY <1>1, <1>4 DEF Wireless
  <1>6. x \in Wireless /\ x.radios = w.radios /\ x.guest = g
    <2> DEFINE k == [r \in Radios |-> IF r \in u.radios THEN country ELSE u.country[r]]
    <2>1. x = [u EXCEPT !.country = k]
      BY DEF update_regulator_domain, u
    <2>2. k \in [Radios -> Countries \cup {Unset}]
      BY <1>5 DEF Wireless
    <2> HIDE DEF k
    <2> QED  BY <2>1, <2>2, <1>5 DEF Wireless
  <1>7. OnlyOwnGuests(x)
    BY <1>3, <1>6 DEF OnlyOwnGuests
  <1> QED  BY <1>3, <1>6, <1>7

\* A new country leaves the guest Wi-Fi alone.
LEMMA UpdateCountry ==
  ASSUME NEW w \in Wireless, NEW country \in Countries \cup {Unset},
         NEW x, x = update_regulator_domain(w, country)
  PROVE  x \in Wireless /\ x.radios = w.radios /\ x.guest = w.guest
  <1> DEFINE k == [r \in Radios |-> IF r \in w.radios THEN country ELSE w.country[r]]
  <1>1. x = [w EXCEPT !.country = k]
    BY DEF update_regulator_domain
  <1>2. k \in [Radios -> Countries \cup {Unset}]
    BY DEF Wireless
  <1> HIDE DEF k
  <1> QED  BY <1>1, <1>2 DEF Wireless

\* Radios that were just detected have no guest Wi-Fi.
LEMMA DetectRadios ==
  ASSUME NEW k \in 0 .. Cardinality(Radios), NEW x, x = Detected(k)
  PROVE  /\ x \in Wireless /\ OnlyOwnGuests(x)
         /\ \A c : GuestFits(x, c)
  <1>1. Cardinality(Radios) \in Nat
    BY NetAssumption, FS_CardinalityType
  <1>2. 0 .. k - 1 \in SUBSET Radios
    BY <1>1, NetAssumption
  <1>3. /\ [r \in Radios |-> "absent"] \in [Radios -> GuestSection]
        /\ [r \in Radios |-> Unset] \in [Radios -> Countries \cup {Unset}]
    BY DEF GuestSection
  <1>4. x \in Wireless
    BY <1>2, <1>3 DEF Detected, Wireless
  <1>5. \A r \in Radios : x.guest[r] # "on"
    BY DEF Detected
  <1> QED  BY <1>4, <1>5 DEF OnlyOwnGuests, GuestFits

----------------------------------------------------------------------------
\* The guest network and the time settings after each transaction

LEMMA AfterNetworks ==
  ASSUME IInv, NEW a \in NetworkRequests, NetworksWrites(a)
  PROVE  conf'.guest = TRUE /\ conf'.limit = FALSE /\ SameTime(conf, conf')
  <1>1. conf \in Conf /\ BridgesFit(conf)
    BY DEF IInv, TypeOK
  <1>2. \A n \in Nets : a[n] \in SUBSET Ports
    BY NetAssumption DEF NetworksWrites, NamesAllPorts
  <1> QED  BY <1>1, <1>2, SetAll DEF NetworksWrites

LEMMA AfterWan ==
  ASSUME IInv, NEW six \in Wan6Types, NEW given, NEW vlan \in {"keep", "set", "clear"},
         WanWrites(six, given, vlan)
  PROVE  SameGuest(conf, conf') /\ SameTime(conf, conf')
  <1>1. conf \in Conf /\ BridgesFit(conf)
    BY DEF IInv, TypeOK
  <1>2. PICK m : /\ m = SetWan6(_migrate_old_config(conf), six, given)
                 /\ conf' = SetWanDevice(m, vlan)
    BY DEF WanWrites
  <1> QED  BY <1>1, <1>2, SetWan

LEMMA AfterTime ==
  ASSUME IInv, NEW country, NEW ntp, TimeWrites(country, ntp)
  PROVE  SameGuest(conf, conf') /\ conf'.country = country /\ conf'.ntp = ntp
  <1>1. conf \in Conf
    BY DEF IInv, TypeOK
  <1> QED  BY <1>1 DEF TimeWrites, Conf, SameGuest

\* A step of wan.update_settings writes all or nothing.
LEMMA WanOutcome ==
  ASSUME NEW t \in Threads, NEW six, NEW given, NEW vlan, WanTransaction(t, six, given, vlan)
  PROVE  \/ conf' = conf /\ UNCHANGED unapplied /\ Then(t, Idle)
         \/ WanWrites(six, given, vlan) /\ unapplied' = TRUE /\ Then(t, [at |-> "restart"])
  BY DEF WanTransaction, WanWrites

----------------------------------------------------------------------------
\* Guest Wi-Fi and guest network

\* The step does not forget that updates of this kind crossed.
Remembered(who) == who \in crossed => who \in crossed'

LEMMA RememberedAll ==
  ASSUME crossed \subseteq crossed', NEW who
  PROVE  Remembered(who)
  BY DEF Remembered

LEMMA BackupsKept ==
  ASSUME IInv, Remembered("reset"), NEW t \in Threads, NEW next, Then(t, next),
         next.at \in {"import", "restore"} =>
           /\ OnlyOwnGuests(next.backup)
           /\ "reset" \in crossed' \/ GuestFits(next.backup, next.conf)
  PROVE  BackupsFit'
  <1>1. thread \in [Threads -> Todo] /\ BackupsFit
    BY DEF IInv, ThreadsOK
  <1>2. thread'[t] = next /\ \A u \in Threads \ {t} : thread'[u] = thread[u]
    BY <1>1 DEF Then
  <1> QED  BY <1>1, <1>2 DEF BackupsFit, Remembered

\* A guest Wi-Fi that fitted still does when the guest network stays.
LEMMA StillFits ==
  ASSUME NEW w, NEW x, NEW c, NEW d, GuestFits(w, c), x.radios = w.radios, x.guest = w.guest,
         c.guest = d.guest \/ d.guest = TRUE
  PROVE  GuestFits(x, d)
  BY DEF GuestFits

LEMMA WifiStep ==
  ASSUME IInv, Next, conf' \in Conf
  PROVE  /\ wireless' \in Wireless /\ OnlyOwnGuests(wireless')
         /\ GuestWifiNeedsGuest' /\ BackupsFit'
  <1> DEFINE Goal == /\ wireless' \in Wireless /\ OnlyOwnGuests(wireless')
                     /\ GuestWifiNeedsGuest' /\ BackupsFit'
  <1>i. /\ wireless \in Wireless /\ conf \in Conf /\ OnlyOwnGuests(wireless)
        /\ GuestWifiNeedsGuest /\ BackupsFit
        /\ thread \in [Threads -> Todo]
    BY DEF IInv, TypeOK, ThreadsOK
  <1>j. Idle.at = "idle" /\ [at |-> "restart"].at = "restart" /\ [at |-> "default"].at = "default"
    BY DEF Idle
  <1>k. ASSUME wireless' = wireless, Remembered("reset"),
               conf'.guest = conf.guest \/ conf'.guest = TRUE, BackupsFit'
        PROVE  Goal
    <2>1. GuestFits(wireless, conf) => GuestFits(wireless', conf')
      BY <1>k, RememberedAll, StillFits
    <2> QED  BY <1>i, <1>k, RememberedAll, <2>1 DEF GuestWifiNeedsGuest, Remembered
  <1>n. ASSUME NEW t \in Threads, NEW next, Then(t, next), next.at \notin {"import", "restore"},
               Remembered("reset")
        PROVE  BackupsFit'
    BY <1>n, RememberedAll, BackupsKept
  <1>1. ASSUME NetworkRestarts
        PROVE  Goal
    BY <1>1, <1>i DEF NetworkRestarts, GuestWifiNeedsGuest, BackupsFit
  <1>2. ASSUME NEW t \in Threads, NEW enabled \in BOOLEAN, NEW qos \in BOOLEAN,
               GuestUpdate(t, enabled, qos)
        PROVE  Goal
    <2>1. Remembered("reset")
      BY <1>2 DEF GuestUpdate, Overlaps, Remembered
    <2>2. [at |-> "sqm", enable |-> conf'.limit].at = "sqm"
      OBVIOUS
    <2>3. BackupsFit'
      BY <1>2, <2>1, <2>2, <1>n, RememberedAll DEF GuestUpdate
    <2>4. GuestSet(conf, enabled, qos, conf')
      BY <1>2, <1>i, SetGuest DEF GuestUpdate
    <2>5. CASE enabled
      <3>1. wireless' = wireless /\ conf'.guest = TRUE
        BY <1>2, <2>4, <2>5 DEF GuestUpdate, GuestSet
      <3> QED  BY <3>1, <2>1, <2>3, <1>k, RememberedAll
    <2>6. CASE ~enabled
      <3>1. wireless' = set_guest_wifi_disabled(wireless)
        BY <1>2, <2>6 DEF GuestUpdate
      <3>2. wireless' \in Wireless /\ OnlyOwnGuests(wireless') /\ GuestFits(wireless', conf')
        BY <3>1, <1>i, DisableGuestWifi
      <3> QED  BY <3>2, <2>3 DEF GuestWifiNeedsGuest
    <2> QED  BY <2>5, <2>6
  <1>3. ASSUME NEW t \in Threads, NEW ok, GuestServices(t, ok) \/ TimeDomain(t, ok)
        PROVE  Goal
    <2>1. crossed \subseteq crossed' /\ wireless' = wireless /\ conf' = conf
      BY <1>3 DEF GuestServices, TimeDomain
    <2>2. BackupsFit'
      BY <1>3, <2>1, <1>j, <1>n, RememberedAll DEF GuestServices, TimeDomain
    <2> QED  BY <2>1, <2>2, <1>k, RememberedAll
  <1>4. ASSUME NEW t \in Threads, RestartNetwork(t) \/ WanDefaultRead(t)
        PROVE  Goal
    <2>1. crossed' = crossed /\ wireless' = wireless /\ conf' = conf
      BY <1>4 DEF RestartNetwork, WanDefaultRead
    <2>2. PICK next : Then(t, next) /\ next.at \notin {"import", "restore"}
      BY <1>4, <1>j DEF RestartNetwork, WanDefaultRead
    <2>3. BackupsFit'
      BY <2>1, <2>2, <1>n, RememberedAll
    <2> QED  BY <2>1, <2>3, <1>k, RememberedAll
  <1>5. ASSUME NEW t \in Threads, NEW a \in NetworkRequests, NetworksUpdate(t, a)
        PROVE  Goal
    <2>1. crossed' = crossed /\ wireless' = wireless /\ NetworksWrites(a)
      BY <1>5 DEF NetworksUpdate, NetworksWrites
    <2>2. BackupsFit'
      BY <1>5, <2>1, <1>j, <1>n, RememberedAll DEF NetworksUpdate
    <2> QED  BY <2>1, <2>2, <1>k, RememberedAll, AfterNetworks
  <1>6. ASSUME NEW t \in Threads, WifiRefused(t) \/ \E a : NetworksRefused(t, a)
        PROVE  Goal
    BY <1>6, <1>i DEF NetworksRefused, WifiRefused, GuestWifiNeedsGuest, BackupsFit
  <1>7. ASSUME NEW t \in Threads, NEW six \in Wan6Types, NEW given,
               NEW vlan \in {"keep", "set", "clear"}, WanTransaction(t, six, given, vlan),
               wireless' = wireless, crossed' = crossed
        PROVE  Goal
    <2>1. BackupsFit'
      BY <1>7, <1>j, <1>n, RememberedAll, WanOutcome
    <2>2. conf'.guest = conf.guest
      BY <1>7, WanOutcome, AfterWan DEF SameGuest
    <2> QED  BY <1>7, <2>1, <2>2, <1>k, RememberedAll
  <1>8. ASSUME NEW t \in Threads, NEW R \in SUBSET Radios, NEW s \in [R -> {"off", "wifi", "guest"}],
               WifiUpdate(t, s)
        PROVE  Goal
    <2>1. /\ crossed' = crossed /\ DOMAIN s \subseteq wireless.radios
          /\ wireless' = update_regulator_domain(_update_wifi(wireless, s), conf.country)
          /\ Then(t, [at |-> "restart"])
      BY <1>8 DEF WifiUpdate
    <2>2. conf.country \in Countries \cup {Unset}
      BY <1>i DEF Conf
    <2>3. /\ wireless' \in Wireless /\ wireless'.radios = wireless.radios /\ OnlyOwnGuests(wireless')
          /\ \A r \in Radios : wireless'.guest[r] = "on" =>
               wireless.guest[r] = "on" \/ \E q \in DOMAIN s : s[q] = "guest"
      BY <2>1, <2>2, <1>i, UpdateWifi
    <2>4. BackupsFit'
      BY <2>1, <1>j, <1>n, RememberedAll
    <2>5. CASE \E q \in DOMAIN s : s[q] = "guest"
      <3>1. conf' = enable_guest_network(conf)
        BY <1>8, <2>5 DEF WifiUpdate
      <3>2. conf'.guest = TRUE
        BY <3>1, <1>i, EnableGuest DEF GuestSet
      <3> QED  BY <2>3, <2>4, <3>2 DEF GuestWifiNeedsGuest, GuestFits
    <2>6. CASE ~\E q \in DOMAIN s : s[q] = "guest"
      <3>1. conf' = conf
        BY <1>8, <2>6 DEF WifiUpdate
      <3> QED  BY <2>1, <2>3, <2>4, <2>6, <3>1, <1>i DEF GuestWifiNeedsGuest, GuestFits
    <2> QED  BY <2>5, <2>6
  <1>9. ASSUME NEW t \in Threads, ResetExport(t)
        PROVE  Goal
    <2> DEFINE next == [at |-> "import", backup |-> wireless, conf |-> conf]
    <2>1. crossed' = crossed /\ wireless' = wireless /\ conf' = conf /\ Then(t, next)
      BY <1>9 DEF ResetExport
    <2>2. next.backup = wireless /\ next.conf = conf
      OBVIOUS
    <2> HIDE DEF next
    <2>3. BackupsFit'
      BY <2>1, <2>2, <1>i, BackupsKept, RememberedAll DEF GuestWifiNeedsGuest
    <2> QED  BY <2>1, <2>3, <1>k, RememberedAll
  <1>10. ASSUME NEW t \in Threads, NEW k \in 0 .. Cardinality(Radios), ResetDetect(t, k)
         PROVE  Goal
    <2>1. crossed' = crossed /\ wireless' = Detected(k) /\ Then(t, Idle)
      BY <1>10 DEF ResetDetect
    <2>2. wireless' \in Wireless /\ OnlyOwnGuests(wireless') /\ GuestFits(wireless', conf')
      BY <2>1, DetectRadios
    <2> QED  BY <2>1, <2>2, <1>j, <1>n, RememberedAll DEF GuestWifiNeedsGuest
  <1>11. ASSUME NEW t \in Threads, ResetFails(t)
         PROVE  Goal
    <2> DEFINE next == [thread[t] EXCEPT !.at = "restore"]
    <2>1. /\ crossed' = crossed /\ wireless' = Detected(0) /\ Then(t, next)
          /\ thread[t] \in Todo /\ thread[t].at = "import"
      BY <1>11, <1>i DEF ResetFails, EmptyWireless, Continue
    <2>2. 0 \in 0 .. Cardinality(Radios)
      BY NetAssumption, FS_CardinalityType
    <2>3. wireless' \in Wireless /\ OnlyOwnGuests(wireless') /\ GuestFits(wireless', conf')
      BY <2>1, <2>2, DetectRadios
    <2>4. next.backup = thread[t].backup /\ next.conf = thread[t].conf
      BY <2>1, ImportFails
    <2> HIDE DEF next
    <2>5. BackupsFit'
      BY <2>1, <2>4, <1>i, BackupsKept, RememberedAll DEF BackupsFit
    <2> QED  BY <2>3, <2>5 DEF GuestWifiNeedsGuest
  <1>12. ASSUME NEW t \in Threads, ResetRestore(t)
         PROVE  Goal
    <2>1. /\ wireless' = thread[t].backup /\ conf' = conf /\ Then(t, Idle)
          /\ crossed \subseteq crossed'
          /\ "reset" \in crossed' \/ thread[t].conf = conf
          /\ thread[t] \in Todo /\ thread[t].at = "restore"
      BY <1>12, <1>i DEF ResetRestore, Continue
    <2>2. thread[t].backup \in Wireless
      BY <2>1, TodoFields
    <2> QED  BY <2>1, <2>2, <1>i, <1>j, <1>n, RememberedAll DEF GuestWifiNeedsGuest, BackupsFit
  <1>13. ASSUME NEW t \in Threads, NEW country \in Countries, NEW ntp \in BOOLEAN,
                TimeUpdate(t, country, ntp)
         PROVE  Goal
    <2> DEFINE next == [at |-> "sysntpd", ntp |-> ntp, country |-> country]
    <2>1. /\ wireless' = update_regulator_domain(wireless, country)
          /\ TimeWrites(country, ntp) /\ Then(t, next)
          /\ Remembered("reset")
      BY <1>13 DEF TimeUpdate, TimeWrites, Overlaps, Remembered
    <2>2. next.at = "sysntpd"
      OBVIOUS
    <2> HIDE DEF next
    <2>3. BackupsFit'
      BY <2>1, <2>2, <1>n, RememberedAll
    <2>4. wireless' \in Wireless /\ wireless'.radios = wireless.radios /\ wireless'.guest = wireless.guest
      BY <2>1, <1>i, UpdateCountry
    <2>5. conf'.guest = conf.guest
      BY <2>1, AfterTime DEF SameGuest
    <2>6. GuestFits(wireless, conf) => GuestFits(wireless', conf')
      BY <2>4, <2>5, StillFits
    <2> QED  BY <2>1, <2>3, <2>4, <2>6, <1>i DEF GuestWifiNeedsGuest, OnlyOwnGuests, Remembered
  <1>14. ASSUME NEW t \in Threads, NEW done, NEW ok, TimeServices(t, done, ok)
         PROVE  Goal
    <2>1. /\ crossed \subseteq crossed' /\ wireless' = wireless /\ conf' = conf
          /\ thread[t] \in Todo /\ thread[t].at = "sysntpd"
          /\ Then(t, IF ok THEN [thread[t] EXCEPT !.at = "domain"] ELSE Idle)
      BY <1>14, <1>i DEF TimeServices, Continue
    <2>2. [thread[t] EXCEPT !.at = "domain"].at = "domain"
      BY <2>1, DomainNext
    <2>3. BackupsFit'
      <3>1. PICK next : Then(t, next) /\ next.at \notin {"import", "restore"}
        BY <2>1, <2>2, <1>j
      <3> QED  BY <3>1, <2>1, <1>n, RememberedAll
    <2> QED  BY <2>1, <2>3, <1>k, RememberedAll
  <1> HIDE DEF Goal
  <1>15. ASSUME NEW t \in Threads, WanDefault(t)
         PROVE  Goal
    <2>1. WanTransaction(t, "dhcpv6", FALSE, "keep") /\ wireless' = wireless /\ crossed' = crossed
      BY <1>15 DEF WanDefault
    <2>2. "dhcpv6" \in Wan6Types /\ "keep" \in {"keep", "set", "clear"}
      BY DEF Wan6Types
    <2> QED  BY <2>1, <2>2, <1>7, Zenon
  <1>16. ASSUME NEW t \in Threads, NEW six \in Wan6Types, NEW given \in BOOLEAN,
                NEW vlan \in {"keep", "set", "clear"}, WanUpdate(t, six, given, vlan)
         PROVE  Goal
    <2>1. WanTransaction(t, six, given, vlan) /\ wireless' = wireless /\ crossed' = crossed
      BY <1>16 DEF WanUpdate
    <2> QED  BY <2>1, <1>7
  <1>17. Goal
    BY <1>1, <1>2, <1>3, <1>4, <1>5, <1>6, <1>8, <1>9, <1>10, <1>11, <1>12, <1>13, <1>14, <1>15, <1>16
    DEF Next
  <1> QED  BY <1>17 DEF Goal
----------------------------------------------------------------------------
\* What is saved will be applied

\* A thread that has nothing to do with the restart of the network, or asks
\* for it
LEMMA RestartKept ==
  ASSUME IInv, NEW t \in Threads, NEW next, Then(t, next),
         \/ next.at \in {"sqm", "restart"}
         \/ unapplied' = unapplied /\ restart' = TRUE
         \/ unapplied' = unapplied /\ restart' = restart /\ thread[t].at \notin {"sqm", "restart"}
  PROVE  RestartDue'
  <1>1. thread \in [Threads -> Todo] /\ RestartDue
    BY DEF IInv, ThreadsOK
  <1>2. thread'[t] = next /\ \A u \in Threads \ {t} : thread'[u] = thread[u]
    BY <1>1 DEF Then
  <1> QED  BY <1>1, <1>2 DEF RestartDue

\* A thread that does not switch the service sqm; a limit may go, as nothing
\* needs the service then
LEMMA LimitKept ==
  ASSUME IInv, NEW t \in Threads, NEW next, Then(t, next),
         next.at # "sqm", thread[t].at # "sqm", Remembered("guest"), sqm' = sqm,
         conf'.limit = conf.limit \/ conf'.limit = FALSE
  PROVE  LimitDue'
  <1>1. thread \in [Threads -> Todo] /\ LimitDue
    BY DEF IInv, ThreadsOK
  <1>2. thread'[t] = next /\ \A u \in Threads \ {t} : thread'[u] = thread[u]
    BY <1>1 DEF Then
  <1> QED  BY <1>1, <1>2 DEF LimitDue, Remembered

\* A thread that does not apply the time settings
LEMMA TimeKept ==
  ASSUME IInv, NEW t \in Threads, NEW next, Then(t, next),
         next.at \notin {"sysntpd", "domain"}, thread[t].at \notin {"sysntpd", "domain"},
         Remembered("time"), ntpd' = ntpd, domain' = domain, SameTime(conf, conf')
  PROVE  TimeDue'
  <1>1. thread \in [Threads -> Todo] /\ TimeDue
    BY DEF IInv, ThreadsOK
  <1>2. thread'[t] = next /\ \A u \in Threads \ {t} : thread'[u] = thread[u]
    BY <1>1 DEF Then
  <1> QED  BY <1>1, <1>2 DEF TimeDue, SameTime, Remembered

\* guest.update_settings and the service it switches afterwards
LEMMA GuestUpdateDue ==
  ASSUME IInv, NEW t \in Threads, NEW enabled, NEW qos, GuestUpdate(t, enabled, qos)
  PROVE  LimitDue'
  <1>1. thread \in [Threads -> Todo] /\ LimitDue /\ thread[t] = Idle /\ Idle.at = "idle"
    BY DEF IInv, ThreadsOK, GuestUpdate, NewRequest, Idle
  <1>2. /\ thread'[t].at = "sqm" /\ thread'[t].enable = conf'.limit
        /\ \A u \in Threads \ {t} : thread'[u] = thread[u]
    BY <1>1 DEF GuestUpdate, Then
  <1>3. "guest" \notin crossed' => \A u \in Threads \ {t} : thread[u].at # "sqm"
    BY DEF GuestUpdate, Overlaps, OtherIsAt
  <1> QED  BY <1>2, <1>3 DEF LimitDue

LEMMA GuestServicesDue ==
  ASSUME IInv, NEW t \in Threads, NEW ok, GuestServices(t, ok)
  PROVE  LimitDue'
  <1>1. thread \in [Threads -> Todo] /\ LimitDue /\ thread[t].at = "sqm"
    BY DEF IInv, ThreadsOK, GuestServices, Continue
  <1>2. /\ thread'[t].at = "restart" /\ conf' = conf
        /\ \A u \in Threads \ {t} : thread'[u] = thread[u]
    BY <1>1 DEF GuestServices, Then
  <1>3. "guest" \notin crossed' => "guest" \notin crossed /\ sqm' = thread[t].enable
    BY DEF GuestServices
  <1> QED  BY <1>1, <1>2, <1>3 DEF LimitDue

\* time.update_settings and the commands after it
LEMMA TimeUpdateDue ==
  ASSUME IInv, NEW t \in Threads, NEW country \in Countries, NEW ntp \in BOOLEAN,
         TimeUpdate(t, country, ntp)
  PROVE  TimeDue'
  <1>1. thread \in [Threads -> Todo] /\ conf \in Conf
    BY DEF IInv, ThreadsOK, TypeOK
  <1>2. conf'.country = country /\ conf'.ntp = ntp
    BY <1>1 DEF TimeUpdate, Conf
  <1>3. /\ thread'[t].at = "sysntpd" /\ thread'[t].ntp = ntp /\ thread'[t].country = country
        /\ \A u \in Threads \ {t} : thread'[u] = thread[u]
    BY <1>1 DEF TimeUpdate, Then
  <1>4. "time" \notin crossed' => \A u \in Threads \ {t} : thread[u].at \notin {"sysntpd", "domain"}
    BY DEF TimeUpdate, Overlaps, OtherIsAt
  <1> QED  BY <1>2, <1>3, <1>4 DEF TimeDue

LEMMA TimeServicesDue ==
  ASSUME IInv, NEW t \in Threads, NEW done, NEW ok, TimeServices(t, done, ok)
  PROVE  TimeDue'
  <1>1. thread \in [Threads -> Todo] /\ TimeDue /\ thread[t] \in Todo /\ thread[t].at = "sysntpd"
    BY DEF IInv, ThreadsOK, TimeServices, Continue
  <1>2. conf' = conf /\ domain' = domain
    BY DEF TimeServices
  <1>3. SUFFICES ASSUME "time" \notin crossed'
                 PROVE  TimeDue'
    BY DEF TimeDue
  <1>4. /\ "time" \notin crossed /\ ntpd' = thread[t].ntp
        /\ Then(t, [thread[t] EXCEPT !.at = "domain"])
    BY <1>3 DEF TimeServices
  <1>5. PICK next : next = [thread[t] EXCEPT !.at = "domain"]
    OBVIOUS
  <1>6. next.at = "domain" /\ next.country = thread[t].country
    BY <1>1, <1>5, DomainNext
  <1>7. /\ thread'[t] = next
        /\ \A u \in Threads \ {t} : thread'[u] = thread[u]
    BY <1>1, <1>4, <1>5 DEF Then
  <1>8. thread[t].country = conf.country
    BY <1>1, <1>4 DEF TimeDue
  <1>9. \A u \in Threads \ {t} : thread[u].at \notin {"sysntpd", "domain"}
    BY <1>1, <1>4 DEF TimeDue
  <1>10. ntpd' = conf.ntp
    BY <1>1, <1>4 DEF TimeDue
  <1> QED  BY <1>2, <1>6, <1>7, <1>8, <1>9, <1>10 DEF TimeDue

LEMMA TimeDomainDue ==
  ASSUME IInv, NEW t \in Threads, NEW ok, TimeDomain(t, ok)
  PROVE  TimeDue'
  <1>1. thread \in [Threads -> Todo] /\ TimeDue /\ thread[t].at = "domain" /\ Idle.at = "idle"
    BY DEF IInv, ThreadsOK, TimeDomain, Continue, Idle
  <1>2. /\ conf' = conf /\ ntpd' = ntpd /\ thread'[t] = Idle
        /\ \A u \in Threads \ {t} : thread'[u] = thread[u]
    BY <1>1 DEF TimeDomain, Then
  <1>3. "time" \notin crossed' => "time" \notin crossed /\ domain' = thread[t].country
    BY DEF TimeDomain
  <1> QED  BY <1>1, <1>2, <1>3 DEF TimeDue

\* The services, the restart and the history of overlaps
ServicesOK ==
  /\ restart \in BOOLEAN /\ unapplied \in BOOLEAN /\ sqm \in BOOLEAN /\ ntpd \in BOOLEAN
  /\ domain \in Countries \cup {Unset}
  /\ crossed \subseteq {"guest", "time", "reset"}

LEMMA DueStep ==
  ASSUME IInv, Next, conf' \in Conf
  PROVE  ServicesOK' /\ RestartDue' /\ LimitDue' /\ TimeDue'
  <1> DEFINE Goal == ServicesOK' /\ RestartDue' /\ LimitDue' /\ TimeDue'
  <1>i. /\ ServicesOK /\ RestartDue /\ LimitDue /\ TimeDue /\ conf \in Conf
        /\ thread \in [Threads -> Todo]
    BY DEF IInv, TypeOK, ThreadsOK, ServicesOK
  <1>j. Idle.at = "idle" /\ [at |-> "restart"].at = "restart" /\ [at |-> "default"].at = "default"
    BY DEF Idle
  <1>s. SameTime(conf, conf)
    BY DEF SameTime
  <1>k. \* a thread that does nothing but leave something to be restarted
        ASSUME NEW t \in Threads, NEW next, Then(t, next),
               next.at \notin {"sqm", "sysntpd", "domain"},
               thread[t].at \notin {"sqm", "sysntpd", "domain"},
               crossed \subseteq crossed', sqm' = sqm, ntpd' = ntpd, domain' = domain,
               conf'.limit = conf.limit \/ conf'.limit = FALSE, SameTime(conf, conf')
        PROVE  LimitDue' /\ TimeDue'
    BY <1>k, LimitKept, TimeKept, RememberedAll
  <1>1. ASSUME NetworkRestarts
        PROVE  Goal
    BY <1>1, <1>i DEF NetworkRestarts, ServicesOK, RestartDue, LimitDue, TimeDue
  <1>2. ASSUME NEW t \in Threads, NEW enabled \in BOOLEAN, NEW qos \in BOOLEAN,
               GuestUpdate(t, enabled, qos)
        PROVE  Goal
    <2> DEFINE next == [at |-> "sqm", enable |-> conf'.limit]
    <2>1. next.at = "sqm" /\ Then(t, next) /\ thread[t] = Idle
      BY <1>2 DEF GuestUpdate, NewRequest
    <2> HIDE DEF next
    <2>2. ServicesOK' /\ Remembered("time") /\ ntpd' = ntpd /\ domain' = domain
      BY <1>2, <1>i DEF GuestUpdate, Overlaps, ServicesOK, Remembered
    <2>3. SameTime(conf, conf')
      BY <1>2, <1>i, SetGuest DEF GuestUpdate, GuestSet
    <2>4. TimeDue'
      BY <2>1, <2>2, <2>3, <1>j, TimeKept
    <2>5. RestartDue'
      BY <2>1, RestartKept
    <2> QED  BY <1>2, <2>2, <2>4, <2>5, GuestUpdateDue
  <1>3. ASSUME NEW t \in Threads, NEW ok, GuestServices(t, ok)
        PROVE  Goal
    <2>1. /\ Then(t, [at |-> "restart"]) /\ conf' = conf
          /\ thread[t] \in Todo /\ thread[t].at = "sqm"
      BY <1>3, <1>i DEF GuestServices, Continue
    <2>2. thread[t].enable \in BOOLEAN
      BY <2>1, TodoFields
    <2>3. ServicesOK' /\ crossed \subseteq crossed' /\ ntpd' = ntpd /\ domain' = domain
      BY <1>3, <2>2, <1>i DEF GuestServices, ServicesOK
    <2>4. TimeDue'
      BY <2>1, <2>3, <1>j, <1>s, TimeKept, RememberedAll
    <2>5. RestartDue'
      BY <2>1, <1>j, RestartKept
    <2> QED  BY <1>3, <2>3, <2>4, <2>5, GuestServicesDue
  <1>4. ASSUME NEW t \in Threads, RestartNetwork(t)
        PROVE  Goal
    <2>1. /\ Then(t, Idle) /\ conf' = conf /\ thread[t].at = "restart"
          /\ crossed' = crossed /\ sqm' = sqm /\ ntpd' = ntpd /\ domain' = domain
          /\ restart' = TRUE /\ unapplied' = unapplied
      BY <1>4 DEF RestartNetwork, Continue
    <2>2. LimitDue' /\ TimeDue'
      BY <2>1, <1>j, <1>s, <1>k
    <2>3. RestartDue'
      BY <2>1, RestartKept
    <2> QED  BY <2>1, <2>2, <2>3, <1>i DEF ServicesOK
  <1>5. ASSUME NEW t \in Threads, NEW a \in NetworkRequests, NetworksUpdate(t, a)
        PROVE  Goal
    <2>1. /\ Then(t, [at |-> "restart"]) /\ NetworksWrites(a) /\ thread[t] = Idle
          /\ crossed' = crossed /\ sqm' = sqm /\ ntpd' = ntpd /\ domain' = domain
          /\ restart' = restart /\ unapplied' = TRUE
      BY <1>5 DEF NetworksUpdate, NetworksWrites, NewRequest
    <2>2. conf'.limit = FALSE /\ SameTime(conf, conf')
      BY <2>1, AfterNetworks
    <2>3. LimitDue' /\ TimeDue'
      BY <2>1, <2>2, <1>j, <1>k
    <2>4. RestartDue'
      BY <2>1, <1>j, RestartKept
    <2> QED  BY <2>1, <2>3, <2>4, <1>i DEF ServicesOK
  <1>6. ASSUME NEW t \in Threads, WifiRefused(t) \/ \E a : NetworksRefused(t, a)
        PROVE  Goal
    <2>1. UNCHANGED <<conf, thread, restart, unapplied, sqm, ntpd, domain, crossed>>
      BY <1>6 DEF NetworksRefused, WifiRefused
    <2> QED  BY <2>1, <1>i DEF ServicesOK, RestartDue, LimitDue, TimeDue
  <1>7. ASSUME NEW t \in Threads, NEW six \in Wan6Types, NEW given,
               NEW vlan \in {"keep", "set", "clear"}, WanTransaction(t, six, given, vlan),
               thread[t].at \in {"idle", "default"},
               UNCHANGED <<restart, sqm, ntpd, domain, crossed>>
        PROVE  Goal
    <2>1. CASE conf' = conf /\ UNCHANGED unapplied /\ Then(t, Idle)
      <3>1. LimitDue' /\ TimeDue'
        BY <2>1, <1>7, <1>j, <1>s, <1>k
      <3>2. RestartDue'
        BY <2>1, <1>7, <1>j, RestartKept
      <3> QED  BY <2>1, <1>7, <3>1, <3>2, <1>i DEF ServicesOK
    <2>2. CASE WanWrites(six, given, vlan) /\ unapplied' = TRUE /\ Then(t, [at |-> "restart"])
      <3>1. conf'.limit = conf.limit /\ SameTime(conf, conf')
        BY <2>2, AfterWan DEF SameGuest
      <3>2. LimitDue' /\ TimeDue'
        BY <2>2, <3>1, <1>7, <1>j, <1>k
      <3>3. RestartDue'
        BY <2>2, <1>7, <1>j, RestartKept
      <3> QED  BY <2>2, <1>7, <3>2, <3>3, <1>i DEF ServicesOK
    <2> QED  BY <1>7, <2>1, <2>2, WanOutcome
  <1>8. ASSUME NEW t \in Threads, NEW s, WifiUpdate(t, s)
        PROVE  Goal
    <2>1. /\ Then(t, [at |-> "restart"]) /\ thread[t] = Idle
          /\ crossed' = crossed /\ sqm' = sqm /\ ntpd' = ntpd /\ domain' = domain
          /\ restart' = restart /\ unapplied' = TRUE
          /\ conf' = conf \/ conf' = enable_guest_network(conf)
      BY <1>8 DEF WifiUpdate, NewRequest
    <2>2. SameTime(conf, conf') /\ (conf'.limit = conf.limit \/ conf'.limit = FALSE)
      <3>1. CASE conf' = conf
        BY <3>1, <1>s
      <3>2. CASE conf' = enable_guest_network(conf)
        <4>1. GuestSet(conf, TRUE, FALSE, conf')
          BY <3>2, <1>i, EnableGuest
        <4> QED  BY <4>1 DEF GuestSet
      <3> QED  BY <2>1, <3>1, <3>2
    <2>3. LimitDue' /\ TimeDue'
      BY <2>1, <2>2, <1>j, <1>k
    <2>4. RestartDue'
      BY <2>1, <1>j, RestartKept
    <2> QED  BY <2>1, <2>3, <2>4, <1>i DEF ServicesOK
  <1>9. \* the steps that look at the WAN or reset the Wi-Fi
        ASSUME NEW t \in Threads, NEW next, Then(t, next),
               next.at \notin {"sqm", "sysntpd", "domain"},
               thread[t].at \notin {"sqm", "restart", "sysntpd", "domain"},
               crossed' = crossed \/ crossed' = crossed \cup {"reset"},
               UNCHANGED <<conf, restart, unapplied, sqm, ntpd, domain>>
        PROVE  Goal
    <2>1. LimitDue' /\ TimeDue'
      BY <1>9, <1>s, <1>k
    <2>2. RestartDue'
      BY <1>9, RestartKept
    <2> QED  BY <1>9, <2>1, <2>2, <1>i DEF ServicesOK
  <1>10. ASSUME NEW t \in Threads, WanDefaultRead(t)
         PROVE  Goal
    <2>1. PICK next : Then(t, next) /\ next.at \in {"default", "idle"}
      BY <1>10, <1>j DEF WanDefaultRead
    <2> QED  BY <2>1, <1>10, <1>j, <1>9 DEF WanDefaultRead, NewRequest
  <1>11. ASSUME NEW t \in Threads, ResetExport(t)
         PROVE  Goal
    <2> DEFINE next == [at |-> "import", backup |-> wireless, conf |-> conf]
    <2>1. next.at = "import" /\ Then(t, next)
      BY <1>11 DEF ResetExport
    <2> HIDE DEF next
    <2> QED  BY <2>1, <1>11, <1>j, <1>9 DEF ResetExport, NewRequest
  <1>12. ASSUME NEW t \in Threads, NEW k, ResetDetect(t, k)
         PROVE  Goal
    BY <1>12, <1>j, <1>9 DEF ResetDetect, Continue
  <1>13. ASSUME NEW t \in Threads, ResetFails(t)
         PROVE  Goal
    <2>1. thread[t] \in Todo /\ thread[t].at = "import"
      BY <1>13, <1>i DEF ResetFails, Continue
    <2>2. PICK next : next = [thread[t] EXCEPT !.at = "restore"]
      OBVIOUS
    <2>3. next.at = "restore"
      BY <2>1, <2>2, ImportFails
    <2> QED  BY <2>1, <2>2, <2>3, <1>13, <1>9 DEF ResetFails
  <1>14. ASSUME NEW t \in Threads, ResetRestore(t)
         PROVE  Goal
    BY <1>14, <1>j, <1>9 DEF ResetRestore, Continue
  <1>15. ASSUME NEW t \in Threads, NEW country \in Countries, NEW ntp \in BOOLEAN,
                TimeUpdate(t, country, ntp)
         PROVE  Goal
    <2> DEFINE next == [at |-> "sysntpd", ntp |-> ntp, country |-> country]
    <2>1. /\ next.at = "sysntpd" /\ Then(t, next) /\ thread[t] = Idle /\ sqm' = sqm
          /\ restart' = restart /\ unapplied' = unapplied
      BY <1>15 DEF TimeUpdate, NewRequest
    <2> HIDE DEF next
    <2>2. Remembered("guest") /\ ServicesOK'
      BY <1>15, <1>i DEF TimeUpdate, Overlaps, ServicesOK, Remembered
    <2>3. conf'.limit = conf.limit
      <3>1. TimeWrites(country, ntp)
        BY <1>15 DEF TimeUpdate, TimeWrites
      <3> QED  BY <3>1, AfterTime DEF SameGuest
    <2>4. LimitDue'
      BY <2>1, <2>2, <2>3, <1>j, LimitKept
    <2>5. RestartDue'
      BY <2>1, <1>j, RestartKept
    <2> QED  BY <1>15, <2>2, <2>4, <2>5, TimeUpdateDue
  <1>16. ASSUME NEW t \in Threads, NEW done, NEW ok, TimeServices(t, done, ok)
         PROVE  Goal
    <2>1. /\ thread[t] \in Todo /\ thread[t].at = "sysntpd" /\ crossed \subseteq crossed'
          /\ conf' = conf /\ UNCHANGED <<sqm, restart, unapplied, domain>>
          /\ Then(t, IF ok THEN [thread[t] EXCEPT !.at = "domain"] ELSE Idle)
      BY <1>16, <1>i DEF TimeServices, Continue
    <2>2. PICK after : after = [thread[t] EXCEPT !.at = "domain"]
      OBVIOUS
    <2>3. after.at = "domain"
      BY <2>1, <2>2, DomainNext
    <2>4. PICK next : Then(t, next) /\ next.at \in {"domain", "idle"}
      BY <2>1, <2>2, <2>3, <1>j
    <2>5. LimitDue'
      BY <2>1, <2>4, LimitKept, RememberedAll
    <2>6. RestartDue'
      BY <2>1, <2>4, RestartKept
    <2>7. thread[t].ntp \in BOOLEAN
      BY <2>1, TodoFields
    <2>8. ServicesOK'
      BY <1>16, <2>1, <2>7, <1>i DEF TimeServices, ServicesOK
    <2> QED  BY <1>16, <2>5, <2>6, <2>8, TimeServicesDue
  <1>17. ASSUME NEW t \in Threads, NEW ok, TimeDomain(t, ok)
         PROVE  Goal
    <2>1. /\ thread[t] \in Todo /\ thread[t].at = "domain" /\ crossed \subseteq crossed'
          /\ conf' = conf /\ UNCHANGED <<sqm, restart, unapplied, ntpd>> /\ Then(t, Idle)
      BY <1>17, <1>i DEF TimeDomain, Continue
    <2>2. LimitDue'
      BY <2>1, <1>j, LimitKept, RememberedAll
    <2>3. RestartDue'
      BY <2>1, <1>j, RestartKept
    <2>4. thread[t].country \in Countries
      BY <2>1, TodoFields
    <2>5. ServicesOK'
      BY <1>17, <2>1, <2>4, <1>i DEF TimeDomain, ServicesOK
    <2> QED  BY <1>17, <2>2, <2>3, <2>5, TimeDomainDue
  <1> HIDE DEF Goal
  <1>18. ASSUME NEW t \in Threads, WanDefault(t)
         PROVE  Goal
    <2>1. /\ WanTransaction(t, "dhcpv6", FALSE, "keep") /\ thread[t].at \in {"idle", "default"}
          /\ UNCHANGED <<restart, sqm, ntpd, domain, crossed>>
      BY <1>18 DEF WanDefault, Continue
    <2>2. "dhcpv6" \in Wan6Types /\ "keep" \in {"keep", "set", "clear"}
      BY DEF Wan6Types
    <2> QED  BY <2>1, <2>2, <1>7, Zenon
  <1>19. ASSUME NEW t \in Threads, NEW six \in Wan6Types, NEW given \in BOOLEAN,
                NEW vlan \in {"keep", "set", "clear"}, WanUpdate(t, six, given, vlan)
         PROVE  Goal
    <2>1. /\ WanTransaction(t, six, given, vlan) /\ thread[t].at \in {"idle", "default"}
          /\ UNCHANGED <<restart, sqm, ntpd, domain, crossed>>
      BY <1>19, <1>j DEF WanUpdate, NewRequest
    <2> QED  BY <2>1, <1>7
  <1>20. Goal
    BY <1>1, <1>2, <1>3, <1>4, <1>5, <1>6, <1>8, <1>10, <1>11, <1>12, <1>13, <1>14, <1>15, <1>16,
       <1>17, <1>18, <1>19
    DEF Next
  <1> QED  BY <1>20 DEF Goal

----------------------------------------------------------------------------
\* Reading back

\* A network whose device is its bridge is read as the ports of that bridge, and
\* at most those of an anonymous bridge or an option ifname.
LEMMA ReadBridge ==
  ASSUME NEW c \in Conf, NEW n \in {"lan", "guest"}, NEW s, s = Named(n),
         c.device[n] = Bridge(n), s \in DOMAIN c.bridge
  PROVE  /\ c.bridge[s] \subseteq _prepare_network(c, n)
         /\ _prepare_network(c, n) \subseteq c.bridge[s] \cup PortsIn(c, Anonymous(n)) \cup c.ifname[n]
  <1>1. SectionOf(Bridge(n)) = Named(n)
    BY BridgeNames, SectionNames DEF SectionOf
  <1>2. Bridge(n).base \notin Ports
    BY BridgeNames, NetAssumption DEF NoPorts
  <1>3. PortsIn(c, SectionOf(c.device[n])) = c.bridge[s]
    BY <1>1 DEF PortsIn
  <1>4. {c.device[n].base} \cap Ports = {}
    BY <1>2
  <1> QED  BY <1>3, <1>4 DEF _prepare_network

\* The WAN is a port, nothing, or a bridge, which get_settings cannot read.
LEMMA ReadWan ==
  ASSUME NEW c \in Conf, NEW a, a["wan"] \in SUBSET Ports, NetworksFit(c, a), c.zone = "wired"
  PROVE  IF Cardinality(a["wan"]) > 1 THEN ReadRaises(c)
         ELSE ~ReadRaises(c) /\ _prepare_wan_network(c) = a["wan"]
  <1>1. "unset" \notin Ports /\ "br-wan" \notin Ports
    BY NetAssumption DEF NoPorts
  <1>2. NoDevice.base = "unset"
    BY DEF NoDevice, Dev
  <1>3. CASE Cardinality(a["wan"]) > 1
    <2>1. c.device["wan"].base = "br-wan"
      BY <1>3 DEF NetworksFit
    <2> QED  BY <1>1, <1>2, <1>3, <2>1 DEF ReadRaises
  <1>4. CASE ~(Cardinality(a["wan"]) > 1) /\ a["wan"] = {}
    <2>1. c.device["wan"] = NoDevice /\ c.ifname["wan"] = {}
      BY <1>4 DEF NetworksFit
    <2> QED  BY <1>4, <2>1 DEF ReadRaises, _prepare_wan_network
  <1>5. CASE ~(Cardinality(a["wan"]) > 1) /\ a["wan"] # {}
    <2>1. a["wan"] = {c.device["wan"].base} /\ c.device["wan"].vlan = FALSE
      BY <1>5 DEF NetworksFit
    <2>2. c.device["wan"].base \in Ports /\ c.device["wan"] # NoDevice
      BY <2>1, <1>1, <1>2
    <2> QED  BY <1>5, <2>1, <2>2 DEF ReadRaises, _prepare_wan_network
  <1> QED  BY <1>3, <1>4, <1>5

LEMMA ReadBack ==
  ASSUME TypeOK, AskedFits
  PROVE  NetworksReadBack
  <1>1. SUFFICES ASSUME asked # NotAsked, conf.zone = "wired",
                        \A m, n \in Nets : m # n => asked[m] \cap asked[n] = {}
                 PROVE  IF Cardinality(asked["wan"]) > 1 THEN ReadRaises(conf)
                        ELSE /\ ~ReadRaises(conf)
                             /\ get_settings(conf)["wan"] = asked["wan"]
                             /\ get_settings(conf)["lan"] = asked["lan"]
                             /\ asked["guest"] \subseteq get_settings(conf)["guest"]
                             /\ get_settings(conf)["guest"] \subseteq asked["guest"] \cup GuestLeftover(conf)
    BY Zenon DEF NetworksReadBack
  <1>2. conf \in Conf /\ asked \in [Nets -> SUBSET Ports] /\ NetworksFit(conf, asked)
    BY <1>1 DEF TypeOK, AskedFits
  <1>3. /\ asked["wan"] \in SUBSET Ports
        /\ asked["lan"] \cap asked["wan"] = {} /\ asked["guest"] \cap asked["wan"] = {}
        /\ asked["guest"] \cap asked["lan"] = {}
    BY <1>1, <1>2 DEF Nets
  <1>4. IF Cardinality(asked["wan"]) > 1 THEN ReadRaises(conf)
        ELSE ~ReadRaises(conf) /\ _prepare_wan_network(conf) = asked["wan"]
    BY <1>1, <1>2, <1>3, ReadWan
  <1>5. _prepare_network(conf, "lan") = asked["lan"]
    <2>1. /\ conf.device["lan"] = Bridge("lan") /\ "br_lan" \in DOMAIN conf.bridge
          /\ conf.bridge["br_lan"] = asked["lan"] /\ conf.ifname["lan"] = {}
          /\ "cfg_lan" \notin DOMAIN conf.bridge
      BY <1>2 DEF NetworksFit
    <2>2. PortsIn(conf, Anonymous("lan")) = {}
      BY <2>1, SectionNames DEF PortsIn
    <2> QED  BY <1>2, <2>1, <2>2, ReadBridge, SectionNames
  <1>6. /\ asked["guest"] \subseteq _prepare_network(conf, "guest")
        /\ _prepare_network(conf, "guest") \subseteq asked["guest"] \cup GuestLeftover(conf)
    <2>1. /\ conf.device["guest"] = Bridge("guest") /\ "br_guest_turris" \in DOMAIN conf.bridge
          /\ conf.bridge["br_guest_turris"] = asked["guest"]
      BY <1>2 DEF NetworksFit
    <2>2. /\ conf.bridge["br_guest_turris"] \subseteq _prepare_network(conf, "guest")
          /\ _prepare_network(conf, "guest") \subseteq
               conf.bridge["br_guest_turris"] \cup PortsIn(conf, "cfg_guest") \cup conf.ifname["guest"]
      BY <1>2, <2>1, ReadBridge, SectionNames
    <2> QED  BY <2>1, <2>2 DEF GuestLeftover
  <1>7. ASSUME _prepare_wan_network(conf) = asked["wan"]
        PROVE  /\ get_settings(conf)["wan"] = asked["wan"]
               /\ get_settings(conf)["lan"] = asked["lan"]
               /\ asked["guest"] \subseteq get_settings(conf)["guest"]
               /\ get_settings(conf)["guest"] \subseteq asked["guest"] \cup GuestLeftover(conf)
    <2> DEFINE wan == asked["wan"]
               lan == asked["lan"] \ asked["wan"]
               guest == _prepare_network(conf, "guest") \ (asked["wan"] \cup lan)
    <2>1. get_settings(conf) = [n \in Nets |-> CASE n = "wan" -> wan [] n = "lan" -> lan [] OTHER -> guest]
      BY <1>5, <1>7 DEF get_settings
    <2>2. /\ wan = asked["wan"] /\ lan = asked["lan"]
          /\ asked["guest"] \subseteq guest /\ guest \subseteq asked["guest"] \cup GuestLeftover(conf)
      BY <1>3, <1>6
    <2> HIDE DEF wan, lan, guest
    <2>3. /\ get_settings(conf)["wan"] = wan /\ get_settings(conf)["lan"] = lan
          /\ get_settings(conf)["guest"] = guest
      BY <2>1 DEF Nets
    <2> QED  BY <2>2, <2>3
  <1> QED  BY <1>4, <1>7

----------------------------------------------------------------------------
\* The invariant holds

LEMMA InitInv ==
  ASSUME Init
  PROVE  IInv
  <1>1. /\ conf \in Conf /\ wireless \in Wireless /\ TunnelFits(conf) /\ BridgesFit(conf)
        /\ OnlyOwnGuests(wireless) /\ GuestFits(wireless, conf)
    BY NetAssumption DEF Init
  <1>2. conf.limit \in BOOLEAN /\ conf.ntp \in BOOLEAN /\ conf.country \in Countries \cup {Unset}
    BY <1>1 DEF Conf
  <1>3. NotAsked \in [Nets -> SUBSET Ports]
    BY DEF NotAsked
  <1>4. TypeOK
    BY <1>1, <1>2, <1>3 DEF Init, TypeOK
  <1>5. thread = [t \in Threads |-> Idle] /\ Idle.at = "idle"
    BY DEF Init, ThreadsInit, Idle
  <1>6. ThreadsOK /\ BackupsFit
    BY <1>5, TodoMembers DEF ThreadsOK, BackupsFit
  <1>7. AskedFits /\ GuestWifiNeedsGuest /\ TunnelFollowsType
    BY <1>1 DEF Init, AskedFits, GuestWifiNeedsGuest, TunnelFollowsType
  <1>8. RestartDue /\ LimitDue /\ TimeDue
    BY <1>5 DEF Init, RestartDue, LimitDue, TimeDue
  <1> QED  BY <1>1, <1>4, <1>6, <1>7, <1>8 DEF IInv

LEMMA NextInv ==
  ASSUME IInv, [Next]_vars
  PROVE  IInv'
  <1>1. CASE Next
    <2>1. /\ conf' \in Conf /\ asked' \in [Nets -> SUBSET Ports]
          /\ TunnelFits(conf') /\ BridgesFit(conf') /\ AskedFits'
      BY <1>1, ConfStep
    <2>2. ThreadsOK'
      BY <1>1, <2>1, ThreadsStep
    <2>3. /\ wireless' \in Wireless /\ OnlyOwnGuests(wireless')
          /\ GuestWifiNeedsGuest' /\ BackupsFit'
      BY <1>1, <2>1, WifiStep
    <2>4. ServicesOK' /\ RestartDue' /\ LimitDue' /\ TimeDue'
      BY <1>1, <2>1, DueStep
    <2>5. TypeOK'
      BY <2>1, <2>3, <2>4 DEF TypeOK, ServicesOK
    <2> QED  BY <2>1, <2>2, <2>3, <2>4, <2>5 DEF IInv, TunnelFollowsType
  <1>2. CASE UNCHANGED vars
    <2>1. UNCHANGED <<conf, wireless, thread, restart, unapplied, sqm, ntpd, domain, asked, crossed>>
      BY <1>2 DEF vars
    <2> QED  BY <2>1 DEF IInv, TypeOK, ThreadsOK, TunnelFollowsType, AskedFits, GuestWifiNeedsGuest,
                         BackupsFit, RestartDue, LimitDue, TimeDue
  <1> QED  BY <1>1, <1>2

LEMMA Invariant == Spec => []IInv
  BY InitInv, NextInv, PTL DEF Spec

\* The records of the files stay well formed whatever the requests of the five
\* modules do to them.
THEOREM NetTypeOK == Spec => []TypeOK
  <1>1. IInv => TypeOK
    BY DEF IInv
  <1> QED  BY <1>1, Invariant, PTL

\* No guest Wi-Fi is on the air without the guest network behind it: for any
\* radios and any interleaving of guest.update_settings, wifi.update_settings,
\* wifi.reset and the others, but for the two exceptions the property names.
THEOREM NetGuestWifiNeedsGuest == Spec => []GuestWifiNeedsGuest
  <1>1. IInv => GuestWifiNeedsGuest
    BY DEF IInv
  <1> QED  BY <1>1, Invariant, PTL

\* wan.update_settings keeps the tunnel rules, the peer, tunnel id, addresses and
\* prefixes in line with the type last chosen, and has what that type needs,
\* whatever the types that were chosen before.
THEOREM NetTunnelFollowsType == Spec => []TunnelFollowsType
  <1>1. IInv => TunnelFollowsType
    BY DEF IInv
  <1> QED  BY <1>1, Invariant, PTL

\* networks.get_settings reads back the ports last asked for, for any ports,
\* any configuration found at the start and anything the other modules wrote;
\* an older form of the guest network may add ports to it.
THEOREM NetNetworksReadBack == Spec => []NetworksReadBack
  <1>1. IInv => NetworksReadBack
    BY ReadBack DEF IInv
  <1> QED  BY <1>1, Invariant, PTL

\* When no thread serves a request, a restart of the network is on its way or was
\* made after the last change, however requests overlapped; the services follow
\* what was saved, but for overlaps and failures that no update made good.
THEOREM NetSavedIsApplied == Spec => []SavedIsApplied
  <1>1. ASSUME IInv
        PROVE  SavedIsApplied
    <2>1. SUFFICES ASSUME Quiet
                   PROVE  /\ unapplied => restart
                          /\ "guest" \notin crossed => (conf.limit => sqm)
                          /\ "time" \notin crossed => ntpd = conf.ntp /\ domain = conf.country
      BY Zenon DEF SavedIsApplied
    <2>2. \A t \in Threads : thread[t].at = "idle"
      <3>1. Idle.at = "idle"
        BY DEF Idle
      <3> QED  BY <2>1, <3>1, Zenon DEF Quiet
    <2>3. RestartDue /\ LimitDue /\ TimeDue
      BY <1>1 DEF IInv
    <2>4. unapplied => restart
      BY <2>2, <2>3 DEF RestartDue
    <2>5. "guest" \notin crossed => (conf.limit => sqm)
      BY <2>2, <2>3 DEF LimitDue
    <2>6. "time" \notin crossed => ntpd = conf.ntp /\ domain = conf.country
      BY <2>2, <2>3 DEF TimeDue
    <2> QED  BY <2>4, <2>5, <2>6
  <1> QED  BY <1>1, Invariant, PTL
=============================================================================
