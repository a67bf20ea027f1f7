------------------------------ MODULE NetConfig ------------------------------
(***************************************************************************)
(* The settings of the router's networks: the modules networks, guest,     *)
(* wan, wifi and time, which write the same UCI files for requests served  *)
(* by several threads.                                                     *)
(*                                                                         *)
(* A `with UciBackend()' block is one step here: UciBackend and            *)
(* ConfigStore show that blocks take effect one after another.  What       *)
(* happens between and after the blocks (services, the restart of the      *)
(* network, the second and third block of a request) is a step of its own. *)
(***************************************************************************)
EXTENDS RequestThreads, Integers, FiniteSets

CONSTANTS
  Ports,            \* wired ports that turrishw reports
  Radios,           \* ids X of the sections radioX, an interval that starts at 0
  Countries,        \* countries a user chooses from
  NetworkRequests,  \* what users ask of networks.update_settings
  InitialConfigs,   \* configurations the controller may find
  InitialWireless   \* Wi-Fi configurations the controller may find

VARIABLES
  conf,      \* network, firewall, sqm, system and resolver files
  wireless,  \* the wireless file
  restart,   \* maintain-network-restart runs in the background
  unapplied, \* the network was not restarted since the last change of it
  sqm,       \* the service sqm is enabled
  ntpd,      \* the service sysntpd is enabled
  domain,    \* regulatory domain set with iw
  asked,     \* history: last networks request, while get_settings owes it
  crossed    \* history: which updates overlapped or failed half way, since one ran alone

vars == <<conf, wireless, thread, restart, unapplied, sqm, ntpd, domain,
          requests, asked, crossed>>

----------------------------------------------------------------------------
\* Data

Nets == {"wan", "lan", "guest"}
Named(n) == CASE n = "wan" -> "br_wan" [] n = "lan" -> "br_lan" [] OTHER -> "br_guest_turris"
Anonymous(n) == CASE n = "wan" -> "cfg_wan" [] n = "lan" -> "cfg_lan" [] OTHER -> "cfg_guest"
Sections == {Named(n) : n \in Nets} \cup {"cfg_lan", "cfg_guest"}

Dev(b) == [base |-> b, vlan |-> FALSE]
NoDevice == Dev("unset")
Bridge(n) == Dev(CASE n = "wan" -> "br-wan" [] n = "lan" -> "br-lan" [] OTHER -> "br-guest-turris")
OldGuestBridge == Dev("br-guest_turris")  \* name of a migrated guest bridge

Wan6Types == {"dhcpv6", "static", "6to4", "6in4", "none"}
Wan6Options == {"ip6prefix", "ip6addr", "ip6gw", "clientid", "ipaddr", "peeraddr", "tunnelid"}
Tunnels == {"6in4", "6to4"}

Unset == "00"
GuestSection == {"absent", "bare", "off", "on"}  \* bare: disabled, belongs to no radio
NotAsked == [n \in Nets |-> Ports]

\* the name taken as it is: no section has a dash in its name
SectionOfRaw(d) == "none"

\* name.replace("-", "_"): the section a device name leads to
SectionOf(d) ==
  IF d = Bridge("wan") THEN "br_wan"
  ELSE IF d = Bridge("lan") THEN "br_lan"
  ELSE IF d \in {Bridge("guest"), OldGuestBridge} THEN "br_guest_turris" ELSE "none"

PortsIn(c, s) == IF s \in DOMAIN c.bridge THEN c.bridge[s] ELSE {}
Without(b, s) == [x \in DOMAIN b \ {s} |-> b[x]]
With(b, s, ports) == [x \in DOMAIN b \cup {s} |-> IF x = s THEN ports ELSE b[x]]

\* What the files hold
NoPorts == {"unset", "br-wan", "br-lan", "br-guest-turris", "br-guest_turris"}
DeviceType == [base : Ports \cup NoPorts, vlan : BOOLEAN]
BridgeType == UNION {[S -> SUBSET Ports] : S \in SUBSET Sections}
Conf ==
  [ifname : [Nets -> SUBSET Ports], device : [Nets -> DeviceType],
   bridge : BridgeType,
   zone : {"wired", "wireless"}, proto : {"none", "configured"},
   wan6 : Wan6Types, rules : SUBSET Tunnels, options : SUBSET Wan6Options,
   guest : BOOLEAN, limit : BOOLEAN, country : Countries \cup {Unset}, ntp : BOOLEAN]
Wireless ==
  [radios : SUBSET Radios, on : SUBSET Radios, guest : [Radios -> GuestSection],
   country : [Radios -> Countries \cup {Unset}]]

\* The rules and options of a tunnel belong to the type of wan6 that is set, and
\* the options that a static address or a tunnel cannot do without are there.
TunnelFits(c) ==
  /\ c.rules = {c.wan6} \cap Tunnels
  /\ c.options \cap {"peeraddr", "tunnelid"} # {} => c.wan6 = "6in4"
  /\ c.options \cap {"ip6addr", "ip6prefix"} # {} => c.wan6 \in {"6in4", "static"}
  /\ c.wan6 = "static" => {"ip6addr", "ip6prefix", "ip6gw"} \subseteq c.options
  /\ c.wan6 = "6in4" => "peeraddr" \in c.options

\* A guest Wi-Fi has the guest network behind it.  Where the number of a radio
\* is not its place in the file, set_guest_wifi_disabled may miss one.
GuestFits(w, c) ==
  \/ w.radios # 0 .. Cardinality(w.radios) - 1
  \/ (\E r \in Radios : w.guest[r] = "on") => c.guest

\* A bridge of the WAN or the LAN is the device of its network.
BridgesFit(c) ==
  /\ "br_lan" \in DOMAIN c.bridge \/ "cfg_lan" \in DOMAIN c.bridge => c.device["lan"] = Bridge("lan")
  /\ "br_wan" \in DOMAIN c.bridge => c.device["wan"].base = "br-wan" /\ c.ifname["wan"] = {}

OnlyOwnGuests(w) == \A r \in Radios : w.guest[r] = "on" => r \in w.radios

\* The files the controller finds are like the ones it writes.
ASSUME NetAssumption ==
  /\ IsFiniteSet(Ports) /\ Ports \cap NoPorts = {}
  /\ IsFiniteSet(Radios) /\ Radios = 0 .. Cardinality(Radios) - 1
  /\ InitialConfigs \subseteq Conf /\ InitialWireless \subseteq Wireless
  /\ \A c \in InitialConfigs : TunnelFits(c) /\ BridgesFit(c)
  /\ \A w \in InitialWireless : OnlyOwnGuests(w) /\ \A c \in InitialConfigs : GuestFits(w, c)
  /\ \A a \in NetworkRequests : Nets \subseteq DOMAIN a

----------------------------------------------------------------------------
\* Reading: networks.get_settings

\* _get_anonymous_bridge_ports() and _prepare_network(), before the ports
\* of earlier networks are taken away
_prepare_network(c, n) ==
  LET own == PortsIn(c, SectionOf(c.device[n]))
      ports == IF own = {} /\ c.ifname[n] = {} THEN PortsIn(c, Anonymous(n)) ELSE own
  IN (IF ports # {} THEN ports ELSE {c.device[n].base} \cap Ports) \cup c.ifname[n]

\* get_wan_mode() and fetch_active_wan_device()
_prepare_wan_network(c) ==
  IF c.zone = "wireless" THEN {}
  ELSE IF c.device["wan"] # NoDevice THEN {c.device["wan"].base} ELSE c.ifname["wan"]

\* ports_map.pop() raises KeyError for a device that is no port of turrishw
ReadRaises(c) ==
  /\ c.zone = "wired"
  /\ c.device["wan"] # NoDevice
  /\ c.device["wan"].vlan \/ c.device["wan"].base \notin Ports

get_settings(c) ==
  LET wan == _prepare_wan_network(c)
      lan == _prepare_network(c, "lan") \ wan
      guest == _prepare_network(c, "guest") \ (wan \cup lan)
  IN [n \in Nets |-> CASE n = "wan" -> wan [] n = "lan" -> lan [] OTHER -> guest]

----------------------------------------------------------------------------
\* What the transactions write

set_guest_network(c, enabled, qos) ==
  [c EXCEPT !.guest = enabled,
            !.device = [@ EXCEPT !["guest"] = Bridge("guest")],
            !.bridge = IF Named("guest") \in DOMAIN @ THEN @ ELSE With(@, Named("guest"), {}),
            !.limit = enabled /\ qos]

\* The address and the DHCP settings are kept, a limit (qos) is not passed on.
enable_guest_network(c) == set_guest_network(c, TRUE, FALSE)

\* One network of networks.update_settings; data was read before the ports
\* of the guest bridge were set.
SetNetwork(data, c, n, ports) ==
  LET bare == IF data.device[n] = Bridge(n) THEN Without(c.bridge, Anonymous(n)) ELSE c.bridge
      asBridge == Cardinality(ports) > 1 \/ n = "lan"
      exists == Named(n) \in DOMAIN data.bridge
  IN [c EXCEPT
       !.ifname = [@ EXCEPT ![n] = {}],
       !.bridge = IF asBridge THEN With(bare, Named(n), ports) ELSE Without(bare, Named(n)),
       !.device = IF asBridge /\ exists THEN @
                  ELSE [@ EXCEPT ![n] = IF asBridge THEN Bridge(n)
                                        ELSE IF ports = {} THEN NoDevice
                                        ELSE Dev(CHOOSE p \in ports : TRUE)]]

SetNetworks(c, a) ==
  LET data == enable_guest_network(c)
      guest == [data EXCEPT !.bridge = With(@, Named("guest"), a["guest"])]
  IN SetNetwork(data, SetNetwork(data, guest, "wan", a["wan"]), "lan", a["lan"])

_migrate_old_config(c) ==
  IF c.ifname["wan"] = {} THEN c
  ELSE [c EXCEPT !.device = [@ EXCEPT !["wan"] = Dev(CHOOSE p \in c.ifname["wan"] : TRUE)],
                 !.ifname = [@ EXCEPT !["wan"] = {}]]

\* credentials and peer of a replaced tunnel are kept
KeptOptionsAll(options, six) == options \ {"ip6prefix"}

\* Options of wan6 that survive the cleanup before the new type is written.
KeptOptions(options, six) ==
  (options \ {"ip6prefix"}) \ (IF six = "6in4" THEN {} ELSE {"tunnelid", "peeraddr", "ip6addr"})

\* The wan6 part of wan.update_settings; given: optional values are present.
SetWan6(c, six, given) ==
  LET clean == KeptOptions(c.options, six)
      optional(o) == IF given THEN {o} ELSE {}
  IN [c EXCEPT
       !.wan6 = six,
       !.rules = (@ \ (Tunnels \ {six})) \cup ({six} \cap Tunnels),
       !.options =
         CASE six = "static" -> clean \cup {"ip6addr", "ip6prefix", "ip6gw"}
           [] six = "dhcpv6" -> (clean \ {"clientid"}) \cup optional("clientid")
           [] six = "6to4"   -> (clean \ {"ipaddr"}) \cup optional("ipaddr")
           [] six = "6in4"   -> (clean \ {"ip6prefix", "tunnelid"})
                                  \cup {"peeraddr", "ip6addr"}
                                  \cup optional("ip6prefix") \cup optional("tunnelid")
           [] OTHER          -> clean \ {"ip6prefix", "ip6addr", "ip6gw"}]

\* dev_wan, VLAN ("keep", "set" or "clear") and the uplink
SetWanDevice(c, vlan) ==
  [c EXCEPT !.device = IF vlan = "keep" THEN @
                       ELSE [@ EXCEPT !["wan"].vlan = (vlan = "set")],
            !.proto = "configured",
            !.zone = "wired"]

\* the sections are counted from 1
set_guest_wifi_disabledFromOne(w) ==
  [w EXCEPT !.guest = [i \in Radios |->
     IF i \notin 1 .. Cardinality(w.radios) THEN @[i]
     ELSE IF @[i] \in {"absent", "bare"} THEN "bare" ELSE "off"]]

\* The sections are counted from 0, whatever the numbers of the radios are.
set_guest_wifi_disabled(w) ==
  [w EXCEPT !.guest = [i \in Radios |->
     IF i >= Cardinality(w.radios) THEN @[i]
     ELSE IF @[i] \in {"absent", "bare"} THEN "bare" ELSE "off"]]

\* s: the request's devices and what is asked of each
_update_wifi(w, s) ==
  LET off == {r \in DOMAIN s : s[r] = "off"}
  IN [w EXCEPT !.on = (@ \cup DOMAIN s) \ off,
               !.guest = [r \in Radios |->
                  CASE r \notin DOMAIN s -> @[r]
                    [] r \in off -> IF @[r] = "on" THEN "off" ELSE @[r]
                    [] OTHER -> IF s[r] = "guest" THEN "on" ELSE "off"]]

update_regulator_domain(w, country) ==
  [w EXCEPT !.country = [r \in Radios |-> IF r \in w.radios THEN country ELSE @[r]]]

\* `wifi config' on an empty file: every detected radio, disabled
Detected(k) ==
  [radios |-> 0 .. k - 1, on |-> {}, guest |-> [r \in Radios |-> "absent"],
   country |-> [r \in Radios |-> Unset]]
EmptyWireless == Detected(0)

----------------------------------------------------------------------------
Init ==
  /\ conf \in InitialConfigs
  /\ wireless \in InitialWireless
  /\ ThreadsInit
  /\ restart = FALSE
  /\ unapplied = FALSE
  /\ sqm = conf.limit
  /\ ntpd = conf.ntp
  /\ domain = conf.country
  /\ asked = NotAsked
  /\ crossed = {}

\* Another thread is between its transaction and its service commands.  An
\* update that runs alone makes good what an earlier overlap or failure did.
Overlaps(t, at, who) ==
  crossed' = IF OtherIsAt(t, at) THEN crossed \cup {who} ELSE crossed \ {who}

----------------------------------------------------------------------------
\* guest.update_settings

GuestUpdate(t, enabled, qos) ==
  /\ NewRequest(t)
  /\ conf' = set_guest_network(conf, enabled, qos)
  /\ wireless' = IF enabled THEN wireless ELSE set_guest_wifi_disabled(wireless)
  /\ unapplied' = TRUE
  /\ Then(t, [at |-> "sqm", enable |-> conf'.limit])
  /\ Overlaps(t, {"sqm"}, "guest")
  /\ UNCHANGED <<restart, sqm, ntpd, domain, asked>>

\* the two service commands in each other's place
GuestServicesSwapped(t, ok) ==
  /\ Continue(t, "sqm")
  /\ sqm' = IF ok THEN ~thread[t].enable ELSE sqm
  /\ crossed' = IF ok THEN crossed ELSE crossed \cup {"guest"}
  /\ Then(t, [at |-> "restart"])
  /\ UNCHANGED <<conf, wireless, restart, unapplied, ntpd, domain, asked>>

\* services.enable / disable of sqm under services_lock; a failure is ignored
GuestServices(t, ok) ==
  /\ Continue(t, "sqm")
  /\ sqm' = IF ok THEN thread[t].enable ELSE sqm
  /\ crossed' = IF ok THEN crossed ELSE crossed \cup {"guest"}
  /\ Then(t, [at |-> "restart"])
  /\ UNCHANGED <<conf, wireless, restart, unapplied, ntpd, domain, asked>>

\* maintain-network-restart is started in the background ...
RestartNetwork(t) ==
  /\ Continue(t, "restart")
  /\ restart' = TRUE
  /\ Then(t, Idle)
  /\ UNCHANGED <<conf, wireless, unapplied, sqm, ntpd, domain, asked, crossed>>

\* ... and reads the files when it comes to run.
NetworkRestarts ==
  /\ restart
  /\ restart' = FALSE
  /\ unapplied' = FALSE
  /\ UNCHANGED <<conf, wireless, thread, requests, sqm, ntpd, domain, asked, crossed>>

----------------------------------------------------------------------------
\* networks.update_settings

\* The request must name exactly the configurable ports.
NamesAllPorts(a) == UNION {a[n] : n \in DOMAIN a} = Ports

NetworksUpdate(t, a) ==
  /\ NewRequest(t)
  /\ NamesAllPorts(a)
  /\ conf' = SetNetworks(conf, a)
  /\ unapplied' = TRUE
  /\ asked' = [n \in Nets |-> a[n]]
  /\ Then(t, [at |-> "restart"])
  /\ UNCHANGED <<wireless, restart, sqm, ntpd, domain, crossed>>

NetworksRefused(t, a) ==
  /\ NewRequest(t)
  /\ ~NamesAllPorts(a)
  /\ UNCHANGED <<conf, wireless, thread, restart, unapplied, sqm, ntpd, domain, asked, crossed>>

----------------------------------------------------------------------------
\* wan.update_settings and update_uncofigured_wan_to_default

WanTransaction(t, six, given, vlan) ==
  LET c == SetWan6(_migrate_old_config(conf), six, given)
  IN IF c.device["wan"] = NoDevice
     THEN \* the option device is read without a default: everything is dropped
          /\ Then(t, Idle)
          /\ UNCHANGED <<conf, unapplied, asked>>
     ELSE /\ conf' = SetWanDevice(c, vlan)
          /\ unapplied' = TRUE
          /\ asked' = IF vlan = "set" THEN NotAsked ELSE asked
          /\ Then(t, [at |-> "restart"])

WanUpdate(t, six, given, vlan) ==
  /\ NewRequest(t)
  /\ WanTransaction(t, six, given, vlan)
  /\ UNCHANGED <<wireless, restart, sqm, ntpd, domain, crossed>>

\* the end of the guide: is the WAN unconfigured?
WanDefaultRead(t) ==
  /\ NewRequest(t)
  /\ Then(t, IF conf.proto = "none" THEN [at |-> "default"] ELSE Idle)
  /\ UNCHANGED <<conf, wireless, restart, unapplied, sqm, ntpd, domain, asked, crossed>>

WanDefault(t) ==
  /\ Continue(t, "default")
  /\ WanTransaction(t, "dhcpv6", FALSE, "keep")
  /\ UNCHANGED <<wireless, restart, sqm, ntpd, domain, crossed>>

----------------------------------------------------------------------------
\* wifi.update_settings and reset

WifiUpdate(t, s) ==
  /\ NewRequest(t)
  /\ DOMAIN s \subseteq wireless.radios
  /\ LET enable == \E r \in DOMAIN s : s[r] = "guest"
     IN conf' = IF enable THEN enable_guest_network(conf) ELSE conf
  /\ wireless' = update_regulator_domain(_update_wifi(wireless, s), conf.country)
  /\ unapplied' = TRUE
  /\ Then(t, [at |-> "restart"])
  /\ UNCHANGED <<restart, sqm, ntpd, domain, asked, crossed>>

\* A missing radio, or a band, channel or mode it lacks: nothing is committed.
WifiRefused(t) ==
  /\ NewRequest(t)
  /\ UNCHANGED <<conf, wireless, thread, restart, unapplied, sqm, ntpd, domain, asked, crossed>>

ResetExport(t) ==
  /\ NewRequest(t)
  /\ Then(t, [at |-> "import", backup |-> wireless, conf |-> conf])
  /\ UNCHANGED <<conf, wireless, restart, unapplied, sqm, ntpd, domain, asked, crossed>>

\* the empty file is imported and `wifi config' fills it
ResetDetect(t, k) ==
  /\ Continue(t, "import")
  /\ wireless' = Detected(k)
  /\ Then(t, Idle)
  /\ UNCHANGED <<conf, restart, unapplied, sqm, ntpd, domain, asked, crossed>>

\* `wifi config' fails: the import has already replaced the file
ResetFails(t) ==
  /\ Continue(t, "import")
  /\ wireless' = EmptyWireless
  /\ Then(t, [thread[t] EXCEPT !.at = "restore"])
  /\ UNCHANGED <<conf, restart, unapplied, sqm, ntpd, domain, asked, crossed>>

ResetRestore(t) ==
  /\ Continue(t, "restore")
  /\ wireless' = thread[t].backup
  /\ crossed' = IF thread[t].conf = conf THEN crossed ELSE crossed \cup {"reset"}
  /\ Then(t, Idle)
  /\ UNCHANGED <<conf, restart, unapplied, sqm, ntpd, domain, asked>>

----------------------------------------------------------------------------
\* time.update_settings

TimeUpdate(t, country, ntp) ==
  /\ NewRequest(t)
  /\ conf' = [conf EXCEPT !.country = country, !.ntp = ntp]
  /\ wireless' = update_regulator_domain(wireless, country)
  /\ Then(t, [at |-> "sysntpd", ntp |-> ntp, country |-> country])
  /\ Overlaps(t, {"sysntpd", "domain"}, "time")
  /\ UNCHANGED <<restart, unapplied, sqm, ntpd, domain, asked>>

\* sysntpd, whose failure is ignored, then `system restart', which may raise
TimeServices(t, done, ok) ==
  /\ Continue(t, "sysntpd")
  /\ ntpd' = IF done THEN thread[t].ntp ELSE ntpd
  /\ Then(t, IF ok THEN [thread[t] EXCEPT !.at = "domain"] ELSE Idle)
  /\ crossed' = IF done /\ ok THEN crossed ELSE crossed \cup {"time"}
  /\ UNCHANGED <<conf, wireless, restart, unapplied, sqm, domain, asked>>

\* iw reg set, whose failure is ignored
TimeDomain(t, ok) ==
  /\ Continue(t, "domain")
  /\ domain' = IF ok THEN thread[t].country ELSE domain
  /\ crossed' = IF ok THEN crossed ELSE crossed \cup {"time"}
  /\ Then(t, Idle)
  /\ UNCHANGED <<conf, wireless, restart, unapplied, sqm, ntpd, asked>>

----------------------------------------------------------------------------
Next ==
  \/ NetworkRestarts
  \/ \E t \in Threads :
       \/ \E enabled, qos \in BOOLEAN : GuestUpdate(t, enabled, qos)
       \/ \E ok \in BOOLEAN : GuestServices(t, ok)
       \/ RestartNetwork(t)
       \/ \E a \in NetworkRequests : NetworksUpdate(t, a) \/ NetworksRefused(t, a)
       \/ \E six \in Wan6Types, given \in BOOLEAN, vlan \in {"keep", "set", "clear"} :
            WanUpdate(t, six, given, vlan)
       \/ WanDefaultRead(t)
       \/ WanDefault(t)
       \/ \E R \in SUBSET Radios : \E s \in [R -> {"off", "wifi", "guest"}] : WifiUpdate(t, s)
       \/ WifiRefused(t)
       \/ ResetExport(t)
       \/ \E k \in 0 .. Cardinality(Radios) : ResetDetect(t, k)
       \/ ResetFails(t)
       \/ ResetRestore(t)
       \/ \E country \in Countries, ntp \in BOOLEAN : TimeUpdate(t, country, ntp)
       \/ \E done, ok \in BOOLEAN : TimeServices(t, done, ok)
       \/ \E ok \in BOOLEAN : TimeDomain(t, ok)

Spec == Init /\ [][Next]_vars

----------------------------------------------------------------------------
\* Properties

TypeOK ==
  /\ conf \in Conf /\ wireless \in Wireless
  /\ restart \in BOOLEAN /\ unapplied \in BOOLEAN /\ sqm \in BOOLEAN /\ ntpd \in BOOLEAN
  /\ domain \in Countries \cup {Unset}
  /\ asked \in [Nets -> SUBSET Ports]
  /\ crossed \subseteq {"guest", "time", "reset"}

\* No guest Wi-Fi without the guest network behind it (its firewall zone and
\* bridge): guest.update_settings and wifi.update_settings change both in one
\* transaction.  The two exceptions are those of the code: a failed reset()
\* that puts back a backup older than the other settings, and radios whose
\* number is not their place in the file (set_guest_wifi_disabled counts).
GuestWifiNeedsGuest == "reset" \in crossed \/ GuestFits(wireless, conf)

\* what nothing removes of an older guest network
GuestLeftover(c) == PortsIn(c, "cfg_guest") \cup c.ifname["guest"]

\* networks.get_settings finds what networks.update_settings was last asked
\* for, whatever form the configuration had before (ifname, anonymous or
\* named bridges) and whatever wan, guest and wifi wrote since: the ports of
\* the WAN and of the LAN exactly, those of the guest network with at most
\* the ones that an older form of it had and that nothing removes.  It raises
\* KeyError exactly when the WAN is bridged or has a VLAN.  Left out are the
\* wireless uplink and requests that name a port twice.
NetworksReadBack ==
  ( /\ asked # NotAsked
    /\ conf.zone = "wired"
    /\ \A m, n \in Nets : m # n => asked[m] \cap asked[n] = {} )
  => IF Cardinality(asked["wan"]) > 1 THEN ReadRaises(conf)
     ELSE /\ ~ReadRaises(conf)
          /\ get_settings(conf)["wan"] = asked["wan"]
          /\ get_settings(conf)["lan"] = asked["lan"]
          /\ asked["guest"] \subseteq get_settings(conf)["guest"]
          /\ get_settings(conf)["guest"] \subseteq asked["guest"] \cup GuestLeftover(conf)

\* A tunnel that was replaced leaves no firewall rule open, and neither the
\* 6in4 peer and tunnel id nor IPv6 addresses and prefixes of another type:
\* wan.update_settings keeps these in line with the type last chosen, and
\* with it the options which that type needs.  It is not about ipaddr, clientid
\* and ip6gw, which the code leaves when another type is chosen: the mapped
\* address of 6to4 stays, although a comment there speaks of a cleanup.
TunnelFollowsType == TunnelFits(conf)

\* Once all requests are over, what they saved is in use: the network was
\* restarted after the last change of it, however the requests overlapped.  A
\* limit of the guest network has its service, and sysntpd and the regulatory
\* domain follow the saved time settings, unless updates overlapped or a
\* command failed and no update has run alone since.
SavedIsApplied ==
  Quiet =>
    /\ unapplied => restart
    /\ "guest" \notin crossed => (conf.limit => sqm)
    /\ "time" \notin crossed => ntpd = conf.ntp /\ domain = conf.country

=============================================================================
