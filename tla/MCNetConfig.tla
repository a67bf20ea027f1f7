---------------------------- MODULE MCNetConfig ----------------------------
(* Instance of NetConfig: two ports or three, two radios, configurations   *)
(* of every age.                                                           *)
EXTENDS NetConfig, TLC

CONSTANTS p1, p2, p3

Symmetry == Permutations(Threads)

Assign(w, l, g, n) == [wan |-> w, lan |-> l, guest |-> g, none |-> n]

\* Every port in one network, with up to two of them in the WAN; one request
\* names a port twice, one leaves a port out.
MCNetworkRequests ==
  {Assign({p1}, {p2, p3}, {}, {}), Assign({}, {p1, p2}, {p3}, {}),
   Assign({p1, p2}, {p3}, {}, {}), Assign({p2}, {}, {p1}, {p3}),
   Assign({p1}, {p2, p3}, {p3}, {}), Assign({p1}, {p2}, {}, {})}

Base ==
  [ifname |-> [n \in Nets |-> {}],
   device |-> [wan |-> Dev(p1), lan |-> Bridge("lan"), guest |-> NoDevice],
   bridge |-> ("br_lan" :> {p2, p3}), zone |-> "wired", proto |-> "configured",
   wan6 |-> "dhcpv6", rules |-> {}, options |-> {}, guest |-> FALSE, limit |-> FALSE,
   country |-> "CZ", ntp |-> TRUE]

MCInitialConfigs ==
  { \* OpenWrt 19.07
    [Base EXCEPT !.ifname = [wan |-> {p1}, lan |-> {p2, p3}, guest |-> {}],
                 !.device = [n \in Nets |-> NoDevice], !.bridge = <<>>, !.proto = "none"],
    \* the same with a port in the guest network
    [Base EXCEPT !.ifname = [wan |-> {p1}, lan |-> {p2}, guest |-> {p3}],
                 !.device = [n \in Nets |-> NoDevice], !.bridge = <<>>, !.guest = TRUE],
    \* migrated, anonymous bridges, guest network in use
    [Base EXCEPT !.bridge = ("cfg_lan" :> {p2}) @@ ("cfg_guest" :> {p3}),
                 !.device = [@ EXCEPT !["guest"] = OldGuestBridge], !.guest = TRUE],
    \* migrated without a guest network, uplink over LTE
    [Base EXCEPT !.bridge = ("cfg_lan" :> {p2, p3}), !.zone = "wireless"],
    \* named bridges, guest network with a limit
    [Base EXCEPT !.bridge = ("br_lan" :> {p2}) @@ ("br_guest_turris" :> {p3}),
                 !.device = [@ EXCEPT !["guest"] = Bridge("guest")],
                 !.guest = TRUE, !.limit = TRUE] }

\* Fresh radios, and a single radio1.
MCInitialWireless ==
  {Detected(2), [Detected(2) EXCEPT !.radios = {1}, !.on = {1}]}
=============================================================================
