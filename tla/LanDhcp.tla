------------------------------ MODULE LanDhcp ------------------------------
(***************************************************************************)
(* foris_controller_backends.lan and its module: the LAN settings and the  *)
(* static DHCP leases (the "host" sections of the dhcp config).            *)
(*                                                                         *)
(* A request reads and writes in one UCI transaction, so it is one step    *)
(* (UciBackend shows that transactions are atomic); an exception raised in *)
(* it discards what it staged.  An IPv4 address is a number, a netmask the *)
(* size of the network, a power of two.  Names and MAC addresses are       *)
(* compared after upper(), so they are plain values.  A section may also    *)
(* be written by hand or in LuCI, outside of this program: it may then be  *)
(* incomplete, or clash with others.                                       *)
(***************************************************************************)
EXTENDS Integers, FiniteSets

CONSTANTS
  Section,      \* names of host sections: a bound on their number
  Absent,       \* an option or a section that is missing
  Mac, Host,    \* MAC addresses, host names
  Addr, Ignore, \* IPv4 addresses, and "ignore": no address for this client
  Size,         \* sizes of networks
  Offset        \* values of dhcp start and dhcp limit

ASSUME LanAssumption ==
  /\ Addr \subseteq Nat /\ Addr # {}
  /\ Size \subseteq Nat \ {0} /\ Size # {}
  /\ Offset \subseteq Nat /\ Offset # {}
  /\ "" \notin Host /\ Ignore \notin Addr

VARIABLES
  lan,      \* network.lan and dhcp.lan
  hosts,    \* the host sections
  reply,    \* the latest request and how it was answered
  strays    \* history: sections that the lease filter was not to keep in the network

vars == <<lan, hosts, reply, strays>>

Ip == Addr \cup {Ignore}

\* no MAC address: the option is missing; a name may be missing or empty
HostSection == [mac : SUBSET Mac, ip : Ip \cup {Absent}, name : Host \cup {""}]

ASSUME AbsentAssumption == Absent \notin HostSection \cup Ip

Reason == {"out-of-network", "disabled", "ip-exists", "mac-exists", "mac-not-exists",
           "hostname-exists"}
\* "False": refused without a reason, "raised": an exception in the transaction,
\* "failed": an exception after the commit
Answer == {"True", "False", "raised", "failed"} \cup Reason
Request == {"none", "update_settings", "set_dhcp_client", "update_dhcp_client",
            "delete_dhcp_client"}

network_address(ip, size) == ip - (ip % size)

in_network(ip, root, size) == network_address(ip, size) = network_address(root, size)

in_range(ip, start_ip, start, limit) ==
  LET first == start_ip + start IN first <= ip /\ ip <= first + limit

check_dynamic_ranges(router, size, start, limit) ==
  LET first == network_address(router, size) + start
      last == first + limit
  IN  /\ in_network(first, router, size) /\ in_network(last, router, size)
      /\ ~(first <= router /\ router <= last)

Serving == lan.mode = "managed" /\ ~lan.ignore

Answered(request, answer) == reply' = [to |-> request, is |-> answer]

\* the changes are committed; what follows (restart of dnsmasq or of the network,
\* hooks of other modules) may fail
Committed(request) == \E answer \in {"True", "failed"} : Answered(request, answer)

Refused(request, answer) == Answered(request, answer) /\ UNCHANGED <<lan, hosts, strays>>

Written == {s \in Section : hosts[s] # Absent}

\* the sections of the map sections whose address lies outside of network
Outside(sections, network) ==
  {s \in Section : /\ sections[s] # Absent
                   /\ sections[s].ip \in Addr
                   /\ ~in_network(sections[s].ip, network.router, network.size)}

\* of the sections that are outside after the step, those that were it before or
\* that the step may leave there
Excuses(S) == strays' = Outside(hosts', lan') \cap (strays \cup S)

_host_record_exists(mac) == \E s \in Written : mac \in hosts[s].mac

_minimal_valid_host_section(h) == h # Absent /\ h.mac # {} /\ h.ip # Absent

_hostname_is_unique(name) ==
  \A s \in Section : _minimal_valid_host_section(hosts[s]) => hosts[s].name # name

_ip_is_unique(ip) ==
  \A s \in Section : _minimal_valid_host_section(hosts[s]) => hosts[s].ip # ip

_validate_dhcp_host_ip(ip) ==
  IF ip = Ignore THEN "valid"
  ELSE IF ~in_network(ip, lan.router, lan.size) THEN "out-of-network"
  ELSE IF ~Serving THEN "disabled"
  ELSE IF ~_ip_is_unique(ip) THEN "ip-exists"
  ELSE "valid"

Init ==
  /\ lan \in [mode : {"managed"}, router : Addr, size : Size, ignore : {FALSE},
              start : Offset, limit : Offset]
  /\ check_dynamic_ranges(lan.router, lan.size, lan.start, lan.limit)
  /\ hosts = [s \in Section |-> Absent]
  /\ reply = [to |-> "none", is |-> "True"]
  /\ strays = {}

-----------------------------------------------------------------------------
(* update_settings *)

\* filter_dhcp_client_records: the two reasons to delete a section
InDynamicRange(h, router, start, limit) ==
  h.ip \in Addr /\ in_range(h.ip, router, start, limit)

\* faulty: an address of the new network is taken for one that left it
LeftNetworkSwapped(h, router, size) ==
  /\ h.ip \in Addr
  /\ in_network(h.ip, router, size) /\ ~in_network(h.ip, lan.router, lan.size)

LeftNetwork(h, router, size) ==
  /\ h.ip \in Addr
  /\ in_network(h.ip, lan.router, lan.size) /\ ~in_network(h.ip, router, size)

\* mode "managed" with DHCP enabled.  A section that is deleted for both reasons
\* is deleted twice, and uci fails on the second.
UpdateServing(router, size, start, limit) ==
  LET ranged == {s \in Written : InDynamicRange(hosts[s], router, start, limit)}
      left == {s \in Written : LeftNetwork(hosts[s], router, size)}
  IN  IF ~check_dynamic_ranges(router, size, start, limit)
      THEN Refused("update_settings", "False")
      ELSE IF ranged \cap left # {}
      THEN Refused("update_settings", "raised")
      ELSE /\ lan' = [mode |-> "managed", router |-> router, size |-> size,
                      ignore |-> FALSE, start |-> start, limit |-> limit]
           /\ hosts' = [s \in Section |-> IF s \in ranged \cup left THEN Absent ELSE hosts[s]]
           /\ Committed("update_settings")
           /\ Excuses({})

\* mode "managed" with DHCP disabled
UpdateNotServing(router, size) ==
  /\ lan' = [lan EXCEPT !.mode = "managed", !.router = router, !.size = size, !.ignore = TRUE]
  /\ Committed("update_settings")
  /\ UNCHANGED hosts
  /\ Excuses(Section)

\* mode "unmanaged": only the type "static" has an address of its own
UpdateUnmanagedStatic(ip, size) ==
  /\ lan' = [lan EXCEPT !.mode = "unmanaged", !.router = ip, !.size = size, !.ignore = TRUE]
  /\ Committed("update_settings")
  /\ UNCHANGED hosts
  /\ Excuses(Section)

UpdateUnmanaged ==
  /\ lan' = [lan EXCEPT !.mode = "unmanaged", !.ignore = TRUE]
  /\ Committed("update_settings")
  /\ UNCHANGED hosts
  /\ Excuses({})

-----------------------------------------------------------------------------
(* The static leases *)

set_dhcp_client(ip, mac, name) ==
  LET err == IF _host_record_exists(mac) THEN "mac-exists"
             ELSE IF _validate_dhcp_host_ip(ip) # "valid" THEN _validate_dhcp_host_ip(ip)
             ELSE IF ~_hostname_is_unique(name) THEN "hostname-exists"
             ELSE "valid"
  IN  \/ err # "valid" /\ Refused("set_dhcp_client", err)
      \/ /\ err = "valid"
         /\ \E s \in Section \ Written :
              hosts' = [hosts EXCEPT ![s] = [mac |-> {mac}, ip |-> ip, name |-> name]]
         /\ Committed("set_dhcp_client")
         /\ UNCHANGED lan
         /\ Excuses({})

\* faulty: an address that exists is taken for the one of the record itself
UpdateErrorLax(h, ip, mac, name) ==
  LET err == _validate_dhcp_host_ip(ip)
  IN  IF err \notin {"valid", "ip-exists"} THEN err
      ELSE IF ~_hostname_is_unique(name) /\ name # h.name THEN "hostname-exists"
      ELSE IF _host_record_exists(mac) /\ mac \notin h.mac THEN "mac-exists"
      ELSE "valid"

\* An update whose record keeps its address, name or MAC address is not in
\* conflict with itself.
UpdateError(h, ip, mac, name) ==
  LET err == _validate_dhcp_host_ip(ip)
  IN  IF err # "valid" /\ (err # "ip-exists" \/ ip # h.ip) THEN err
      ELSE IF ~_hostname_is_unique(name) /\ name # h.name THEN "hostname-exists"
      ELSE IF _host_record_exists(mac) /\ mac \notin h.mac THEN "mac-exists"
      ELSE "valid"

\* The section is the first one with the MAC address, any one here.  If it has no
\* address or no name, the lookup of these raises KeyError.  A section of several
\* MAC addresses is replaced by one of the new address.
update_dhcp_client(ip, old_mac, mac, name) ==
  \/ /\ ~_host_record_exists(old_mac)
     /\ Refused("update_dhcp_client", "mac-not-exists")
  \/ \E s \in Written :
       LET h == hosts[s]
       IN  /\ old_mac \in h.mac
           /\ IF h.ip = Absent \/ h.name = ""
              THEN Refused("update_dhcp_client", "raised")
              ELSE IF h.name = name /\ h.ip = ip /\ mac \in h.mac
              THEN Refused("update_dhcp_client", "True")
              ELSE IF UpdateError(h, ip, mac, name) # "valid"
              THEN Refused("update_dhcp_client", UpdateError(h, ip, mac, name))
              ELSE /\ hosts' = [hosts EXCEPT ![s] = [mac |-> {mac}, ip |-> ip, name |-> name]]
                   /\ Committed("update_dhcp_client")
                   /\ UNCHANGED lan
                   /\ Excuses({})

delete_dhcp_client(mac) ==
  \/ /\ ~_host_record_exists(mac)
     /\ Refused("delete_dhcp_client", "mac-not-exists")
  \/ \E s \in Written :
       /\ mac \in hosts[s].mac
       /\ hosts' = [hosts EXCEPT ![s] = IF hosts[s].mac = {mac} THEN Absent
                                        ELSE [hosts[s] EXCEPT !.mac = @ \ {mac}]]
       /\ Committed("delete_dhcp_client")
       /\ UNCHANGED lan
       /\ Excuses({})

\* External: LuCI, or a user's editor, makes, changes or deletes a section.  It may
\* lack any option, have several MAC addresses, lie outside of the network and
\* clash with the others.
LuciLease(s, h) ==
  /\ hosts' = [hosts EXCEPT ![s] = h]
  /\ reply' = [to |-> "none", is |-> "True"]
  /\ UNCHANGED lan
  /\ Excuses({s})

Next ==
  \/ \E router \in Addr, size \in Size, start, limit \in Offset :
       UpdateServing(router, size, start, limit)
  \/ \E router \in Addr, size \in Size : UpdateNotServing(router, size)
  \/ \E router \in Addr, size \in Size : UpdateUnmanagedStatic(router, size)
  \/ UpdateUnmanaged
  \/ \E ip \in Ip, mac \in Mac, name \in Host : set_dhcp_client(ip, mac, name)
  \/ \E ip \in Ip, old_mac, mac \in Mac, name \in Host :
       update_dhcp_client(ip, old_mac, mac, name)
  \/ \E mac \in Mac : delete_dhcp_client(mac)
  \/ \E s \in Section, h \in HostSection \cup {Absent} : LuciLease(s, h)

Spec == Init /\ [][Next]_vars

-----------------------------------------------------------------------------
(* Reading.  leases is the lease file of dnsmasq, which has one line per    *)
(* client; first picks the MAC address that a section lists first.          *)

LeaseFiles == UNION {[macs -> Addr] : macs \in SUBSET Mac}

\* the sections that get_client_list does not skip
Leased ==
  {s \in Section : /\ _minimal_valid_host_section(hosts[s])
                   /\ \/ hosts[s].ip = Ignore
                      \/ in_network(hosts[s].ip, lan.router, lan.size)}

FirstMacs == {first \in [Leased -> Mac] : \A s \in Leased : first[s] \in hosts[s].mac}

\* static_leases_map: of the sections with the same first MAC address the last
\* one stays, any one here
StaticLeases(first) ==
  {kept \in SUBSET Leased :
     /\ \A s \in Leased : \E t \in kept : first[t] = first[s]
     /\ \A s, t \in kept : first[s] = first[t] => s = t}

get_dhcp_clients(leases) ==
  {[mac |-> mac, ip |-> leases[mac], static |-> FALSE] :
     mac \in {m \in DOMAIN leases : in_network(leases[m], lan.router, lan.size)}}

\* faulty: a client with a lease is listed with the address it happens to have
get_client_listLeased(leases, first, kept) ==
  LET file_records == get_dhcp_clients(leases)
      leased == {r.mac : r \in file_records}
  IN  {r \in file_records : \A s \in kept : first[s] # r.mac}
        \cup {[mac |-> first[s], static |-> TRUE,
               ip |-> IF first[s] \in leased THEN leases[first[s]] ELSE hosts[s].ip] : s \in kept}

\* A client with a static lease is listed once, with the address of that lease.
get_client_list(leases, first, kept) ==
  {r \in get_dhcp_clients(leases) : \A s \in kept : first[s] # r.mac}
    \cup {[mac |-> first[s], ip |-> hosts[s].ip, static |-> TRUE] : s \in kept}

get_settings(leases, first, kept) ==
  [mode |-> lan.mode, router |-> lan.router, size |-> lan.size, enabled |-> ~lan.ignore,
   start |-> lan.start, limit |-> lan.limit,
   clients |-> IF lan.ignore THEN {} ELSE get_client_list(leases, first, kept)]

-----------------------------------------------------------------------------
(* Types of the settings, the sections and the answers. *)
TypeOK ==
  /\ lan \in [mode : {"managed", "unmanaged"}, router : Addr, size : Size,
              ignore : BOOLEAN, start : Offset, limit : Offset]
  /\ hosts \in [Section -> HostSection \cup {Absent}]
  /\ reply \in [to : Request, is : Answer]
  /\ strays \in SUBSET Section

\* what two sections have in common: MAC addresses and, if both are complete,
\* the address and the name
CommonMacs(sections, s, t) ==
  {mac \in Mac : \A u \in {s, t} : sections[u] # Absent /\ mac \in sections[u].mac}
CommonIps(sections, s, t) ==
  {ip \in Addr : \A u \in {s, t} : _minimal_valid_host_section(sections[u]) /\ sections[u].ip = ip}
CommonNames(sections, s, t) ==
  {name \in Host : \A u \in {s, t} : _minimal_valid_host_section(sections[u]) /\ sections[u].name = name}

(* Whatever LuCI has left in the config, no request makes two host         *)
(* sections clash that did not: what they have in common after a request   *)
(* they had in common before it.  dnsmasq refuses a config with clashes.   *)
(* The checks look at the MAC addresses of every section, but at the       *)
(* addresses and names of complete sections only                           *)
(* (_minimal_valid_host_section): the name of a section without an address *)
(* may be given out again.                                                 *)
NoNewClash ==
  [][reply'.to # "none" =>
       \A s, t \in Section : s # t =>
         /\ CommonMacs(hosts', s, t) \subseteq CommonMacs(hosts, s, t)
         /\ CommonIps(hosts', s, t) \subseteq CommonIps(hosts, s, t)
         /\ CommonNames(hosts', s, t) \subseteq CommonNames(hosts, s, t)]_vars

(* A section has an address outside of the LAN only if LuCI put it there   *)
(* or the network was changed without the lease filter (DHCP disabled or   *)
(* mode "unmanaged"), and nothing has brought it back since:               *)
(* filter_dhcp_client_records removes every other one that a change of the *)
(* network leaves outside, complete or not, and no client request adds one *)
(* there.                                                                  *)
LeasesInNetwork == Outside(hosts, lan) \subseteq strays

(* Whatever leases dnsmasq has given out, what get_settings lists can be   *)
(* acted upon: a MAC address, by which the requests name a client, is      *)
(* listed once, and while DHCP is enabled every complete section is listed *)
(* with its own address, if it is not one of the strays and no other       *)
(* section has one of its MAC addresses.                                   *)
ClientsListed ==
  \A leases \in LeaseFiles, first \in FirstMacs : \A kept \in StaticLeases(first) :
    LET settings == get_settings(leases, first, kept)
    IN  /\ \A q, r \in settings.clients : q.mac = r.mac => q = r
        /\ settings.enabled =>
             \A s \in Section \ strays :
               /\ _minimal_valid_host_section(hosts[s])
               /\ \A t \in Written \ {s} : hosts[s].mac \cap hosts[t].mac = {}
               => \E r \in settings.clients :
                    r.mac \in hosts[s].mac /\ r.ip = hosts[s].ip /\ r.static

=============================================================================
