----------------------------- MODULE LanProofs -----------------------------
(***************************************************************************)
(* Proofs about LanDhcp, for any sections, addresses, networks, names and  *)
(* MAC addresses.  TypeOK and LeasesInNetwork are inductive together; that *)
(* no request makes two sections clash follows for each request from what  *)
(* its checks establish, whatever the sections were before.                *)
(***************************************************************************)
EXTENDS LanDhcp, TLAPS

IInv == TypeOK /\ LeasesInNetwork

Sections == [Section -> HostSection \cup {Absent}]
Answers == [to : Request, is : Answer]
Lans == [mode : {"managed", "unmanaged"}, router : Addr, size : Size,
         ignore : BOOLEAN, start : Offset, limit : Offset]

(* The body of NoNewClash. *)
NoClash ==
  \A s, t \in Section : s # t =>
    /\ CommonMacs(hosts', s, t) \subseteq CommonMacs(hosts, s, t)
    /\ CommonIps(hosts', s, t) \subseteq CommonIps(hosts, s, t)
    /\ CommonNames(hosts', s, t) \subseteq CommonNames(hosts, s, t)

(* Written section by section: what Outside says of one. *)
LEMMA OutsideSection ==
  ASSUME NEW sections, NEW network, NEW s \in Section
  PROVE  s \in Outside(sections, network) <=>
           /\ sections[s] # Absent
           /\ sections[s].ip \in Addr
           /\ ~in_network(sections[s].ip, network.router, network.size)
BY DEF Outside

(* The initial states satisfy the invariant. *)
LEMMA InitIInv == Init => IInv
<1> SUFFICES ASSUME Init PROVE IInv
  OBVIOUS
<1>1. reply \in Answers /\ hosts \in Sections /\ strays \in SUBSET Section
  BY DEF Init, Request, Answer, Answers, Sections
<1>2. lan \in Lans
  BY DEF Init, Lans
<1>3. LeasesInNetwork
  BY DEF Init, LeasesInNetwork, Outside
<1>4. QED
  BY <1>1, <1>2, <1>3 DEF IInv, TypeOK, Answers, Sections, Lans

(* Answers have their type. *)
LEMMA CommittedType ==
  ASSUME NEW request \in Request, Committed(request)
  PROVE  reply' \in Answers
BY DEF Committed, Answered, Answer, Answers

(* A step that puts no section outside of the network but those it is      *)
(* excused for keeps the invariant.                                        *)
LEMMA StepKeeps ==
  ASSUME IInv, NEW S \in SUBSET Section, Excuses(S),
         hosts' \in Sections, lan' \in Lans, reply' \in Answers,
         \A s \in Section \ S : s \in Outside(hosts', lan') => s \in Outside(hosts, lan)
  PROVE  IInv'
<1>1. Outside(hosts', lan') \subseteq Section
  BY DEF Outside
<1>2. Outside(hosts', lan') \subseteq strays \cup S
  BY <1>1 DEF IInv, LeasesInNetwork
<1>3. strays' = Outside(hosts', lan')
  BY <1>2 DEF Excuses
<1>4. LeasesInNetwork'
  BY <1>3 DEF LeasesInNetwork, Outside, in_network, network_address
<1>5. TypeOK'
  BY <1>1, <1>3 DEF IInv, TypeOK, Answers, Sections, Lans
<1>6. QED
  BY <1>4, <1>5 DEF IInv

(* A refused request changes nothing but the answer. *)
LEMMA RefusedKeeps ==
  ASSUME IInv, NEW request \in Request, NEW answer \in Answer, Refused(request, answer)
  PROVE  IInv' /\ NoClash
<1>1. hosts' = hosts /\ lan' = lan /\ strays' = strays /\ reply' \in Answers
  BY DEF Refused, Answered, Answers
<1>2. IInv'
  BY <1>1 DEF IInv, TypeOK, Answers, LeasesInNetwork, Outside, in_network, network_address
<1>3. NoClash
  BY <1>1 DEF NoClash
<1>4. QED
  BY <1>2, <1>3

(* Sections that are deleted, or lose MAC addresses, make no new clash. *)
LEMMA ShrinkNoClash ==
  ASSUME \A s \in Section :
           \/ hosts'[s] = Absent
           \/ /\ hosts[s] # Absent
              /\ hosts'[s].mac \subseteq hosts[s].mac
              /\ hosts'[s].ip = hosts[s].ip /\ hosts'[s].name = hosts[s].name
  PROVE  NoClash
<1>1. ASSUME NEW s \in Section, _minimal_valid_host_section(hosts'[s])
      PROVE  /\ _minimal_valid_host_section(hosts[s])
             /\ hosts'[s].ip = hosts[s].ip /\ hosts'[s].name = hosts[s].name
  BY <1>1 DEF _minimal_valid_host_section
<1>2. SUFFICES ASSUME NEW s \in Section, NEW t \in Section, s # t
               PROVE  /\ CommonMacs(hosts', s, t) \subseteq CommonMacs(hosts, s, t)
                      /\ CommonIps(hosts', s, t) \subseteq CommonIps(hosts, s, t)
                      /\ CommonNames(hosts', s, t) \subseteq CommonNames(hosts, s, t)
  BY DEF NoClash
<1>3. CommonMacs(hosts', s, t) \subseteq CommonMacs(hosts, s, t)
  BY DEF CommonMacs
<1>4. CommonIps(hosts', s, t) \subseteq CommonIps(hosts, s, t)
  BY <1>1 DEF CommonIps
<1>5. CommonNames(hosts', s, t) \subseteq CommonNames(hosts, s, t)
  BY <1>1 DEF CommonNames
<1>6. QED
  BY <1>3, <1>4, <1>5

(* A section that is written makes no new clash if whatever it shares with *)
(* another section it shared before: what the checks of set_dhcp_client    *)
(* and update_dhcp_client establish.                                       *)
LEMMA WriteNoClash ==
  ASSUME hosts \in Sections, NEW s \in Section, NEW new \in HostSection,
         hosts' = [hosts EXCEPT ![s] = new],
         \A t \in Section \ {s} : hosts[t] # Absent =>
           \A mac \in new.mac \cap hosts[t].mac : hosts[s] # Absent /\ mac \in hosts[s].mac,
         \A t \in Section \ {s} : _minimal_valid_host_section(hosts[t]) =>
           /\ new.ip \in Addr /\ hosts[t].ip = new.ip =>
                _minimal_valid_host_section(hosts[s]) /\ hosts[s].ip = new.ip
           /\ new.name \in Host /\ hosts[t].name = new.name =>
                _minimal_valid_host_section(hosts[s]) /\ hosts[s].name = new.name
  PROVE  NoClash
<1>1. hosts'[s] = new /\ \A t \in Section \ {s} : hosts'[t] = hosts[t]
  BY DEF Sections
<1>2. SUFFICES ASSUME NEW a \in Section, NEW b \in Section, a # b
               PROVE  /\ CommonMacs(hosts', a, b) \subseteq CommonMacs(hosts, a, b)
                      /\ CommonIps(hosts', a, b) \subseteq CommonIps(hosts, a, b)
                      /\ CommonNames(hosts', a, b) \subseteq CommonNames(hosts, a, b)
  BY DEF NoClash
<1>3. CASE a # s /\ b # s
  <2>1. hosts'[a] = hosts[a] /\ hosts'[b] = hosts[b]
    BY <1>1, <1>3
  <2>2. QED
    BY <2>1 DEF CommonMacs, CommonIps, CommonNames
<1>4. ASSUME NEW t \in Section, t # s, {a, b} = {s, t}
      PROVE  /\ CommonMacs(hosts', a, b) \subseteq CommonMacs(hosts, a, b)
             /\ CommonIps(hosts', a, b) \subseteq CommonIps(hosts, a, b)
             /\ CommonNames(hosts', a, b) \subseteq CommonNames(hosts, a, b)
  <2>1. hosts'[s] = new /\ hosts'[t] = hosts[t]
    BY <1>1, <1>4
  <2>2. ASSUME NEW mac \in Mac, \A u \in {s, t} : hosts'[u] # Absent /\ mac \in hosts'[u].mac
        PROVE  \A u \in {s, t} : hosts[u] # Absent /\ mac \in hosts[u].mac
    BY <1>4, <2>1, <2>2
  <2>3. ASSUME NEW ip \in Addr,
               \A u \in {s, t} : _minimal_valid_host_section(hosts'[u]) /\ hosts'[u].ip = ip
        PROVE  \A u \in {s, t} : _minimal_valid_host_section(hosts[u]) /\ hosts[u].ip = ip
    <3>1. new.ip = ip /\ hosts[t].ip = ip /\ _minimal_valid_host_section(hosts[t])
      BY <2>1, <2>3
    <3>2. QED
      BY <1>4, <3>1
  <2>4. ASSUME NEW name \in Host,
               \A u \in {s, t} : _minimal_valid_host_section(hosts'[u]) /\ hosts'[u].name = name
        PROVE  \A u \in {s, t} : _minimal_valid_host_section(hosts[u]) /\ hosts[u].name = name
    <3>1. new.name = name /\ hosts[t].name = name /\ _minimal_valid_host_section(hosts[t])
      BY <2>1, <2>4
    <3>2. QED
      BY <1>4, <3>1
  <2>5. QED
    BY <1>4, <2>2, <2>3, <2>4 DEF CommonMacs, CommonIps, CommonNames
<1>5. QED
  BY <1>2, <1>3, <1>4

(* update_settings with DHCP enabled filters the leases. *)
LEMMA UpdateServingKeeps ==
  ASSUME IInv, NEW router \in Addr, NEW size \in Size, NEW start \in Offset, NEW limit \in Offset,
         UpdateServing(router, size, start, limit)
  PROVE  IInv' /\ NoClash
<1> DEFINE ranged == {s \in Written : InDynamicRange(hosts[s], router, start, limit)}
           left == {s \in Written : LeftNetwork(hosts[s], router, size)}
<1>a. "update_settings" \in Request /\ {"False", "raised"} \subseteq Answer
  BY DEF Request, Answer
<1>1. CASE ~check_dynamic_ranges(router, size, start, limit) \/ ranged \cap left # {}
  <2>1. \E answer \in Answer : Refused("update_settings", answer)
    BY <1>1, <1>a DEF UpdateServing
  <2>2. QED
    BY <2>1, <1>a, RefusedKeeps
<1>2. CASE check_dynamic_ranges(router, size, start, limit) /\ ranged \cap left = {}
  <2>1. /\ lan' = [mode |-> "managed", router |-> router, size |-> size,
                   ignore |-> FALSE, start |-> start, limit |-> limit]
        /\ hosts' = [s \in Section |-> IF s \in ranged \cup left THEN Absent ELSE hosts[s]]
        /\ Committed("update_settings")
        /\ Excuses({})
    BY <1>2 DEF UpdateServing
  <2>2. reply' \in Answers /\ lan' \in Lans /\ hosts' \in Sections
    <3>1. hosts \in Sections
      BY DEF IInv, TypeOK, Sections
    <3>2. QED
      BY <2>1, <3>1, <1>a, CommittedType DEF Lans, Sections
  <2>3. ASSUME NEW s \in Section, s \in Outside(hosts', lan')
        PROVE  s \in Outside(hosts, lan)
    <3>1. /\ hosts'[s] = hosts[s] /\ hosts[s] # Absent /\ hosts[s].ip \in Addr
          /\ ~in_network(hosts[s].ip, router, size)
      BY <2>1, <2>3, OutsideSection
    <3>2. s \notin left /\ s \in Written
      BY <2>1, <3>1 DEF Written
    <3>3. ~in_network(hosts[s].ip, lan.router, lan.size)
      BY <3>1, <3>2 DEF LeftNetwork
    <3>4. QED
      BY <3>1, <3>3, OutsideSection
  <2>4. IInv'
    BY <2>1, <2>2, <2>3, StepKeeps
  <2>5. NoClash
    <3>1. \A s \in Section : hosts'[s] = Absent \/ (hosts'[s] = hosts[s] /\ hosts[s] # Absent)
      BY <2>1
    <3>2. QED
      BY <3>1, ShrinkNoClash
  <2>6. QED
    BY <2>4, <2>5
<1>3. QED
  BY <1>1, <1>2

(* The other settings keep the leases. *)
LEMMA UpdateOtherKeeps ==
  ASSUME IInv, NEW router \in Addr, NEW size \in Size,
         \/ UpdateNotServing(router, size)
         \/ UpdateUnmanagedStatic(router, size)
         \/ UpdateUnmanaged
  PROVE  IInv' /\ NoClash
<1>1. hosts' = hosts /\ Committed("update_settings")
  BY DEF UpdateNotServing, UpdateUnmanagedStatic, UpdateUnmanaged
<1>2. reply' \in Answers /\ hosts' \in Sections
  BY <1>1, CommittedType DEF Request, IInv, TypeOK, Sections
<1>3. lan \in Lans
  BY DEF IInv, TypeOK, Lans
<1>4. lan' \in Lans
  BY <1>3 DEF UpdateNotServing, UpdateUnmanagedStatic, UpdateUnmanaged, Lans
<1>5. \/ Excuses(Section)
      \/ Excuses({}) /\ lan'.router = lan.router /\ lan'.size = lan.size
  BY <1>3 DEF UpdateNotServing, UpdateUnmanagedStatic, UpdateUnmanaged, Lans
<1>6. CASE Excuses(Section)
  BY <1>2, <1>4, <1>6, StepKeeps, <1>1 DEF NoClash
<1>7. CASE Excuses({}) /\ lan'.router = lan.router /\ lan'.size = lan.size
  <2>1. \A s \in Section : s \in Outside(hosts', lan') => s \in Outside(hosts, lan)
    BY <1>1, <1>7, OutsideSection
  <2>2. QED
    BY <1>2, <1>4, <1>7, <2>1, StepKeeps, <1>1 DEF NoClash
<1>8. QED
  BY <1>5, <1>6, <1>7

(* A valid address lies in the network and is no complete section's. *)
LEMMA ValidAddress ==
  ASSUME NEW ip \in Ip, _validate_dhcp_host_ip(ip) \in {"valid", "ip-exists"}
  PROVE  /\ ip = Ignore \/ in_network(ip, lan.router, lan.size)
         /\ _validate_dhcp_host_ip(ip) = "valid" => (ip = Ignore \/ _ip_is_unique(ip))
BY DEF _validate_dhcp_host_ip

(* Whatever the check of an address returns is an answer, or "valid". *)
LEMMA ValidateType ==
  ASSUME NEW ip \in Ip
  PROVE  _validate_dhcp_host_ip(ip) \in Answer \cup {"valid"}
BY DEF _validate_dhcp_host_ip, Answer, Reason

(* A section that is written with an address in the network, or with       *)
(* "ignore", keeps the invariant.                                          *)
LEMMA WriteKeeps ==
  ASSUME IInv, NEW s \in Section, NEW new \in HostSection \cup {Absent},
         hosts' = [hosts EXCEPT ![s] = new], lan' = lan, reply' \in Answers, Excuses({}),
         s \in Outside(hosts', lan) => s \in Outside(hosts, lan)
  PROVE  IInv'
<1>1. hosts \in Sections /\ lan \in Lans
  BY DEF IInv, TypeOK, Sections, Lans
<1>2. hosts' \in Sections /\ lan' \in Lans
  BY <1>1 DEF Sections
<1>3. \A t \in Section \ {s} : hosts'[t] = hosts[t]
  BY <1>1 DEF Sections
<1>4. ASSUME NEW t \in Section, t \in Outside(hosts', lan')
      PROVE  t \in Outside(hosts, lan)
  <2>1. CASE t = s
    BY <1>4, <2>1
  <2>2. CASE t # s
    <3>1. hosts'[t] = hosts[t]
      BY <1>3, <2>2
    <3>2. QED
      BY <1>4, <3>1 DEF Outside
  <2>3. QED
    BY <2>1, <2>2
<1>5. QED
  BY <1>2, <1>4, StepKeeps

(* set_dhcp_client *)
LEMMA SetKeeps ==
  ASSUME IInv, NEW ip \in Ip, NEW mac \in Mac, NEW name \in Host, set_dhcp_client(ip, mac, name)
  PROVE  IInv' /\ NoClash
<1> DEFINE new == [mac |-> {mac}, ip |-> ip, name |-> name]
<1>a. "set_dhcp_client" \in Request /\ {"mac-exists", "hostname-exists"} \subseteq Answer
  BY DEF Request, Answer, Reason
<1>1. \/ \E answer \in Answer : Refused("set_dhcp_client", answer)
      \/ /\ ~_host_record_exists(mac)
         /\ _validate_dhcp_host_ip(ip) = "valid"
         /\ _hostname_is_unique(name)
         /\ \E s \in Section \ Written : hosts' = [hosts EXCEPT ![s] = new]
         /\ Committed("set_dhcp_client")
         /\ lan' = lan /\ Excuses({})
  BY <1>a, ValidateType DEF set_dhcp_client
<1>2. CASE \E answer \in Answer : Refused("set_dhcp_client", answer)
  BY <1>a, <1>2, RefusedKeeps
<1>3. ASSUME ~_host_record_exists(mac), _validate_dhcp_host_ip(ip) = "valid",
             _hostname_is_unique(name), NEW s \in Section \ Written,
             hosts' = [hosts EXCEPT ![s] = new], Committed("set_dhcp_client"),
             lan' = lan, Excuses({})
      PROVE  IInv' /\ NoClash
  <2>1. new \in HostSection /\ reply' \in Answers /\ hosts \in Sections
    BY <1>a, <1>3, CommittedType DEF HostSection, IInv, TypeOK, Sections
  <2>2. ip = Ignore \/ (in_network(ip, lan.router, lan.size) /\ _ip_is_unique(ip))
    BY <1>3, ValidAddress
  <2>3. new.mac = {mac} /\ new.ip = ip /\ new.name = name
    OBVIOUS
  <2>4. hosts'[s] = new
    BY <1>3, <2>1 DEF Sections
  <2>5. s \notin Outside(hosts', lan)
    BY <2>2, <2>3, <2>4, LanAssumption DEF Outside
  <2>6. \A t \in Section : hosts[t] # Absent => mac \notin hosts[t].mac
    BY <1>3 DEF _host_record_exists, Written
  <2>7. \A t \in Section : _minimal_valid_host_section(hosts[t]) =>
          (ip \in Addr => hosts[t].ip # ip) /\ hosts[t].name # name
    BY <1>3, <2>2, LanAssumption DEF _ip_is_unique, _hostname_is_unique
  <2> HIDE DEF new
  <2>8. IInv'
    BY <1>3, <2>1, <2>5, WriteKeeps
  <2>9. NoClash
    <3>1. \A t \in Section \ {s} : hosts[t] # Absent => new.mac \cap hosts[t].mac = {}
      BY <2>3, <2>6
    <3>2. \A t \in Section \ {s} : _minimal_valid_host_section(hosts[t]) =>
            ~(new.ip \in Addr /\ hosts[t].ip = new.ip) /\ hosts[t].name # new.name
      BY <2>3, <2>7
    <3>3. s \in Section
      BY <1>3
    <3>4. \A t \in Section \ {s} : hosts[t] # Absent =>
            \A m \in new.mac \cap hosts[t].mac : hosts[s] # Absent /\ m \in hosts[s].mac
      BY <3>1
    <3>5. \A t \in Section \ {s} : _minimal_valid_host_section(hosts[t]) =>
            /\ new.ip \in Addr /\ hosts[t].ip = new.ip =>
                 _minimal_valid_host_section(hosts[s]) /\ hosts[s].ip = new.ip
            /\ new.name \in Host /\ hosts[t].name = new.name =>
                 _minimal_valid_host_section(hosts[s]) /\ hosts[s].name = new.name
      BY <3>2
    <3>6. QED
      BY <1>3, <2>1, <3>3, <3>4, <3>5, WriteNoClash
  <2>10. QED
    BY <2>8, <2>9
<1>4. QED
  BY <1>1, <1>2, <1>3

(* update_dhcp_client: what the section shares with another one after the  *)
(* update, it keeps from before.                                           *)
LEMMA ReplaceKeeps ==
  ASSUME IInv, NEW ip \in Ip, NEW mac \in Mac, NEW name \in Host, NEW s \in Written,
         NEW old_mac \in hosts[s].mac, hosts[s].ip # Absent,
         UpdateError(hosts[s], ip, mac, name) = "valid",
         hosts' = [hosts EXCEPT ![s] = [mac |-> {mac}, ip |-> ip, name |-> name]],
         Committed("update_dhcp_client"), lan' = lan, Excuses({})
  PROVE  IInv' /\ NoClash
<1> DEFINE new == [mac |-> {mac}, ip |-> ip, name |-> name]
<1>1. /\ _validate_dhcp_host_ip(ip) = "valid"
           \/ (_validate_dhcp_host_ip(ip) = "ip-exists" /\ ip = hosts[s].ip)
      /\ _hostname_is_unique(name) \/ name = hosts[s].name
      /\ ~_host_record_exists(mac) \/ mac \in hosts[s].mac
  BY DEF UpdateError
<1>2. /\ new \in HostSection /\ reply' \in Answers /\ hosts \in Sections
      /\ s \in Section /\ hosts[s] # Absent
  BY CommittedType DEF HostSection, Request, IInv, TypeOK, Sections, Written
<1>3. /\ ip = Ignore \/ in_network(ip, lan.router, lan.size)
      /\ ip = Ignore \/ _ip_is_unique(ip) \/ ip = hosts[s].ip
  BY <1>1, ValidAddress
<1>4. new.mac = {mac} /\ new.ip = ip /\ new.name = name /\ hosts'[s] = new
  BY <1>2 DEF Sections
<1>5. s \notin Outside(hosts', lan)
  BY <1>2, <1>3, <1>4, LanAssumption DEF Outside
<1>6. _minimal_valid_host_section(hosts[s])
  BY <1>2 DEF _minimal_valid_host_section
<1>7. \A t \in Section : hosts[t] # Absent /\ mac \in hosts[t].mac => mac \in hosts[s].mac
  BY <1>1 DEF _host_record_exists, Written
<1>8. \A t \in Section : _minimal_valid_host_section(hosts[t]) =>
        /\ ip \in Addr /\ hosts[t].ip = ip => hosts[s].ip = ip
        /\ hosts[t].name = name => hosts[s].name = name
  BY <1>1, <1>3, LanAssumption DEF _ip_is_unique, _hostname_is_unique
<1>9. hosts' = [hosts EXCEPT ![s] = new]
  OBVIOUS
<1> HIDE DEF new
<1>10. IInv'
  BY <1>2, <1>5, <1>9, WriteKeeps
<1>11. NoClash
  <2>1. \A t \in Section \ {s} : hosts[t] # Absent =>
          \A m \in new.mac \cap hosts[t].mac : hosts[s] # Absent /\ m \in hosts[s].mac
    BY <1>2, <1>4, <1>7
  <2>2. \A t \in Section \ {s} : _minimal_valid_host_section(hosts[t]) =>
          /\ new.ip \in Addr /\ hosts[t].ip = new.ip =>
               _minimal_valid_host_section(hosts[s]) /\ hosts[s].ip = new.ip
          /\ new.name \in Host /\ hosts[t].name = new.name =>
               _minimal_valid_host_section(hosts[s]) /\ hosts[s].name = new.name
    BY <1>4, <1>6, <1>8
  <2>3. QED
    BY <1>2, <1>9, <2>1, <2>2, WriteNoClash
<1>12. QED
  BY <1>10, <1>11

(* update_dhcp_client *)
LEMMA UpdateKeeps ==
  ASSUME IInv, NEW ip \in Ip, NEW old_mac \in Mac, NEW mac \in Mac, NEW name \in Host,
         update_dhcp_client(ip, old_mac, mac, name)
  PROVE  IInv' /\ NoClash
<1>a. "update_dhcp_client" \in Request
  BY DEF Request
<1>b. {"mac-not-exists", "raised", "True", "hostname-exists", "mac-exists"} \subseteq Answer
  BY DEF Answer, Reason
<1>c. \A s \in Written : UpdateError(hosts[s], ip, mac, name) \in Answer \cup {"valid"}
  BY <1>b, ValidateType DEF UpdateError
<1>1. \/ \E answer \in Answer : Refused("update_dhcp_client", answer)
      \/ \E s \in Written :
           /\ old_mac \in hosts[s].mac /\ hosts[s].ip # Absent
           /\ UpdateError(hosts[s], ip, mac, name) = "valid"
           /\ hosts' = [hosts EXCEPT ![s] = [mac |-> {mac}, ip |-> ip, name |-> name]]
           /\ Committed("update_dhcp_client")
           /\ lan' = lan /\ Excuses({})
  BY <1>b, <1>c DEF update_dhcp_client
<1>2. QED
  BY <1>a, <1>1, RefusedKeeps, ReplaceKeeps

(* delete_dhcp_client removes a section or one of its MAC addresses. *)
LEMMA DeleteKeeps ==
  ASSUME IInv, NEW mac \in Mac, delete_dhcp_client(mac)
  PROVE  IInv' /\ NoClash
<1>a. "delete_dhcp_client" \in Request /\ "mac-not-exists" \in Answer
  BY DEF Request, Answer, Reason
<1>1. CASE Refused("delete_dhcp_client", "mac-not-exists")
  BY <1>a, <1>1, RefusedKeeps
<1>2. ASSUME NEW s \in Written, mac \in hosts[s].mac, Committed("delete_dhcp_client"),
             hosts' = [hosts EXCEPT ![s] = IF hosts[s].mac = {mac} THEN Absent
                                           ELSE [hosts[s] EXCEPT !.mac = @ \ {mac}]],
             lan' = lan, Excuses({})
      PROVE  IInv' /\ NoClash
  <2> DEFINE new == IF hosts[s].mac = {mac} THEN Absent
                    ELSE [hosts[s] EXCEPT !.mac = @ \ {mac}]
  <2>1. /\ reply' \in Answers /\ hosts \in Sections /\ s \in Section
        /\ hosts[s] \in HostSection /\ hosts[s] # Absent
    <3>1. hosts \in Sections /\ s \in Section /\ hosts[s] # Absent
      BY DEF IInv, TypeOK, Sections, Written
    <3>2. QED
      BY <1>a, <1>2, <3>1, CommittedType DEF Sections
  <2>2. /\ new \in HostSection \cup {Absent}
        /\ new # Absent => /\ new.mac \subseteq hosts[s].mac
                           /\ new.ip = hosts[s].ip /\ new.name = hosts[s].name
    BY <2>1 DEF HostSection
  <2>3. hosts' = [hosts EXCEPT ![s] = new]
    BY <1>2
  <2> HIDE DEF new
  <2>4. hosts'[s] = new /\ \A t \in Section \ {s} : hosts'[t] = hosts[t]
    BY <2>1, <2>3 DEF Sections
  <2>5. s \in Outside(hosts', lan) => s \in Outside(hosts, lan)
    BY <2>1, <2>2, <2>4, OutsideSection
  <2>6. IInv'
    BY <1>2, <2>1, <2>2, <2>3, <2>5, WriteKeeps
  <2>7. \A t \in Section : \/ hosts'[t] = Absent
                           \/ /\ hosts[t] # Absent
                              /\ hosts'[t].mac \subseteq hosts[t].mac
                              /\ hosts'[t].ip = hosts[t].ip /\ hosts'[t].name = hosts[t].name
    BY <2>1, <2>2, <2>4
  <2>8. NoClash
    BY <2>7, ShrinkNoClash
  <2>9. QED
    BY <2>6, <2>8
<1>3. QED
  BY <1>1, <1>2 DEF delete_dhcp_client

(* A section made in LuCI *)
LEMMA LuciKeeps ==
  ASSUME IInv, NEW s \in Section, NEW h \in HostSection \cup {Absent}, LuciLease(s, h)
  PROVE  IInv' /\ reply'.to = "none"
<1>1. hosts \in Sections /\ lan \in Lans
  BY DEF IInv, TypeOK, Sections, Lans
<1>2. /\ reply' \in Answers /\ reply'.to = "none"
      /\ lan' \in Lans /\ hosts' \in Sections /\ Excuses({s})
  BY <1>1 DEF LuciLease, Request, Answer, Answers, Sections
<1>3. \A t \in Section \ {s} : t \in Outside(hosts', lan') => t \in Outside(hosts, lan)
  <2>1. \A t \in Section \ {s} : hosts'[t] = hosts[t]
    BY <1>1 DEF LuciLease, Sections
  <2>2. lan' = lan
    BY DEF LuciLease
  <2>3. QED
    BY <2>1, <2>2 DEF Outside
<1>4. QED
  BY <1>2, <1>3, StepKeeps

(* Every step keeps the invariant, and a request makes no clash. *)
LEMMA NextKeeps ==
  ASSUME IInv, Next
  PROVE  IInv' /\ (reply'.to # "none" => NoClash)
<1>1. PICK router \in Addr, size \in Size : TRUE
  BY LanAssumption
<1>2. QED
  BY <1>1, UpdateServingKeeps, UpdateOtherKeeps, SetKeeps, UpdateKeeps, DeleteKeeps, LuciKeeps
     DEF Next

LEMMA NextIInv == IInv /\ [Next]_vars => IInv'
<1> SUFFICES ASSUME IInv, [Next]_vars PROVE IInv'
  OBVIOUS
<1>1. CASE UNCHANGED vars
  BY <1>1 DEF vars, IInv, TypeOK, LeasesInNetwork, Outside, in_network, network_address
<1>2. QED
  BY <1>1, NextKeeps

(* The inductive invariant holds in every behaviour of the LAN module. *)
THEOREM Invariance == Spec => []IInv
BY InitIInv, NextIInv, PTL DEF Spec

(* Whatever sections LuCI has left, incomplete or clashing, no request     *)
(* makes two sections clash that did not.                                  *)
THEOREM LanNoNewClash == Spec => NoNewClash
<1>1. IInv /\ [Next]_vars => [reply'.to # "none" => NoClash]_vars
  BY NextKeeps
<1>2. QED
  BY <1>1, Invariance, PTL DEF Spec, NoNewClash, NoClash

(* Changes of a network that is served leave no lease outside of it. *)
THEOREM LanLeasesInNetwork == Spec => []LeasesInNetwork
<1>1. IInv => LeasesInNetwork
  BY DEF IInv
<1>2. QED
  BY <1>1, Invariance, PTL

(* What get_client_list lists: the leases of dnsmasq without the clients   *)
(* that have a section, and the sections.                                  *)
LEMMA ListedRecord ==
  ASSUME NEW leases, NEW first, NEW kept, NEW r \in get_client_list(leases, first, kept)
  PROVE  \/ /\ r = [mac |-> r.mac, ip |-> leases[r.mac], static |-> FALSE]
            /\ \A s \in kept : first[s] # r.mac
         \/ \E s \in kept : r = [mac |-> first[s], ip |-> hosts[s].ip, static |-> TRUE]
BY DEF get_client_list, get_dhcp_clients

(* What get_settings lists can be acted upon: one section stays for each   *)
(* MAC address, and a section that shares none of its own and is no stray  *)
(* is one of them.                                                         *)
THEOREM LanClientsListed == Spec => []ClientsListed
<1>1. IInv => ClientsListed
  <2> SUFFICES ASSUME IInv, NEW leases \in LeaseFiles, NEW first \in FirstMacs,
                      NEW kept \in StaticLeases(first),
                      NEW clients, clients = get_settings(leases, first, kept).clients
               PROVE  /\ \A q, r \in clients : q.mac = r.mac => q = r
                      /\ get_settings(leases, first, kept).enabled =>
                           \A s \in Section \ strays :
                             /\ _minimal_valid_host_section(hosts[s])
                             /\ \A t \in Written \ {s} : hosts[s].mac \cap hosts[t].mac = {}
                             => \E r \in clients :
                                  r.mac \in hosts[s].mac /\ r.ip = hosts[s].ip /\ r.static
    BY DEF ClientsListed
  <2>1. clients = (IF lan.ignore THEN {} ELSE get_client_list(leases, first, kept))
    BY DEF get_settings
  <2>2. /\ \A s \in Leased : first[s] \in hosts[s].mac
        /\ kept \subseteq Leased
        /\ \A s \in Leased : \E t \in kept : first[t] = first[s]
        /\ \A s, t \in kept : first[s] = first[t] => s = t
    BY DEF FirstMacs, StaticLeases
  <2>3. ASSUME NEW q \in get_client_list(leases, first, kept),
               NEW r \in get_client_list(leases, first, kept), q.mac = r.mac
        PROVE  q = r
    <3> DEFINE leased(x) == x = [mac |-> x.mac, ip |-> leases[x.mac], static |-> FALSE]
               of(x, s) == x = [mac |-> first[s], ip |-> hosts[s].ip, static |-> TRUE]
    <3>1. CASE leased(q) /\ leased(r)
      BY <2>3, <3>1
    <3>2. ASSUME NEW s \in kept, of(q, s), NEW t \in kept, of(r, t)
          PROVE  q = r
      <4>1. first[s] = first[t]
        BY <2>3, <3>2
      <4> QED  BY <2>2, <3>2, <4>1
    <3> QED  BY <2>3, <3>1, <3>2, ListedRecord
  <2>4. ASSUME ~lan.ignore, NEW s \in Section \ strays, _minimal_valid_host_section(hosts[s]),
               \A t \in Written \ {s} : hosts[s].mac \cap hosts[t].mac = {}
        PROVE  \E r \in get_client_list(leases, first, kept) :
                 r.mac \in hosts[s].mac /\ r.ip = hosts[s].ip /\ r.static
    <3>1. s \notin Outside(hosts, lan) /\ hosts[s] # Absent /\ hosts[s].ip \in Ip
      <4>1. hosts[s] # Absent /\ hosts[s].ip # Absent
        BY <2>4 DEF _minimal_valid_host_section
      <4>2. hosts[s] \in HostSection
        BY <4>1 DEF IInv, TypeOK
      <4> QED  BY <4>1, <4>2 DEF HostSection, IInv, LeasesInNetwork
    <3>2. s \in Leased
      BY <2>4, <3>1, OutsideSection DEF Leased, Ip
    <3>3. PICK t \in kept : first[t] = first[s]
      BY <2>2, <3>2
    <3>4. t \in Written /\ first[s] \in hosts[s].mac /\ first[s] \in hosts[t].mac
      BY <2>2, <3>2, <3>3 DEF Leased, Written, _minimal_valid_host_section
    <3>5. t = s
      BY <2>4, <3>4
    <3>6. [mac |-> first[s], ip |-> hosts[s].ip, static |-> TRUE] \in get_client_list(leases, first, kept)
      BY <3>3, <3>5 DEF get_client_list
    <3> QED  BY <3>4, <3>6
  <2>5. get_settings(leases, first, kept).enabled = ~lan.ignore
    BY DEF get_settings
  <2> QED  BY <2>1, <2>3, <2>4, <2>5
<1>2. QED
  BY <1>1, Invariance, PTL
=============================================================================
