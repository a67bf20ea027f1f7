--------------------------- MODULE MqttAnnouncer ---------------------------
(***************************************************************************)
(* foris_controller.buses.mqtt: how MqttListener subscribes, and the       *)
(* announcer thread it starts when all subscriptions are confirmed, which  *)
(* tells the clients that the controller is there.                         *)
(*                                                                         *)
(* handle_on_connect and on_subscribe are callbacks of one thread, the bus *)
(* thread.  MqttListener.subscriptions is the pair of sets pending and     *)
(* passed.  Controller puts these steps into the life of a controller.     *)
(***************************************************************************)
EXTENDS Integers, FiniteSets

CONSTANTS
  NTopics,        \* topics subscribed on a connect (5 in the code)
  Period,         \* mqtt_announcer_period, 0: no announcements
  Devices,        \* netboot states that the device may start with
  MaxStops        \* bound: stops of the broker

ASSUME AnnouncerAssumption ==
  /\ NTopics \in Nat \ {0}
  /\ Period \in Nat
  /\ Devices \subseteq {"no", "booted", "ready"}
  /\ MaxStops \in Nat

VARIABLES
  broker,       \* "up" or "down"
  stops,        \* how often it stopped
  bus,          \* the bus thread: "offline", "online", "exiting" or "dead"
  mids,         \* message ids handed out
  acks,         \* SUBACKs on their way
  pending,      \* subscriptions that are False
  passed,       \* subscriptions that are True
  running,      \* announcer_thread_running
  announcer,    \* the announcer thread; "dead" without and "failed" with a client
  online,       \* its client is connected
  device,       \* what get_netboot_status would return
  netboot,      \* AdvertizementBase.netboot of running_adv
  told,         \* history: state of the latest advertizement
  beat          \* history: 0 or 1 in turn with every "running" that is sent

subscribing == <<mids, acks, pending, passed>>
announcing == <<netboot, told, beat>>
announcerVars == <<broker, stops, bus, subscribing, running, announcer, online, announcing, device>>

NETBOOT_FINAL == {"no", "ready"}

\* get_netboot: asks unless the state is final; a failing query is ignored
GetNetboot(known) == IF known \in NETBOOT_FINAL THEN {known} ELSE {known, device}

\* _publish_advertize: a message that is not sent is lost
Advertize(state) ==
  /\ told' = IF online THEN state ELSE told
  /\ beat' = IF online /\ state = "running" THEN 1 - beat ELSE beat

AnnouncerInit ==
  /\ broker = "up" /\ stops = 0
  /\ bus = "offline"
  /\ mids = 0 /\ acks = {} /\ pending = {} /\ passed = {}
  /\ running = FALSE
  /\ announcer = "none" /\ online = FALSE
  /\ device \in Devices
  /\ netboot = "unknown"
  /\ told = "none" /\ beat = 0

-----------------------------------------------------------------------------
(* Faulty variants of the steps below, the bugs the properties guard.      *)

\* the thread ends without a last advertizement
FarewellSilent ==
  /\ announcer = "loop" /\ bus = "dead"
  /\ announcer' = "exited"
  /\ UNCHANGED <<broker, stops, bus, subscribing, running, online, announcing, device>>

\* what was advertized is not advertized again
AnnounceOnce ==
  /\ announcer = "loop" /\ bus # "dead"
  /\ IF Period = 0 \/ told = "running" THEN UNCHANGED announcing
     ELSE netboot' \in GetNetboot(netboot) /\ Advertize("running")
  /\ UNCHANGED <<broker, stops, bus, subscribing, running, announcer, online, device>>

-----------------------------------------------------------------------------
(* The bus thread.                                                         *)

\* handle_on_connect: subscribes to all topics
OnConnect ==
  /\ broker = "up" /\ bus = "offline"
  /\ bus' = "online"
  /\ mids' = mids + NTopics
  /\ acks' = mids + 1..mids'
  /\ pending' = pending \cup mids + 1..mids'
  /\ UNCHANGED <<broker, stops, passed, running, announcer, online, announcing, device>>

\* rc # 0, of the connection or of a subscription: sys.exit(1)
OnConnectFails ==
  /\ broker = "up" /\ bus = "offline"
  /\ bus' = "exiting"
  /\ UNCHANGED <<broker, stops, subscribing, running, announcer, online, announcing, device>>

\* on_subscribe: starts the announcer when no subscription is False
OnSubscribe(mid) ==
  /\ bus = "online" /\ mid \in acks
  /\ acks' = acks \ {mid}
  /\ pending' = pending \ {mid}
  /\ passed' = passed \cup {mid}
  /\ IF pending' = {} /\ ~running
     THEN running' = TRUE /\ announcer' = "connect"
     ELSE UNCHANGED <<running, announcer>>
  /\ UNCHANGED <<broker, stops, bus, mids, online, announcing, device>>

-----------------------------------------------------------------------------
(* announcer_worker.                                                       *)

\* client.connect, loop_start and the entry points, which may fail to load;
\* running_adv is built
AnnouncerConnect ==
  /\ broker = "up"
  /\ announcer = "connect"
  /\ announcer' \in {"loop", "failed"}
  /\ netboot' \in GetNetboot("unknown")
  /\ UNCHANGED <<broker, stops, bus, subscribing, running, online, told, beat, device>>

\* client.connect raises: the thread is over and running stays True
AnnouncerRefused ==
  /\ broker = "down"
  /\ announcer = "connect"
  /\ announcer' = "dead"
  /\ UNCHANGED <<broker, stops, bus, subscribing, running, online, announcing, device>>

\* on_connect of the announcer's client, on every connection; the client has a
\* thread of its own, which goes on when the announcer has failed
AnnouncerOnConnect ==
  /\ broker = "up" /\ announcer \in {"loop", "failed"} /\ ~online
  /\ online' = TRUE
  /\ told' = "started"
  /\ UNCHANGED <<broker, stops, bus, subscribing, running, announcer, netboot, beat, device>>

\* one round of the loop
Announce ==
  /\ announcer = "loop" /\ bus # "dead"
  /\ IF Period = 0
     THEN UNCHANGED announcing
     ELSE netboot' \in GetNetboot(netboot) /\ Advertize("running")
  /\ UNCHANGED <<broker, stops, bus, subscribing, running, announcer, online, device>>

\* the same, but the callback of an entry point raises
AnnounceRaises ==
  /\ announcer = "loop" /\ bus # "dead" /\ Period > 0
  /\ netboot' \in GetNetboot(netboot) /\ Advertize("running")
  /\ announcer' = "failed"
  /\ UNCHANGED <<broker, stops, bus, subscribing, running, online, device>>

\* the bus thread is not alive any more
Farewell ==
  /\ announcer = "loop" /\ bus = "dead"
  /\ announcer' = "exited"
  /\ Advertize("exited")
  /\ UNCHANGED <<broker, stops, bus, subscribing, running, online, netboot, device>>

-----------------------------------------------------------------------------
(* The broker and the device.                                              *)

BrokerStop ==
  /\ broker = "up" /\ stops < MaxStops
  /\ broker' = "down" /\ stops' = stops + 1
  /\ bus' = IF bus = "online" THEN "offline" ELSE bus
  /\ acks' = {}
  /\ online' = FALSE
  /\ UNCHANGED <<mids, pending, passed, running, announcer, announcing, device>>

BrokerStart ==
  /\ broker = "down"
  /\ broker' = "up"
  /\ UNCHANGED <<stops, bus, subscribing, running, announcer, online, announcing, device>>

\* a netbooted device is configured
Configure ==
  /\ device = "booted"
  /\ device' = "ready"
  /\ UNCHANGED <<broker, stops, bus, subscribing, running, announcer, online, announcing>>

-----------------------------------------------------------------------------
\* A subscription of an interrupted connection stays False, and no SUBACK of a
\* later connection is for it.
Stale == stops > 0 /\ ~(pending \subseteq acks)

\* A controller that stays connected is advertized again and again, every
\* period, by announcer_worker.  Only three things keep it from that: the
\* announcer was refused by the broker, an entry point raised, or it was never
\* started because the broker stopped before all subscriptions were confirmed.
EveryControllerAdvertized ==
  <>[](/\ bus = "online" /\ Period > 0
       /\ announcer \notin {"dead", "failed"}
       /\ announcer = "none" => ~Stale)
  => []<>(beat = 0) /\ []<>(beat = 1)

=============================================================================
