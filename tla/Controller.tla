----------------------------- MODULE Controller -----------------------------
(***************************************************************************)
(* The life of a controller: main() of foris_controller.controller, the    *)
(* processes it starts (workers of ubus, the client socket), the watcher   *)
(* thread of ZconfService and, on MQTT, the announcer of MqttAnnouncer.    *)
(* The main thread is the bus thread of MqttAnnouncer.                     *)
(***************************************************************************)
EXTENDS MqttAnnouncer

CONSTANTS
  Workers,        \* processes of UbusListener
  Addresses,      \* private addresses an interface may get
  MaxChanges      \* bound: changes of the addresses

ASSUME ControllerAssumption ==
  /\ "client-socket" \notin Workers
  /\ MaxChanges \in Nat

VARIABLES
  options,      \* bus, client_socket_path, zeroconf_enabled; zeroconf is installed
  main,         \* the main thread
  child,        \* its processes
  handlers,     \* threads that serve a client are alive; none is a daemon
  interfaces,   \* addresses of the interfaces
  changes,      \* how often they changed
  addresses,    \* ZconfService.addresses
  state,        \* ZconfService.state
  zconf,        \* the Zeroconf object: "none", "open" or "closed"
  watcher,      \* address_watcher
  terminate,    \* terminate_event is set
  published     \* external: addresses that the network knows of

zservice == <<addresses, state, zconf, watcher, terminate, published>>
own == <<options, main, child, handlers, interfaces, changes, zservice>>
controllerVars == <<announcerVars, own>>

Processes == {"client-socket"} \cup Workers
Alive(p) == child[p] \in {"starting", "guarded"}

ControllerInit ==
  /\ AnnouncerInit
  /\ options \in [bus : {"unix-socket", "ubus", "mqtt"}, client_socket : BOOLEAN,
                  zeroconf_enabled : BOOLEAN, installed : BOOLEAN]
  /\ options.zeroconf_enabled => options.bus = "mqtt" /\ options.installed
  /\ main = "set_app_info"
  /\ child = [p \in Processes |-> "none"] /\ handlers = FALSE
  /\ interfaces \in {{}, Addresses} /\ changes = 0
  /\ addresses = {} /\ state = "DISCONNECTED" /\ zconf = "none"
  /\ watcher = "none" /\ terminate = FALSE /\ published = {}

----------------------------------------------------------------------------
(* main(), up to the loop.  Any step may raise, which leaves main(), and   *)
(* the interpreter shuts down; only the notification sender of ubus is     *)
(* created without doing anything, and zeroconf is given up when it fails. *)

Step(from, to) == main = from /\ main' = to /\ UNCHANGED announcerVars
KeepRest == UNCHANGED <<options, handlers, interfaces, changes>>

\* main() is left: the thread is not alive any more
Shutdown(from) ==
  /\ main = from /\ main' = "shutdown"
  /\ bus' = IF bus = "exiting" THEN "dead" ELSE bus
  /\ UNCHANGED <<broker, stops, subscribing, running, announcer, online, announcing, device>>

\* the step succeeds, or raises
OrRaises(from, to) == \E next \in {to, "shutdown"} : Step(from, next)

SetAppInfo == OrRaises("set_app_info", "listener") /\ KeepRest /\ UNCHANGED <<child, zservice>>

\* the socket is bound, the broker connected or, on ubus, the modules are
\* loaded; processes are not started yet
CreateListener == OrRaises("listener", "sender") /\ KeepRest /\ UNCHANGED <<child, zservice>>

PrepareNotificationSender ==
  /\ \/ Step("sender", "modules")
     \/ options.bus # "ubus" /\ Step("sender", "shutdown")
  /\ KeepRest /\ UNCHANGED <<child, zservice>>

\* modules of the packages that have a handler for the backend
PrepareAppModules == OrRaises("modules", "client") /\ KeepRest /\ UNCHANGED <<child, zservice>>

StartClientSocket ==
  /\ IF options.client_socket
     THEN \/ Step("client", "zconf") /\ child' = [child EXCEPT !["client-socket"] = "starting"]
          \/ Step("client", "shutdown") /\ UNCHANGED child
     ELSE Step("client", "zconf") /\ UNCHANGED child
  /\ KeepRest /\ UNCHANGED zservice

\* register_service: nothing to do without addresses
RegisterService(new) ==
  /\ published' = new
  /\ state' = IF new # {} THEN "CONNECTED" ELSE state

\* ZconfService(): an exception means that there is no zeroconf
StartZconf ==
  /\ options.zeroconf_enabled
  /\ Step("zconf", "serving")
  /\ \/ /\ zconf' = "open" /\ watcher' = "wait"
        /\ addresses' = interfaces
        /\ RegisterService(interfaces)
        /\ UNCHANGED terminate
     \/ UNCHANGED zservice
  /\ KeepRest /\ UNCHANGED child

\* only the parser of mqtt has the option zeroconf_enabled: on another bus it
\* is looked up in vain when zeroconf is installed
NoZconf ==
  /\ ~options.zeroconf_enabled
  /\ Step("zconf", IF options.installed /\ options.bus # "mqtt" THEN "shutdown" ELSE "serving")
  /\ KeepRest /\ UNCHANGED <<child, zservice>>

----------------------------------------------------------------------------
(* Processes.  Until prctl.set_pdeathsig a process outlives its parent.    *)

StartWorkers ==
  /\ main = "serving" /\ options.bus = "ubus"
  /\ \E p \in Workers : child[p] = "none"
  /\ child' = [p \in Processes |-> IF p \in Workers THEN "starting" ELSE child[p]]
  /\ UNCHANGED <<announcerVars, options, main, handlers, interfaces, changes, zservice>>

SetPdeathsig(p) ==
  /\ child[p] = "starting"
  /\ child' = [child EXCEPT ![p] = "guarded"]
  /\ UNCHANGED <<announcerVars, options, main, handlers, interfaces, changes, zservice>>

\* it cannot connect, or its loop raises
ProcessFails(p) ==
  /\ Alive(p)
  /\ child' = [child EXCEPT ![p] = "ended"]
  /\ UNCHANGED <<announcerVars, options, main, handlers, interfaces, changes, zservice>>

\* serve_forever returns as all workers of ubus are over, a callback of MQTT
\* raises, or it is interrupted, at any time
ServeEnds ==
  /\ main = "serving" /\ main' = "closing"
  /\ bus' = IF options.bus = "mqtt" THEN "exiting" ELSE bus
  /\ UNCHANGED <<broker, stops, subscribing, running, announcer, online, announcing, device>>
  /\ KeepRest /\ UNCHANGED <<child, zservice>>

----------------------------------------------------------------------------
(* Threads that serve clients: one per connection of the unix socket       *)
(* (ThreadingMixIn), one per request of MQTT.                              *)

Serves ==
  /\ main = "serving"
  /\ options.bus = "unix-socket" \/ (options.bus = "mqtt" /\ bus = "online")

HandlerStarts ==
  /\ Serves /\ ~handlers
  /\ handlers' = TRUE
  /\ UNCHANGED <<announcerVars, options, main, child, interfaces, changes, zservice>>

\* the last one ends: a request is answered, or the client disconnects
HandlersEnd ==
  /\ handlers /\ handlers' = FALSE
  /\ UNCHANGED <<announcerVars, options, main, child, interfaces, changes, zservice>>

----------------------------------------------------------------------------
\* what a process that is over had in its memory
Forget ==
  /\ bus' = "dead" /\ announcer' = "dead" /\ watcher' = "dead" /\ online' = FALSE
  /\ acks' = {} /\ pending' = {} /\ passed' = {} /\ mids' = 0 /\ running' = FALSE
  /\ addresses' = {} /\ state' = "CLOSED" /\ zconf' = "none" /\ terminate' = FALSE
  /\ handlers' = FALSE
  /\ UNCHANGED <<broker, stops, announcing, device, options, interfaces, changes, published>>

\* SIGKILL, or SIGTERM, which nobody handles
Kill ==
  /\ main \notin {"exited", "killed"}
  /\ main' = "killed"
  /\ child' = [p \in Processes |-> CASE child[p] = "guarded" -> "ended"
                                     [] child[p] = "starting" -> "orphan"
                                     [] OTHER -> child[p]]
  /\ Forget

----------------------------------------------------------------------------
(* ZconfService                                                            *)

ChangeAddresses ==
  /\ changes < MaxChanges /\ options.zeroconf_enabled /\ main \notin {"exited", "killed"}
  /\ interfaces' \in SUBSET Addresses \ {interfaces}
  /\ changes' = changes + 1
  /\ UNCHANGED <<announcerVars, options, main, child, handlers, zservice>>

\* update_service_loop: the wait is over, the addresses are compared
Poll ==
  /\ watcher = "wait" /\ ~terminate
  /\ addresses # interfaces
  /\ addresses' = interfaces
  /\ watcher' = "apply"
  /\ UNCHANGED <<announcerVars, options, main, child, handlers, interfaces, changes, state, zconf, terminate, published>>

\* faulty: an unregistered service is still taken for a connected one
NoteForgetful == state' = IF addresses # {} THEN "CONNECTED" ELSE state

\* faulty: a service that was unregistered is not registered again
TellConnectedOnly == published' = IF state = "CONNECTED" THEN addresses ELSE published

\* update, register or unregister the service, by addresses and state
Tell == published' = IF state = "CONNECTED" \/ addresses # {} THEN addresses ELSE published

\* the state after that
Note == state' = IF addresses # {} THEN "CONNECTED" ELSE "DISCONNECTED"

Watch ==
  /\ watcher = "apply" /\ zconf = "open"
  /\ Tell
  /\ watcher' = "note"
  /\ UNCHANGED <<announcerVars, options, main, child, handlers, interfaces, changes, addresses, state, zconf,
                 terminate>>

WatchNotes ==
  /\ watcher = "note"
  /\ Note
  /\ watcher' = "wait"
  /\ UNCHANGED <<announcerVars, options, main, child, handlers, interfaces, changes, addresses, zconf, terminate,
                 published>>

\* zeroconf raises, for one because it was closed: the thread is over
WatchRaises ==
  /\ watcher = "apply"
  /\ watcher' = "dead"
  /\ UNCHANGED <<announcerVars, options, main, child, handlers, interfaces, changes, addresses, state, zconf, terminate,
                 published>>

WatchEnds ==
  /\ watcher = "wait" /\ terminate
  /\ watcher' = "dead"
  /\ UNCHANGED <<announcerVars, options, main, child, handlers, interfaces, changes, addresses, state, zconf, terminate,
                 published>>

\* faulty: the watcher is not told to end
CloseUntold ==
  /\ zconf = "open"
  /\ zconf' = "closed" /\ published' = {}
  /\ Step("closing", "join")
  /\ KeepRest /\ UNCHANGED <<child, addresses, state, watcher, terminate>>

\* close(): zconf.close() withdraws the service
Close ==
  /\ zconf = "open"
  /\ zconf' = "closed" /\ published' = {}
  /\ Step("closing", "terminate")
  /\ KeepRest /\ UNCHANGED <<child, addresses, state, watcher, terminate>>

\* close(): terminate_event.set()
Terminate ==
  /\ terminate' = TRUE
  /\ Step("terminate", "join")
  /\ KeepRest /\ UNCHANGED <<child, addresses, state, zconf, watcher, published>>

\* close(): address_watcher.join()
Join ==
  /\ watcher = "dead"
  /\ state' = "CLOSED"
  /\ Shutdown("join")
  /\ KeepRest /\ UNCHANGED <<child, addresses, zconf, watcher, terminate, published>>

NothingToClose ==
  /\ zconf # "open"
  /\ Shutdown("closing")
  /\ KeepRest /\ UNCHANGED <<child, zservice>>

\* external, the interpreter: the main thread is over, the other threads and
\* then the processes are joined
Exit ==
  /\ announcer \notin {"connect", "loop"} /\ ~handlers
  /\ \A p \in Processes : ~Alive(p)
  /\ main = "shutdown" /\ main' = "exited"
  /\ Forget /\ UNCHANGED child

----------------------------------------------------------------------------
(* The announcer and the broker, as in MqttAnnouncer                       *)

OnMqtt == options.bus = "mqtt" /\ main = "serving"

BusThread ==
  \/ OnMqtt /\ (OnConnect \/ \E mid \in acks : OnSubscribe(mid)) /\ UNCHANGED own
  \/ OnMqtt /\ OnConnectFails /\ main' = "closing" /\ KeepRest /\ UNCHANGED <<child, zservice>>

AnnouncerThread ==
  /\ \/ AnnouncerConnect \/ AnnouncerRefused \/ AnnouncerOnConnect
     \/ Announce \/ AnnounceRaises \/ Farewell
  /\ UNCHANGED own

Environment == options.bus = "mqtt" /\ main \notin {"exited", "killed"} /\ (BrokerStop \/ BrokerStart \/ Configure) /\ UNCHANGED own

MainThread ==
  \/ SetAppInfo \/ CreateListener \/ PrepareNotificationSender \/ PrepareAppModules
  \/ StartClientSocket \/ StartZconf \/ NoZconf \/ StartWorkers
  \/ Close \/ Terminate \/ Join \/ NothingToClose \/ Exit

Watcher == Poll \/ Watch \/ WatchNotes \/ WatchRaises \/ WatchEnds

\* nothing is left to do, or only clients could give it something to do
Rest ==
  /\ main \in {"serving", "shutdown", "exited", "killed"}
  /\ UNCHANGED controllerVars

ControllerNext ==
  \/ MainThread \/ BusThread \/ AnnouncerThread \/ Environment \/ Watcher
  \/ \E p \in Processes : SetPdeathsig(p) \/ ProcessFails(p)
  \/ ServeEnds \/ HandlerStarts \/ HandlersEnd \/ Kill \/ ChangeAddresses \/ Rest

ControllerSpec == ControllerInit /\ [][ControllerNext]_controllerVars

\* threads run, a request of MQTT is served and the broker comes back; a
\* failure need not happen, and no client need disconnect
ControllerFairness ==
  /\ WF_controllerVars(MainThread) /\ WF_controllerVars(Watcher)
  /\ WF_controllerVars(options.bus = "mqtt" /\ HandlersEnd)
  /\ WF_controllerVars(OnMqtt /\ (OnConnect \/ OnConnectFails) /\ BusThread)
  /\ WF_controllerVars(OnMqtt /\ \E mid \in acks : OnSubscribe(mid) /\ UNCHANGED own)
  /\ WF_controllerVars((AnnouncerConnect \/ AnnouncerRefused) /\ UNCHANGED own)
  /\ WF_controllerVars(AnnouncerOnConnect /\ UNCHANGED own)
  /\ WF_controllerVars(Announce /\ UNCHANGED own)
  /\ WF_controllerVars(Farewell /\ UNCHANGED own)
  /\ WF_controllerVars(BrokerStart /\ Environment)

ControllerFairSpec == ControllerSpec /\ ControllerFairness

----------------------------------------------------------------------------
(* Properties                                                              *)

(* As long as the Zeroconf object is open, ZconfService.state says whether *)
(* the network knows of the service, and it knows the addresses last seen, *)
(* unless the watcher is in the middle of it or has died.  Once it is closed, *)
(* and whenever main() is left, the network knows of nothing, whatever the *)
(* watcher was doing.                                                      *)
StateMatchesNetwork ==
  /\ zconf = "open" /\ watcher # "note" => (state = "CONNECTED" <=> published # {})
  /\ zconf = "open" /\ watcher \in {"wait", "note"} => published = addresses
  /\ zconf = "closed" \/ main \in {"shutdown", "exited"} => published = {}

(* When the addresses of the interfaces stay as they are, the network gets *)
(* to know exactly these, as long as the watcher lives and main() serves.  *)
PublishedFollows ==
  \A now \in SUBSET Addresses :
    <>[](interfaces = now /\ main = "serving" /\ watcher \notin {"none", "dead"}) => <>[](published = now)

\* what the interpreter waits for and nothing in the controller ends
Held ==
  \/ handlers /\ options.bus = "unix-socket"
  \/ \E p \in Processes : Alive(p)

(* A controller whose serve_forever ended, or that could not start, exits: *)
(* close() does not wait for a watcher that was not told to end, nor the   *)
(* interpreter for an announcer that goes on or for the threads of MQTT.   *)
(* Two things keep it: a client that stays connected to the unix socket,   *)
(* whose thread is no daemon, and a process that still runs, as the client *)
(* socket does.                                                            *)
EndsUnlessHeld ==
  (main \in {"closing", "terminate", "join", "shutdown"}) ~> (main \in {"exited", "killed"} \/ Held)

(* A bus thread that exits because it could not reconnect or subscribe is  *)
(* reported by the announcer, after zeroconf is closed, unless an entry    *)
(* point raises, the announcer loses its connection or the controller is   *)
(* killed.                                                                 *)
EveryEndAdvertized ==
  (announcer = "loop" /\ bus \in {"exiting", "dead"} /\ online)
    ~> (told = "exited" \/ announcer = "failed" \/ ~online)

(* Every start with a bus, a backend and a module as in the README serves  *)
(* requests, unless the bus cannot be reached.                             *)
EveryBusServes == [][main = "zconf" => main' \in {"zconf", "serving", "killed"}]_controllerVars
=============================================================================
