---------------------------- MODULE RemoteAccess ----------------------------
(***************************************************************************)
(* Remote access: the certificate authority made by turris-cagen, the      *)
(* saved settings and the broker (fosquitto) that serves them, together    *)
(* with the DNS settings, which use the same threads and services.         *)
(***************************************************************************)
EXTENDS Forwarders

VARIABLES
  mqtt,    \* the controller runs on the MQTT bus
  ca,      \* what turris-cagen-status says of the authority
  server,  \* the authority has a valid certificate of the server
  enabled, \* saved: remote access is on, perhaps by a run on the MQTT bus before
  broker   \* remote access is on in the running fosquitto

remoteVars == <<mqtt, ca, server, enabled, broker>>
vars == <<thread, requests, dnsVars, remoteVars>>

\* get_status: an authority without a certificate of the server is not ready
get_status == IF ca = "ready" /\ ~server THEN "generating" ELSE ca

\* get_settings: what is saved does not count on another bus
get_settings_enabled == enabled /\ mqtt

\* A system at rest: the setting may have been saved by an earlier run, on
\* the MQTT bus, with the authority it was checked against.
Init ==
  /\ ThreadsInit
  /\ DnsInit
  /\ mqtt \in BOOLEAN
  /\ ca \in {"missing", "ready"}
  /\ server \in {FALSE, ca = "ready"}
  /\ enabled \in {FALSE, get_status = "ready"}
  /\ broker = enabled

----------------------------------------------------------------------------

\* generate_ca starts turris-cagen (gen_ca, then gen_server), answers at once
generate_ca(t) ==
  /\ NewRequest(t)
  /\ ca' = IF ca = "missing" THEN "generating" ELSE ca
  /\ UNCHANGED <<thread, dnsVars, mqtt, server, enabled, broker>>

GenCa ==
  /\ ca = "generating"
  /\ ca' \in {"ready", "missing"}
  /\ UNCHANGED <<thread, requests, dnsVars, mqtt, server, enabled, broker>>

GenServer ==
  /\ get_status = "generating" /\ ca = "ready"
  /\ server' = TRUE
  /\ UNCHANGED <<thread, requests, dnsVars, mqtt, ca, enabled, broker>>

\* delete_ca reads the settings in a transaction of its own ...
delete_ca(t) ==
  /\ NewRequest(t)
  /\ IF get_settings_enabled THEN UNCHANGED thread ELSE Then(t, [at |-> "drop_ca"])
  /\ UNCHANGED <<dnsVars, remoteVars>>

\* ... and drops the authority after it, which may fail.  What it takes the
\* authority from is noted: "ca" for an update that ran meanwhile, "bus" for
\* a setting that it did not see because the controller is on another bus.
DropCa(t, ok) ==
  /\ Continue(t, "drop_ca")
  /\ ca' = IF ok THEN "missing" ELSE ca
  /\ server' = (server /\ ~ok)
  /\ damaged' = damaged \cup
       {h \in {"ca", "bus"} : ok /\
          IF h = "bus" THEN enabled /\ ~mqtt
          ELSE get_settings_enabled \/ \E u \in Threads \ {t} : thread[u].at = "remote" /\ thread[u].enable}
  /\ Then(t, Idle)
  /\ UNCHANGED <<file, custom, resolver, mqtt, enabled, broker>>

----------------------------------------------------------------------------
\* the status of the authority is not asked for
MayEnableAnyway(want) == want /\ mqtt
\* update_settings: off on another bus and without an authority
MayEnable(want) == want /\ mqtt /\ get_status = "ready"

remote_update_settings(t, want) ==
  /\ NewRequest(t)
  /\ Then(t, [at |-> "remote", enable |-> MayEnable(want)])
  /\ UNCHANGED <<dnsVars, remoteVars>>

\* the transaction: firewall rule and broker
SaveRemote(t) ==
  /\ Continue(t, "remote")
  /\ enabled' = thread[t].enable
  /\ Then(t, [at |-> "broker"])
  /\ UNCHANGED <<dnsVars, mqtt, ca, server, broker>>

\* firewall reload, then fosquitto is enabled and restarted, or disabled and
\* stopped on another bus; reload and restart raise when they fail
RestartBroker(t, ok) ==
  /\ Continue(t, "broker")
  /\ broker' = IF ok THEN enabled /\ mqtt ELSE broker
  /\ damaged' = IF ok THEN damaged ELSE damaged \cup {"broker"}
  /\ Then(t, Idle)
  /\ UNCHANGED <<file, custom, resolver, mqtt, ca, server, enabled>>

----------------------------------------------------------------------------
\* The controller is killed; its service starts it again, on the bus that
\* is configured by then.
Crash ==
  /\ "crash" \notin damaged
  /\ damaged' = damaged \cup {"crash"}
  /\ thread' = [t \in Threads |-> Idle]
  /\ mqtt' \in BOOLEAN
  /\ UNCHANGED <<requests, file, custom, resolver, ca, server, enabled, broker>>

Next ==
  \/ GenCa
  \/ GenServer
  \/ Crash
  \/ \E t \in Threads :
       \/ DnsStep(t) /\ UNCHANGED remoteVars
       \/ generate_ca(t)
       \/ delete_ca(t)
       \/ \E ok \in BOOLEAN : DropCa(t, ok)
       \/ \E want \in BOOLEAN : remote_update_settings(t, want)
       \/ SaveRemote(t)
       \/ \E ok \in BOOLEAN : RestartBroker(t, ok)

Spec == Init /\ [][Next]_vars

----------------------------------------------------------------------------
TypeOK ==
  /\ DnsTypeOK
  /\ ca \in {"missing", "generating", "ready"}
  /\ server \in {FALSE, ca = "ready"}
  /\ mqtt \in BOOLEAN /\ enabled \in BOOLEAN /\ broker \in BOOLEAN

\* Remote access is on only with an authority behind it: update_settings asks
\* for the status first and delete_ca refuses while remote access is on.  There
\* are two exceptions.  Neither of the two requests holds a lock from its check
\* to its effect, so a delete_ca may overlap with an update; and on another bus
\* delete_ca takes remote access for off, so that the controller may come back
\* on MQTT with a setting that has lost its authority.
EnabledHasCa ==
  enabled => get_status = "ready" \/ "ca" \in damaged \/ "bus" \in damaged

\* When all requests are over, the resolver and the broker run what was saved
\* last, in whatever order the requests saved and restarted, unless a restart
\* failed or the controller was killed between the two.
ServicesRunSaved ==
  (Quiet /\ "crash" \notin damaged) =>
    /\ "resolver" \notin damaged => resolver = custom
    /\ "broker" \notin damaged => broker = enabled
=============================================================================
