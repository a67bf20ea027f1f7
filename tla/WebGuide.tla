------------------------------ MODULE WebGuide ------------------------------
(***************************************************************************)
(* foris_controller_backends.web and foris_controller.profiles: the guide  *)
(* that leads through the first configuration, and the requests of the     *)
(* other modules that pass its steps.                                      *)
(*                                                                         *)
(* A request is a sequence of stages; a worker performs the first one of   *)
(* its list.  A stage is a UCI transaction (atomic, see UciBackend) or a   *)
(* command; between two stages of one request the others run.  Which       *)
(* options a module saves is abstracted to "its settings are saved".       *)
(***************************************************************************)
EXTENDS Integers, Sequences, FiniteSets

CONSTANTS
  Worker,       \* threads that handle requests
  Steps,        \* steps whose settings are saved in this instance
  Available,    \* _detect_available_workflows() on this device
  Basic,        \* _detect_basic_workflow()
  MaxRequests,  \* bound: requests
  MaxFaults     \* bound: transactions and commands that fail

Step == {"password", "profile", "networks", "wan", "time", "dns", "updater", "lan", "finished"}

WORKFLOWS ==
  [old |-> {"password", "wan", "time", "dns", "updater", "finished"},
   router |-> {"password", "profile", "networks", "wan", "time", "dns", "updater", "finished"},
   min |-> {"password", "profile", "finished"},
   shield |-> {"password", "finished"},
   bridge |-> {"password", "profile", "networks", "lan", "time", "dns", "updater", "finished"},
   unset |-> {"password", "profile"}]

\* what the schema lets a client choose for reset_guide; without a choice it is Basic
NEW_WORKFLOW == {"unset", "old", "shield"}

ASSUME GuideAssumption ==
  /\ Steps \subseteq Step \ {"profile", "finished"}
  /\ Available \subseteq DOMAIN WORKFLOWS /\ Basic \in DOMAIN WORKFLOWS
  /\ MaxRequests \in Nat /\ MaxFaults \in Nat

VARIABLES
  finished, workflow, passed,   \* foris.wizard
  wan,          \* network.wan.proto: "none", "dhcp" or "user", what a user chose
  todo,         \* worker -> the stages it still has to perform
  requests,     \* how many requests there were
  faults,       \* how many stages failed
  saved,        \* history: steps whose settings were saved
  dismissed     \* history: update_guide(False) since the guide was enabled

wizard == <<finished, workflow, passed>>
history == <<saved, dismissed>>
vars == <<wizard, wan, todo, requests, faults, history>>

-----------------------------------------------------------------------------
(* Requests: the stages of each handler.  An UciException of a stage that  *)
(* is a best effort is ignored, of another one it ends the request.        *)

Stage(do, arg, best) == [do |-> do, arg |-> arg, best |-> best]
Save(step) == Stage("save", step, FALSE)
Pass(step) == Stage("pass", step, FALSE)
TryPass(step) == Stage("pass", step, TRUE)
Apply == Stage("apply", "none", FALSE)
TryApply == Stage("apply", "none", TRUE)

\* faulty: the step is passed before the password is saved
set_password_PassFirst == <<TryPass("password"), Save("password")>>

set_password == <<Save("password"), TryPass("password")>>
networks_update_settings == <<Save("networks"), TryPass("networks"), Apply>>
wan_update_settings == <<Save("wan"), TryPass("wan"), Apply>>
\* restart of sysntpd is a best effort, restart of "system" and setting the
\* clock and the regulatory domain are not
time_update_settings == <<Save("time"), TryPass("time"), TryApply, Apply>>
dns_update_settings == <<Save("dns"), TryPass("dns"), Apply>>
\* update_languages saves the languages and starts pkgupdate, which is started
\* again at the end; that the updater is disabled is ignored
updater_update_settings ==
  <<Save("updater"), Apply, TryApply, TryPass("updater"), TryApply>>
lan_update_settings == <<Save("lan"), Apply, TryPass("lan"), Apply>>

update_settings(step) ==
  CASE step = "password" -> set_password
    [] step = "networks" -> networks_update_settings
    [] step = "wan" -> wan_update_settings
    [] step = "time" -> time_update_settings
    [] step = "dns" -> dns_update_settings
    [] step = "updater" -> updater_update_settings
    [] step = "lan" -> lan_update_settings

update_guide_on(flow) == <<Stage("enable", flow, FALSE), Pass("profile")>>
update_guide_off == <<Stage("disable", "none", FALSE), Pass("finished")>>
reset_guide(flow) == <<Stage("reset", flow, FALSE)>>

\* update_uncofigured_wan_to_default: reads in a transaction of its own, then
\* calls update_settings; update_guide restarts the network once more
ConfigureWan == <<Stage("look", "none", FALSE)>>
DefaultWan == <<Stage("default", "none", FALSE), TryPass("wan"), Apply, Apply>>

Init ==
  /\ finished = FALSE /\ workflow = Basic /\ passed = {}
  /\ wan = "none"
  /\ todo = [w \in Worker |-> <<>>]
  /\ requests = 0 /\ faults = 0
  /\ saved = {} /\ dismissed = FALSE

\* A request that a check refuses (a workflow the device does not have, a leaked
\* password, an unknown forwarder, wrong ports) does nothing and is left out.
Request(w, stages) ==
  /\ todo[w] = <<>> /\ requests < MaxRequests
  /\ todo' = [todo EXCEPT ![w] = stages]
  /\ requests' = requests + 1
  /\ UNCHANGED <<wizard, wan, faults, history>>

-----------------------------------------------------------------------------
(* Stages *)

AtStage(w, do) == todo[w] # <<>> /\ Head(todo[w]).do = do
Arg(w) == Head(todo[w]).arg
Then(w, stages) == todo' = [todo EXCEPT ![w] = stages \o Tail(@)]
Go(w) == Then(w, <<>>)

SaveSettings(w) ==
  /\ AtStage(w, "save")
  /\ saved' = saved \cup {Arg(w)}
  /\ wan' = IF Arg(w) = "wan" THEN "user" ELSE wan
  /\ Go(w)
  /\ UNCHANGED <<wizard, requests, faults, dismissed>>

\* faulty: compares with the steps of the default workflow
update_passed_Basic(w) ==
  /\ AtStage(w, "pass")
  /\ passed' = passed \cup {Arg(w)}
  /\ finished' = (finished \/ WORKFLOWS[Basic] \subseteq passed')
  /\ Go(w)
  /\ UNCHANGED <<workflow, wan, requests, faults, saved, dismissed>>

update_passed(w) ==
  /\ AtStage(w, "pass")
  /\ passed' = passed \cup {Arg(w)}
  /\ finished' = (finished \/ WORKFLOWS[workflow] \subseteq passed')
  /\ Go(w)
  /\ UNCHANGED <<workflow, wan, requests, faults, saved, dismissed>>

EnableGuide(w) ==
  /\ AtStage(w, "enable")
  /\ finished' = FALSE /\ workflow' = Arg(w)
  /\ dismissed' = FALSE
  /\ Go(w)
  /\ UNCHANGED <<passed, wan, requests, faults, saved>>

\* what was passed is read in the same transaction
DisableGuide(w) ==
  /\ AtStage(w, "disable")
  /\ finished' = TRUE
  /\ dismissed' = TRUE
  /\ Then(w, IF "password" \in passed THEN ConfigureWan ELSE <<>>)
  /\ UNCHANGED <<workflow, passed, wan, requests, faults, saved>>

ResetGuide(w) ==
  /\ AtStage(w, "reset")
  /\ finished' = FALSE /\ workflow' = Arg(w) /\ passed' = {}
  /\ dismissed' = FALSE
  /\ Go(w)
  /\ UNCHANGED <<wan, requests, faults, saved>>

LookAtWan(w) ==
  /\ AtStage(w, "look")
  /\ Then(w, IF wan = "none" THEN DefaultWan ELSE <<>>)
  /\ UNCHANGED <<wizard, wan, requests, faults, history>>

SaveDefaultWan(w) ==
  /\ AtStage(w, "default")
  /\ wan' = "dhcp" /\ saved' = saved \cup {"wan"}
  /\ Go(w)
  /\ UNCHANGED <<wizard, requests, faults, dismissed>>

ApplySettings(w) ==
  /\ AtStage(w, "apply")
  /\ Go(w)
  /\ UNCHANGED <<wizard, wan, requests, faults, history>>

\* An exception ends the request unless the stage is a best effort.
StageFails(w) ==
  /\ todo[w] # <<>> /\ faults < MaxFaults
  /\ faults' = faults + 1
  /\ todo' = [todo EXCEPT ![w] = IF Head(@).best THEN Tail(@) ELSE <<>>]
  /\ UNCHANGED <<wizard, wan, requests, saved, dismissed>>

\* Nothing left to do
Idle ==
  /\ requests = MaxRequests /\ \A w \in Worker : todo[w] = <<>>
  /\ UNCHANGED vars

Next ==
  \/ \E w \in Worker :
       \/ \E step \in Steps : Request(w, update_settings(step))
       \/ \E flow \in Available : Request(w, update_guide_on(flow))
       \/ Request(w, update_guide_off)
       \/ \E flow \in NEW_WORKFLOW \cup {Basic} : Request(w, reset_guide(flow))
       \/ SaveSettings(w) \/ update_passed(w) \/ ApplySettings(w)
       \/ EnableGuide(w) \/ DisableGuide(w) \/ ResetGuide(w)
       \/ LookAtWan(w) \/ SaveDefaultWan(w)
       \/ StageFails(w)
  \/ Idle

Spec == Init /\ [][Next]_vars

-----------------------------------------------------------------------------
(* get_guide_data: next_step is None when every step is passed. *)
HasNextStep == ~(WORKFLOWS[workflow] \subseteq passed)

(* Types of the variables of the wizard and of the workers. *)
TypeOK ==
  /\ finished \in BOOLEAN /\ workflow \in DOMAIN WORKFLOWS /\ passed \subseteq Step
  /\ wan \in {"none", "dhcp", "user"}
  /\ \A w \in Worker : Len(todo[w]) <= 6
  /\ requests \in 0..MaxRequests /\ faults \in 0..MaxFaults
  /\ saved \subseteq Step /\ dismissed \in BOOLEAN

(* The guide ends only when a user dismisses it or has passed every step   *)
(* of the workflow that is set.                                            *)
FinishedMeansDone == finished => dismissed \/ ~HasNextStep

(* A step is passed only after its settings were saved, also when a        *)
(* request fails half-way or the guide is reset meanwhile.                 *)
PassedWasSaved == passed \ {"profile", "finished"} \subseteq saved

=============================================================================
