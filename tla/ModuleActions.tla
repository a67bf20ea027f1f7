--------------------------- MODULE ModuleActions ---------------------------
(***************************************************************************)
(* foris_controller_modules: the actions of every module, told apart by    *)
(* what action_* does around the call of its handler.                      *)
(*                                                                         *)
(*   read     returns what the handler returns                             *)
(*   silent   the handler changes something, nobody is notified            *)
(*   notify   the handler changes something, a result that is true is      *)
(*            notified before the reply                                    *)
(*   checked  like notify, after a check that may answer False by itself   *)
(*   trigger  the handler starts a process whose thread notifies the end   *)
(*   started  like trigger, and the action notifies the start afterwards   *)
(***************************************************************************)
AboutModule == [get |-> "read", get_registration_number |-> "read"]

DnsModule ==
  [get_settings |-> "read", update_settings |-> "notify", list_forwarders |-> "read",
   add_forwarder |-> "notify", set_forwarder |-> "notify", del_forwarder |-> "notify"]

GuestModule == [get_settings |-> "read", update_settings |-> "checked"]

IntrospectModule == [list_modules |-> "read"]

LanModule ==
  [get_settings |-> "read", update_settings |-> "checked", set_dhcp_client |-> "notify",
   update_dhcp_client |-> "notify", delete_dhcp_client |-> "notify"]

MaintainModule == [reboot |-> "silent", generate_backup |-> "read", restore_backup |-> "silent"]

NetworksModule == [get_settings |-> "read", update_settings |-> "notify"]

PasswordModule == [check |-> "read", set |-> "notify"]

RemoteModule ==
  [generate_ca |-> "trigger", get_status |-> "read", generate_token |-> "trigger",
   revoke |-> "notify", delete_ca |-> "notify", get_settings |-> "read",
   update_settings |-> "notify", get_token |-> "read", set_netboot_configured |-> "notify"]

RouterNotificationsModule ==
  [list |-> "read", mark_as_displayed |-> "silent", get_settings |-> "read",
   update_settings |-> "notify", create |-> "silent",
   update_email_settings |-> "notify", update_reboot_settings |-> "notify"]

SystemModule == [get_hostname |-> "read", set_hostname |-> "silent"]

TimeModule ==
  [get_settings |-> "read", update_settings |-> "notify", get_router_time |-> "read",
   ntpdate_trigger |-> "started"]

UpdaterModule ==
  [get_settings |-> "read", update_settings |-> "silent", get_package_lists |-> "read",
   update_package_lists |-> "silent", get_languages |-> "read", update_languages |-> "silent",
   resolve_approval |-> "notify", run |-> "silent", get_enabled |-> "read",
   get_running |-> "read", query_installed_packages |-> "read"]

WanModule ==
  [get_settings |-> "read", update_settings |-> "notify", connection_test_trigger |-> "trigger",
   connection_test_status |-> "read", get_wan_status |-> "read", get_wan_mode |-> "read"]

WebModule ==
  [get_data |-> "read", set_language |-> "notify", list_languages |-> "read",
   update_guide |-> "silent", get_guide |-> "read", reset_guide |-> "silent"]

WifiModule ==
  [get_settings |-> "read", update_settings |-> "notify", reset |-> "notify",
   scan_trigger |-> "trigger", scan_status |-> "read"]

\* get_modules: the packages of foris_controller_modules
Modules ==
  [about |-> AboutModule, dns |-> DnsModule, guest |-> GuestModule,
   introspect |-> IntrospectModule, lan |-> LanModule, maintain |-> MaintainModule,
   networks |-> NetworksModule, password |-> PasswordModule, remote |-> RemoteModule,
   router_notifications |-> RouterNotificationsModule, system |-> SystemModule,
   time |-> TimeModule, updater |-> UpdaterModule, wan |-> WanModule,
   web |-> WebModule, wifi |-> WifiModule]

\* get_method_names_from_module: a call is a module and an action it has
AllCalls == UNION {{<<m, a>> : a \in DOMAIN Modules[m]} : m \in DOMAIN Modules}

KindOf(call) == Modules[call[1]][call[2]]

Kinds == {"read", "silent", "notify", "checked", "trigger", "started"}

Notifies(call) == KindOf(call) \in {"notify", "checked"}
Triggers(call) == KindOf(call) \in {"trigger", "started"}

\* one call of every kind: the request path tells calls apart by nothing else
OneOfEachKind == {CHOOSE call \in AllCalls : KindOf(call) = k : k \in Kinds}
=============================================================================
