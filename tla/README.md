# Verification of foris-controller

foris-controller is the daemon of a Turris router that web clients talk to. A
request arrives on a message bus, is validated and routed to a module, whose
handler reads and changes the configuration of the device, and is answered with
a reply; modules also send notifications. This directory holds TLA+ models of
its concurrent and stateful parts, TLC configurations that check them, and TLAPS
proofs about them.

## The system

| Part | Source (under `src/`) | State | Operations | What is hard |
|---|---|---|---|---|
| RWLock | `foris_controller/utils.py` | three locks, a counter of readers | acquire, release of both sides | lost wake-ups, starvation, several processes |
| UCI backend | `foris_controller_backends/uci` | config files, changes directory, one lock | transactions: read, stage, commit, import | read-modify-write of several threads, failing commands, a restart in a transaction |
| Asynchronous commands | `foris_controller_backends/cmdline` | buffer of jobs, data of each job | start, read output, status | a thread, a process and a command per job, eviction, worker failures |
| MQTT requests | `foris_controller/buses/mqtt.py` | working_replies, retained replies at the broker | one thread per request | stops of the broker, retries, late clients |
| MQTT announcer | `foris_controller/buses/mqtt.py` | subscriptions, announcer thread, netboot state | connect, subscribe, advertize | reconnects, the order of advertizements |
| LAN | `foris_controller_backends/lan` | LAN settings, static leases | update_settings, set/update/delete_dhcp_client | sequences of requests, address arithmetic |
| Guide | `foris_controller_backends/web`, `foris_controller/profiles.py` | finished, workflow, passed steps | update_guide, reset_guide, update_passed | handlers of several transactions that overlap or fail |
| Message router, modules | `foris_controller/message_router.py`, `module_base.py`, `foris_controller_modules/*` | none | validate, perform_action, notify, validate the reply | error paths after a change was saved; notifications and replies |
| Unix socket bus, client socket | `buses/unix_socket.py`, `client_socket.py` | a connection per client, shared senders, two locks | framing, forwarding | partial reads, disconnects, threads that share a socket |
| Ubus bus | `buses/ubus.py` | RequestStorage, worker processes | multipart requests and replies | missing parts |
| Notification senders | `buses/*.py` | a connection | send, retry, reset | failures in the middle of an action |
| Controller start-up | `controller/__main__.py`, `app.py` | app_info, child processes | the steps of `main()` | failures half-way, children that outlive it |
| Zeroconf watcher | `zconf.py` | addresses, state | register, update, unregister, close | a thread that races with `close()` |
| Networks, guest, WAN, Wi-Fi, time | `foris_controller_backends/*` | the same UCI files, services | update_settings, reset | several modules write one file; services changed after the transaction |
| Wi-Fi scans | `foris_controller_backends/cmdline`, `wifi` | a process and a pipe per device | trigger, status | commands that end at any time, full pipes |
| DNS forwarders | `foris_controller_backends/dns` | files, an option that names one | add, set, delete, update_settings | files written without exclusion |
| Remote access | `foris_controller_backends/remote` | certificate authority, settings, broker | generate_ca, delete_ca, update_settings | checks outside of the transaction that depends on them |
| Updater, password, router notifications | `foris_controller_backends/*` | UCI options, other programs | settings | steps of the guide that they pass |
| Services, maintain, system, files, about, introspect | `foris_controller_backends/*`, `foris_controller_modules/*` | none of their own | commands, file access | commands that fail after a commit |

Threads come from the buses: the MQTT bus starts a thread per request, the unix
socket bus one per client, ubus a process per module. All of them use the UCI
backend, which serialises transactions with an RWLock; a handler may consist of
several transactions and commands, and between those the handlers of other
requests run. Asynchronous commands outlive the request that starts them and send
notifications from a process of their own.

`PROJECT.json` lists every part with its status, and under `hazards` what is
hard to test, at the line where it bites, with the properties that guard it.

## Modules

A component's module has its state, `Init`, one action per operation or step,
and its properties. Operators marked "faulty" are plausible bugs of the code;
nothing uses them except the mutants in `PROJECT.json`. `MC*` modules add what
TLC needs (sets of model values, symmetry); `*Proofs` modules hold theorems.

### RWLock, ReadersWriters
`RWLock` has one action per lock operation of `ReadLock` and `WriteLock`; `pc`
is the place of a thread in `acquire()` or `release()`. The condition variable
is a lock and a set of waiters; a notified thread leaves the set, takes the lock
again and tests again. `_counter` is a plain attribute, so the model has one per
process (`Home` maps threads to processes): one process is the `threading`
backend, several are the `multiprocessing` backend. `ReadersWriters` is what a
readers-writer lock promises, and `RefinesReadersWriters` maps a reader to
"read" once its increment is visible, and a writer to "write" from its last test
of the counter until it opens `_new_readers`.

### UciBackend, ConfigStore
A transaction takes `uci_lock`, removes what a predecessor left in the changes
directory, stages changes, and in `__exit__` commits the affected configs one by
one, reloads and releases; an exception leaves it without a commit. `Begin`,
`Enter`, `Cleanup`, `Stage`, `StageIgnored`, `StageFails`, `import_data`,
`ExitClean`, `ExitRaised`, `CommitConfig`, `CommitFails`, `Reload`, `Release`
follow `__init__`, `__enter__`, the setters, `__exit__`, `commit`. The content of
a config is the set of transactions whose changes are in it, which is all that
lost updates and isolation depend on. `Restart` (external) ends the controller at
any point; the changes directory and the configs survive it. `ConfigStore` is
the promise: files change by whole transactions. The refinement is of the view
that a failure-free execution commits.

### AsyncCommand
`start_process` with its thread (`Trigger`, `Register`, `Fork`, `PassReady`,
`JoinWorker`, `Answer`), the worker process `_command_worker` (`ResetNotify`, `Popen`,
`PollRunning`, `PollEnded`, `ReadLine`, `ReadEnd`, `DrainEnd`, `SetRetval`,
`SetExited`, `HandlerExit`), the external command (`Output`, `CommandExits`), and
`connection_test_status` in its four reads (`Lookup`, `ReadExited`, `ReadData`,
`ReadStatus`). A line of output either matches no regex or is the result of one
field. `WorkerFails` is an exception in the worker.

### MqttListener
`on_message` (`Accept`, `Drop`, `Raises`, `ListWorkingReplies`), `work()` of each request
(`Mark`, `ProcessMessage`, `Publish`, `PublishRefused`, `Retry`, `RetryRefused`,
`WakeUp`, `Clear`, `ClearRefused`, `Unmark`), the reconnect of the bus thread, and
as external actions the broker, the clients and the clock. The time that matters
is `CLEAR_RETAIN_PERIOD`, counted in ticks. With `Prompt` an outage, including
the reconnects of the clients, takes less than a tick; otherwise it takes any
time.

### MqttAnnouncer
`handle_on_connect`, `on_subscribe`, `announcer_worker` with its own client and
the cached netboot state, and the callbacks of entry points, which may raise and end
it ("failed"). It is run as a part of `Controller`.

### LanDhcp
One action per mode of `update_settings` and one per lease request. Each is one
UCI transaction, so one step. Addresses are numbers and a netmask is the size of
the network. `reply` is the answer: a result, a reason, "raised" for an exception
in the transaction (nothing is committed) and "failed" for one after the commit.
`LuciLease` (external) is what LuCI or an editor makes of a section: it may lack any
option, have several MAC addresses, lie outside of the network, or clash with others.
`_minimal_valid_host_section` tells the complete ones, to which the checks of
addresses and names are limited. `strays` remembers the sections that no filter was to
keep in the network: written by LuCI, or found when the network changed with DHCP off.
`get_settings` is a function of the state and of the lease file of dnsmasq; its
list of clients is built as `get_client_list` builds it, and `ClientsListed`
quantifies over all lease files.

### WebGuide
A request is a list of stages, each a transaction or a command; a worker performs
the first stage of its list, and `StageFails` makes it fail, which ends the
request unless the code ignores it. `set_password`, `wan_update_settings` etc.
are the stages of the handlers in the order of the code. Which options they save
is abstracted to "the settings of this step are saved".

### ModuleActions, Requests
`ModuleActions` lists every action of every module with what `action_*` does
around its handler: read, change silently, notify a true result, check first, or
start a process. `Requests` follows a message through a bus: the client sends it
in two pieces (`SendFirst`, `SendTail`) or leaves (`Leave`); the thread of the
connection reads length and body (`RecvLength`, `RecvBody`, `BodyEof`), parses
it and hands it to the router, whose `ProcessMessage`, `Handler`, `NotifyRaises`,
`SendUnix`, `SendUbus` and `SendMqtt` are the steps up to the reply. On ubus the
pieces are the parts of a multipart request, kept in `storage`. The client socket
forwards requests and notifications under its two locks. A message has one of the
forms that the code treats differently; a call matters by its kind only, so the
instance has one call of each.

### Controller
`Controller` extends `MqttAnnouncer` by the main thread, which is the bus thread
of the announcer on MQTT: the steps of `main()` in their order, each of which may
raise, the child processes (`SetPdeathsig` closes the window in which the death of
the parent is not noticed), the threads that serve clients (`handlers`: they are no
daemons, and the interpreter waits for them), the watcher of `ZconfService` (`Poll`,
`Watch`, which tells the network, `WatchNotes`, which sets `state`, `WatchRaises`,
`WatchEnds`) and `close()` in its three steps. `ServeEnds` is any end of the main
loop, on MQTT also by an exception of a callback. `Kill` ends it at
any point. What the network knows of the service is the external variable
`published`.

### RequestThreads, NetConfig
`RequestThreads` is what the settings modules share: a thread is idle or its
record says which step of a handler comes next. In `NetConfig` each transaction
of `networks`, `guest`, `wan`, `wifi` and `time` is one step, and each service,
restart and second transaction another one. `conf` has what the modules tell
apart in the network, firewall, sqm and system files: the device of each
interface in its three historic forms (`ifname`, anonymous and named bridges),
the IPv6 type with its options and firewall rules, and the flags others depend on.
`wireless` has the radios, guest access points and what `reset()` saves and
restores. The instance starts from five configurations: OpenWrt 19.07 with and
without a port in the guest network, migrated from it with and without a guest
network, and one written by this release. `NetAssumption` says what the theorems
need of the configuration that is found: it is one that these releases write
(tunnel sections of the type that is set, guest access points of existing radios
and with their network, bridges that are the device of their network).

### Forwarders, RemoteAccess
`Forwarders` has the files of the DNS forwarders. They are opened, written and
unlinked in separate steps, because `file_lock` is taken as a reader there.
`RemoteAccess` extends it by the authority (`generate_ca`, the external steps
`GenCa` and `GenServer`, `delete_ca` and `DropCa`), the saved settings and the
broker; both use the same threads, and services are restarted after the
transaction. The setting may be on at the start, saved by an earlier run on MQTT, on
whichever bus the controller runs now (`get_settings_enabled` masks it). A crash at
any point ends all requests and keeps the files; the controller may come back on
another bus.

### WifiScan
`AsyncMultipleCommands` with the Wi-Fi scans as its user: one worker process, a
command and a pipe per device. A command ends with results, without, with an
error or by a signal, or fills its pipe. The loop is modelled by its rounds: the
test (`LoopTest`), a look at each command in turn (`handle_subprocess`), one more
round after the loop, and `LoopEnds`; commands end between any two of them.
`MCAsyncCommand` runs it beside `AsyncCommand`; the two share nothing in the code.

### How they compose
The actions of `UciBackend` take `uci_lock` in one step: it is used for writing
only, and `RWLockMutualExclusion` shows that this excludes all others, in any
process. `LanDhcp` and `WebGuide` take a transaction as one step, which
`RefinesConfigStore` and `UciRepeatableRead` justify. `AsyncCommand` uses an
RWLock for its buffer of jobs in the same way.

## Runs

| Run | Instance | Shows |
|---|---|---|
| `rwlock_threads` | 4 threads, 1 process | mutual exclusion, no lost wake-up, every acquire returns, refinement of `ReadersWriters` |
| `uci_faults` | 2 threads, 2 configs, 3 transactions, 1 failure, 1 restart | aborted changes never reach a file, no lost update, repeatable reads, no sight of a half-written commit |
| `uci_atomic` | the same without failures | refinement of `ConfigStore`; every transaction ends |
| `async_status` | 1 job, 2 fields, 2 lines, 3 status requests, 1 failure; or 2 scans of 2 devices | notifications and replies agree with the output; every trigger ends; a scan is reported with every result |
| `mqtt_replies` | 3 requests (1 malformed), 1 list request, 1 short stop of the broker | one reply per request, tables accounted for, published replies are delivered |
| `request_path` | 2 clients, 2 messages of any form, every bus, a call of each kind | replies in order, notifications before replies, whole notifications, no leftovers, threads end with their client unless a half message or a lost reply holds them |
| `controller_life` | every bus, 2 topics, 2 workers, 1 stop, 1 change of addresses, a kill | a connected controller is advertized again and again, its end is advertized, and only a client of the unix socket or a child keeps it from exiting |
| `controller_start` (violation) | the same, smaller | on the unix socket and on ubus `main()` ends before the main loop when zeroconf is installed |
| `lan_leases` | 2 sections, MAC addresses and names, addresses 3 and 4, networks of 4 and 8 | no request makes two sections clash that did not, only LuCI and changes with DHCP off leave a lease outside of the network, and `get_settings` lists the leases whatever dnsmasq has leased |
| `guide_steps` | 2 workers, 4 requests, 1 failure | the guide ends only when done, only saved steps are passed |
| `net_config` | 2 threads, 3 requests, 3 ports, 2 radios, 5 initial configurations | no guest Wi-Fi without its network, networks read back as asked, rules and addresses of IPv6 follow its type, what was saved is in use |
| `remote_dns` | 3 threads, 5 requests, 2 forwarders, 2 texts, failing restarts, a crash | forwarder files are whole, remote access has an authority, services run what was saved |

Bounds. Three threads are the least for which a reader, a waiting writer and a
second arrival meet in the RWLock; the run has four. Two transactions race and a
third one follows, so that what the first two leave behind is used. One failure
or stop at any point covers each failure path. Two messages of one client show
the order of its replies, one of each of two clients the sharing of senders and
locks. Two changes of the addresses let one happen while the other is applied; in a
behaviour of `controller_life` either they change or the broker stops (`MCController`).
Two sections, MAC addresses and names give every conflict between a request and
another section; the addresses 3 and 4 share a network of 8 and not one of 4, and the
dynamic range of a router at 3 reaches 4. Four requests are the shortest sequence that passes all steps of the
workflow `min` and enables the guide again. Three requests on two threads are one
that sets up, and two that overlap; in `remote_dns` a third thread is needed for
two writers of one file and one that reads it, and five requests add, change and
select a forwarder around them. Buffers of jobs hold 1 instead of 20, so that they
overflow. The invariants that are also proved hold beyond all of these bounds.

CHECK_DEADLOCK is off for the UCI runs, where a leaked lock stops everyone, which
is what `UciLeakOnlyAfterFault` and `SeenWhole` are about, and for `net_config` and `remote_dns`, whose
behaviours end when the bounded requests are over.

Fairness. `RWLock`: strong fairness of taking a lock, weak fairness of all other
steps; it assumes that the locks of Python starve nobody, and what is shown is
that the RWLock adds no starvation of its own. A thread that holds the lock
releases it, as the sections of the code are finite. `UciBackend`: the same for
`uci_lock`, and a transaction ends. `AsyncCommand`, `WifiScan`: threads and worker
processes run on and the command ends (`/sbin/check_connection` has time limits of
its own) unless it waits on a full pipe. `MqttListener`, `Controller`: callbacks
and threads run on, messages at a running broker are delivered, a stopped broker
comes back (procd restarts it), clients reconnect, time passes, a request of MQTT
is served; nothing is assumed of children, clients of the unix socket, addresses,
failures and kills. `Requests`: the threads run, handlers
return and a process that was started ends; nothing is assumed of clients, and a
forwarded request or its reply may get lost, for which the client socket waits without
a timeout.
`LanDhcp`, `WebGuide`, `NetConfig` and `RemoteAccess` have no liveness properties:
their requests are sequences of finite stages.

## Proofs

All theorems are for arbitrary constants, under the named assumptions of the
modules (`RWLockAssumption`, `UciAssumption`, `AsyncAssumption`, `MqttAssumption`,
`LanAssumption`, `GuideAssumption`, `RequestsAssumption`, `NetAssumption`,
`ForwardersAssumption`), which TLC evaluates on every run. Every invariant that a
run checks is stated by a theorem.

* `ProcessProofs`, about the threads and processes of the controller, has three
  independent parts.
  * `RWLock`. The inductive invariant says who owns each lock at each place
    of the code, that `_counter` is exactly the number of readers of the process
    (`CounterExact`), that at most one thread sleeps and only while there is a
    reader, and that a writer inside sees zero. Mutual exclusion alone is not
    inductive: a writer's test of the counter only means something if the counter
    is exact and no reader can pass `_new_readers`. `RWLockRefinement` holds for
    threads of one process (`OneProcess`) and rests on the same invariant.
  * `AsyncCommand`. `FaithfulReport` is stated with a map from notifications to the
    lines they come from (`Reports`), because what a recursive filter returns cannot
    be proved here; it is the same as "a prefix of the results". `JobOK` says that
    what the worker stored is what it has read of the results, that it has sent all of
    it but for the line it is at, and that the command is over and everything read
    from the place on where the end is reported. `PollerOK` compares what a status
    request has read so far with the reply before it. Both rest on `JobGrows`:
    nothing stored goes away, and nothing is added once `exited` is set.
  * `Controller`. `StateMatchesNetwork` needs (`ZconfInv`) that the main thread gets
    past `close()` only with a service that was closed or never there; the watcher
    and the changes of addresses are free.
* `UciProofs`. The invariant ties the lock to the place of its holder, the
  changes directory to the transaction of the holder, and the files to
  transactions whose fate is decided. From it follow `NoAbortedChange`,
  `NoLostUpdate`, `LeakOnlyAfterFault` and the action property `RepeatableRead`,
  for any number of transactions, failures and restarts. `SeenWhole` needs
  (`FailureSeals`) that a failed commit has leaked the lock and that a commit under
  way has its thread. `UciRefinesConfigStore`
  maps the store to the files with what the committing transaction still has to
  write; what it has to write does not change while it commits. It is proved for
  executions without failures and restarts, as it is checked: a commit that fails
  half-way or is cut off by a restart does change the files in parts.
* `MqttProofs`. The place of a worker decides whether its request is listed,
  whether its reply is published and whether it may be retained. The four
  invariants follow, for any requests and any number and length of outages (the
  theorems do not use `Prompt`).
* `RequestProofs`. All four invariants of `request_path`, for any clients, calls and
  number of messages. `RepliesInOrder` is about the sockets and ubus: on MQTT each request
  has a thread of its own and replies are told apart by their id. The invariant has a group per concern.
  `JobOK`: what the router has found out about the message it works on; a result
  that must be notified is not in `done` before the notification was sent or given
  up. `OrderOK`: the messages answered so far are exactly those up to a number
  (`Upto`), the thread works on the next one, and the wire brings the ones after
  that, whole and in order (`Chain`, `Ahead`); the two framed buses and the two
  others differ in where the number is found (`SocketOK`, `CallOK`). `StorageOK`: a
  multipart request is kept only while its last part is missing. `WritersOK`: only
  the holder of `notification_sender_lock` has begun a notification.
  `RepliesInOrder` is stated by positions and not by filtering, like `Reports`.
* `LanProofs`. Types and `LeasesInNetwork` together are inductive: that a changed
  network leaves no lease behind but the strays needs the others to be in the network
  before, because the filter only looks at those that were. `NoNewClash` is an action
  property of each request by itself (`WriteNoClash`, `ShrinkNoClash`): it assumes
  nothing of the sections that are found, which may clash. `ClientsListed` follows for
  every lease file, every order of the sections and of their MAC addresses.
* `GuideProofs`. `FinishedMeansDone` is inductive by itself: passed steps are
  only removed together with the end of the guide. `PassedWasSaved` is not: the
  invariant says of the stages which a worker still has to perform that every step
  they pass is saved or has its save before it, and that a stage which saves is
  never one whose failure is ignored.
* `NetProofs`. `TunnelFollowsType` is inductive. `NetworksReadBack` needs where
  the ports of a network are kept in each of the historic forms (`NetworksFit`) and
  whose device a bridge is (`BridgesFit`), so that what `wan` and `guest` write later
  does not hide them. `GuestWifiNeedsGuest` needs that a backup of `reset()` fits the
  settings it was made with (`BackupsFit`) and that no guest access point belongs to a
  radio that is gone (`OnlyOwnGuests`). `SavedIsApplied` needs that what is saved and
  not in use is the task of a thread, of one only unless updates overlapped
  (`RestartDue`, `LimitDue`, `TimeDue`).
* `RemoteProofs`. All three properties of `remote_dns`, for any threads and any
  number of requests, failures and crashes. None is inductive: the invariant adds
  what each thread still has to do, that a writer finds its file empty or knows it
  harmed, that an update which found the authority ready still does or is overtaken
  by a `delete_ca` that takes note, that whoever saves has the restart to do, and that
  on another bus a broker about to be stopped has a setting that is off.

What the proofs changed in the models: the anonymous bridge of the WAN is a section
of its own, `NetworksReadBack` allows for the ports that an anonymous bridge or an
option `ifname` of the guest network has (`GuestLeftover`), which nothing removes, and
`MCNetConfig` has the configurations that show it.

Only model-checked: liveness, because fairness is out of reach of the prover
(`EveryRequestServed`, `EveryTransactionEnds`, `EveryTestReported`, `ScanReported`,
`PublishedIsDelivered`, `EveryRequestAnswered`, `GoneIsReleased`, `PublishedFollows`,
`EveryControllerAdvertized`, `EveryEndAdvertized`, `EndsUnlessHeld`), and with it
`WifiScan` and `MqttAnnouncer`, whose properties are all of this kind.

## Where code and documentation disagree

One run shows a disagreement (`findings` in `PROJECT.json`). `controller_start`: only
the parser of MQTT defines `--zeroconf-enabled`, and `main()` reads the option on every
bus (`controller/__main__.py:292`).

The models contain the following as well; the properties that hold state their
exceptions:

* `wan/__init__.py:245`: the code after the comment "disable rule for 6to4 + cleanup"
  disables the rule and leaves the mapped address (`ipaddr`) when another type is chosen.
* `utils.py:94`: `_counter` is one per process, so the RWLock of the
  multiprocessing backend does not exclude the readers of other processes.
* `mqtt.py:286`: a reply that is refused twice within 0.3 s is never published,
  whereas `doc/mqtt.rst` says the controller should publish it once it is
  connected. Only `ConnectionRefusedError` is retried, and the second attempt
  catches `ConnectionAbortedError`, which is another error.
* `mqtt.py:381`: a payload that is JSON and no object raises in `on_message` and ends
  the main loop (`Raises`).
* `mqtt.py:270`: a list of working replies may lack a request that was accepted
  before.
* `mqtt.py:209`: after an interrupted connection the announcer may never start,
  because the unconfirmed subscriptions stay in the table (`Stale`). `mqtt.py:175`: an
  entry point that raises ends the announcer for good ("failed").
* `mqtt.py:506`: a notification that is refused four times is dropped and the
  request is still answered with success (`missed` in `Requests`).
* `unix_socket.py:61`: a client that leaves in the middle of a body makes its thread
  loop for ever ("spin"); `client_socket.py:93`: a forwarded request whose reply gets
  lost is waited for without a timeout and with `sender_lock` (`HeldUp`); `unix_socket.py:126`: the threads share a notification
  socket without a lock (`torn`).
* `controller/__main__.py:289`, `unix_socket.py:92`: the child for the client socket,
  and the thread of a client that stays connected to the unix socket, keep a finished
  controller from exiting (`Held`).
* `cmdline/__init__.py:304`: a worker that raises never sets `exited`, and its job
  is "running" for ever. `cmdline/__init__.py:510`: the maximum of the return codes
  overlooks a command that a signal killed, and fails without commands.
* `wifi/__init__.py:578`: `scan_status` of a finished scan calls `get_data()`, which
  `AsyncProcessData` does not have, so that the answer "finished" of `wifi.json:675`
  is only given, without data, when the scan ends between the two looks.
* `wifi/__init__.py:74`: guest access points are disabled by their position, and
  written by the number of their radio; a single `radio1` keeps its guest network.
  `wifi/__init__.py:555`: a failed reset puts back an older configuration.
* `networks/__init__.py:122`: `get_settings` raises `KeyError` when the WAN is bridged
  or has a VLAN.
* `guest/__init__.py:358`, `time/__init__.py:143`: of two overlapping updates the last
  one saved need not be the last one applied (`crossed`, until an update of the same
  settings runs alone).
* `dns/__init__.py:163`: a forwarder that is in use can be deleted.
* `remote/__init__.py:144`: `delete_ca` and `update_settings` check each other outside
  of a common lock ("ca" in `damaged`).
* `remote/__init__.py:174`: on another bus `get_settings` takes remote access for off
  while it stays saved, so `delete_ca` drops the authority; back on MQTT the setting is
  on and has none ("bus" in `damaged`).
* `lan/__init__.py:387`: the dynamic range is counted from the router here and from
  the network in `check_dynamic_ranges`.
* `lan/__init__.py:441`: a network changed while DHCP is disabled keeps the leases
  of the old one (the variable `strays`).
* `lan/__init__.py:655`: the name of a section without an address may be given to
  another one; the checks skip incomplete sections.
* `lan/__init__.py:395`: a host that has two reasons to be deleted is deleted
  twice, and the update fails.
* `lan/__init__.py:770`: the update of a lease without an address or a name raises
  KeyError.
* `web/__init__.py:149`: `update_guide(True)` uses two transactions, and between them
  an enabled guide may have no next step.
* `wan/__init__.py:444`: the default WAN settings may replace what a user saved
  between the look and the update.

## Not modelled, and the plan

Not modelled: the synchronous commands of the command line backend (a step that
succeeds or fails in their users); the updater beyond its step of the guide, since
its state is kept by svupdater; tokens, revocation and the netboot flag of remote
access; router notifications, kept by another program; the values of IPv4 and IPv6
addresses, QoS and DHCP options; bands and channels of Wi-Fi; the tool
`foris-notify`; parsing of the UCI export format, password hashing, message schemas
and their validator; read-only modules; mock handlers, which are test doubles.

What is left to prove: the safety parts of the liveness properties, that is, what must
hold on the way. For `WifiScan`, that the output of each command is taken once and
before the result is reported; for `MqttAnnouncer`, that nothing is advertized after the
end.
