---------------------------- MODULE AsyncCommand ----------------------------
(***************************************************************************)
(* foris_controller_backends.cmdline.AsyncCommand with the connection test *)
(* of foris_controller_backends.wan.WanTestCommands as its user.           *)
(*                                                                         *)
(* A trigger request starts a thread of the controller, which registers    *)
(* the job in processes and forks a worker process; the worker runs an     *)
(* external command, reports each interesting line of its output, and a    *)
(* last time when the command is over.  Meanwhile status requests read the *)
(* AsyncProcessData object the worker fills.                               *)
(*                                                                         *)
(* A job stands for its random id.  A line of output is one that no regex  *)
(* matches or the result of the test of one field.  The lock of processes  *)
(* is an RWLock of one process (RWLockMutualExclusion), so the registering *)
(* and the look-up are one step each; so is every access to                *)
(* AsyncProcessData, which its manager or its lock serialises.             *)
(***************************************************************************)
EXTENDS Integers, Sequences, FiniteSets, SequencesExt

CONSTANTS
  Job,              \* calls of connection_test_trigger
  Poller,           \* clients that ask for the status, one request at a time
  Field,            \* WanTestCommands.FIELDS
  Noise,            \* what a line is about that no regex matches
  PROCESS_BUFFER,   \* jobs remembered (20 in the code)
  MaxLines,         \* bound: lines a command prints
  MaxPolls,         \* bound: status requests of a poller
  MaxFaults         \* bound: failures of worker processes

ASSUME AsyncAssumption ==
  /\ Noise \notin Field
  /\ PROCESS_BUFFER \in Nat \ {0}
  /\ MaxLines \in Nat /\ MaxPolls \in Nat /\ MaxFaults \in Nat

VARIABLES
  caller,      \* the request that triggers the job
  thread,      \* worker_thread of the job
  processes,   \* the OrderedDict, oldest job first
  ready,       \* jobs whose event ready is set
  started,     \* jobs whose event process_started is set
  worker,      \* _command_worker, the forked process
  command,     \* the external command
  code,        \* its exit code
  output,      \* the lines it printed
  read,        \* how many of them the worker has read
  data,        \* AsyncProcessData._data
  retval,      \* AsyncProcessData._retval
  exited,      \* AsyncProcessData._exited
  sent,        \* notifications the worker sent
  poll,        \* where each poller is in connection_test_status
  asked,       \* the job it asks for
  local,       \* its local variables: exited, and data
  reply,       \* its latest two replies, the older first
  polls,       \* requests it made
  faults       \* failures so far

parent == <<caller, thread, processes, started>>
external == <<command, code, output>>
shared == <<data, retval, exited>>
workerVars == <<worker, ready, read, sent>>
client == <<poll, asked, local, reply, polls>>
asyncVars == <<parent, external, shared, workerVars, client, faults>>

Line == [option : Field \cup {Noise}, passed : BOOLEAN]

Matches(line) == line.option # Noise

\* data.update of connection_test_status and handler_exit: a field passes
\* when one of its records does; defaults are the fields set to False first.
Merge(defaults, records) ==
  [f \in defaults \cup {r.option : r \in records} |-> \E r \in records : r.option = f /\ r.passed]

Result(line) == [kind |-> "connection_test", line |-> line]

Finished(records, c) ==
  [kind |-> "connection_test_finished", data |-> Merge(Field, records), passed |-> c = 0]

NoReply == [job |-> Noise, status |-> "none", data |-> << >>]

WorkerRuns == {"init", "popen", "poll", "readline", "notify", "drain", "drain_notify",
               "set_retval", "set_exited", "handler_exit"}

WorkerEnded == {"finished", "dead"}

AsyncInit ==
  /\ caller = [j \in Job |-> "idle"]
  /\ thread = [j \in Job |-> "none"]
  /\ processes = << >>
  /\ ready = {}
  /\ started = {}
  /\ worker = [j \in Job |-> "none"]
  /\ command = [j \in Job |-> "none"]
  /\ code = [j \in Job |-> 0]
  /\ output = [j \in Job |-> << >>]
  /\ read = [j \in Job |-> 0]
  /\ data = [j \in Job |-> << >>]
  /\ retval = [j \in Job |-> 0]
  /\ exited = [j \in Job |-> FALSE]
  /\ sent = [j \in Job |-> << >>]
  /\ poll = [p \in Poller |-> "idle"]
  /\ asked = [p \in Poller |-> Noise]
  /\ local = [p \in Poller |-> [exited |-> FALSE, data |-> << >>]]
  /\ reply = [p \in Poller |-> <<NoReply, NoReply>>]
  /\ polls = [p \in Poller |-> 0]
  /\ faults = 0

ThreadMoves(j, from, to) == thread[j] = from /\ thread' = [thread EXCEPT ![j] = to]

WorkerMoves(j, from, to) == worker[j] = from /\ worker' = [worker EXCEPT ![j] = to]

PollMoves(p, from, to) == poll[p] = from /\ poll' = [poll EXCEPT ![p] = to]

Reply(p, job, status, d) ==
  reply' = [reply EXCEPT ![p] = <<@[2], [job |-> job, status |-> status, data |-> d]>>]

-----------------------------------------------------------------------------
(* Faulty variants of the steps below, the bugs the properties guard.      *)

\* the worker stops reading when the command is over
DrainEndSkipped(j) ==
  /\ WorkerMoves(j, "drain", "set_retval")
  /\ UNCHANGED <<ready, read, sent, parent, external, shared, client, faults>>

\* exited is published before the rest of the output is read
PollEndedExits(j) ==
  /\ command[j] = "ended"
  /\ WorkerMoves(j, "poll", "drain")
  /\ exited' = [exited EXCEPT ![j] = TRUE]
  /\ UNCHANGED <<ready, read, sent, parent, external, data, retval, client, faults>>

\* the loop on poll() does not notice the end of the command
PollEndedUnnoticed(j) ==
  /\ command[j] = "ended"
  /\ WorkerMoves(j, "poll", "readline")
  /\ UNCHANGED <<ready, read, sent, parent, external, shared, client, faults>>

-----------------------------------------------------------------------------
(* The controller: the request and worker_thread.                          *)

\* start_process: creates the data object and starts the thread
Trigger(j) ==
  /\ caller[j] = "idle"
  /\ caller' = [caller EXCEPT ![j] = "waiting"]
  /\ ThreadMoves(j, "none", "register")
  /\ UNCHANGED <<processes, started, external, shared, workerVars, client, faults>>

\* with self.lock.writelock: forget the oldest jobs until there is room
Register(j) ==
  /\ ThreadMoves(j, "register", "start")
  /\ processes' = Append(IF Len(processes) >= PROCESS_BUFFER
                         THEN SubSeq(processes, Len(processes) - PROCESS_BUFFER + 2, Len(processes))
                         ELSE processes, j)
  /\ UNCHANGED <<caller, started, external, shared, workerVars, client, faults>>

\* process.start()
Fork(j) ==
  /\ ThreadMoves(j, "start", "ready")
  /\ WorkerMoves(j, "none", "init")
  /\ UNCHANGED <<caller, processes, started, ready, read, sent, external, shared, client, faults>>

\* ready.wait() returns; process_started.set()
PassReady(j) ==
  /\ j \in ready
  /\ ThreadMoves(j, "ready", "join")
  /\ started' = started \cup {j}
  /\ UNCHANGED <<caller, processes, external, shared, workerVars, client, faults>>

\* process.join() returns
JoinWorker(j) ==
  /\ worker[j] \in WorkerEnded
  /\ ThreadMoves(j, "join", "done")
  /\ UNCHANGED <<caller, processes, started, external, shared, workerVars, client, faults>>

\* process_started.wait() returns and the request is answered with the id
Answer(j) ==
  /\ caller[j] = "waiting"
  /\ j \in started
  /\ caller' = [caller EXCEPT ![j] = "answered"]
  /\ UNCHANGED <<thread, processes, started, external, shared, workerVars, client, faults>>

-----------------------------------------------------------------------------
(* The external command.                                                   *)

Output(j, line) ==
  /\ command[j] = "running"
  /\ Len(output[j]) < MaxLines
  /\ output' = [output EXCEPT ![j] = Append(@, line)]
  /\ UNCHANGED <<command, code, parent, shared, workerVars, client, faults>>

CommandExits(j, c) ==
  /\ command[j] = "running"
  /\ command' = [command EXCEPT ![j] = "ended"]
  /\ code' = [code EXCEPT ![j] = c]
  /\ UNCHANGED <<output, parent, shared, workerVars, client, faults>>

-----------------------------------------------------------------------------
(* _command_worker.                                                        *)

\* reset_notify(); ready.set()
ResetNotify(j) ==
  /\ WorkerMoves(j, "init", "popen")
  /\ ready' = ready \cup {j}
  /\ UNCHANGED <<read, sent, parent, external, shared, client, faults>>

Popen(j) ==
  /\ WorkerMoves(j, "popen", "poll")
  /\ command' = [command EXCEPT ![j] = "running"]
  /\ UNCHANGED <<ready, read, sent, code, output, parent, shared, client, faults>>

\* process.poll() is None
PollRunning(j) ==
  /\ command[j] = "running"
  /\ WorkerMoves(j, "poll", "readline")
  /\ UNCHANGED <<ready, read, sent, parent, external, shared, client, faults>>

\* process.poll() returns the exit code
PollEnded(j) ==
  /\ command[j] = "ended"
  /\ WorkerMoves(j, "poll", "drain")
  /\ UNCHANGED <<ready, read, sent, parent, external, shared, client, faults>>

\* readline() returns a line: the handler stores what a regex matches
ReadLine(j, from, to) ==
  /\ read[j] < Len(output[j])
  /\ LET line == output[j][read[j] + 1] IN
       /\ WorkerMoves(j, from, IF Matches(line) THEN to ELSE IF from = "drain" THEN from ELSE "poll")
       /\ read' = [read EXCEPT ![j] = @ + 1]
       /\ data' = [data EXCEPT ![j] = IF Matches(line) THEN Append(@, line) ELSE @]
  /\ UNCHANGED <<ready, sent, parent, external, retval, exited, client, faults>>

\* the handler notifies
Notify(j, from, to) ==
  /\ WorkerMoves(j, from, to)
  /\ sent' = [sent EXCEPT ![j] = Append(@, Result(Last(data[j])))]
  /\ UNCHANGED <<ready, read, parent, external, shared, client, faults>>

\* readline() returns "" in the loop that polls
ReadEnd(j) ==
  /\ command[j] = "ended" /\ read[j] = Len(output[j])
  /\ WorkerMoves(j, "readline", "poll")
  /\ UNCHANGED <<ready, read, sent, parent, external, shared, client, faults>>

\* readline() returns "" in the loop that drains
DrainEnd(j) ==
  /\ command[j] = "ended" /\ read[j] = Len(output[j])
  /\ WorkerMoves(j, "drain", "set_retval")
  /\ UNCHANGED <<ready, read, sent, parent, external, shared, client, faults>>

SetRetval(j) ==
  /\ WorkerMoves(j, "set_retval", "set_exited")
  /\ retval' = [retval EXCEPT ![j] = code[j]]
  /\ UNCHANGED <<ready, read, sent, parent, external, data, exited, client, faults>>

SetExited(j) ==
  /\ WorkerMoves(j, "set_exited", "handler_exit")
  /\ exited' = [exited EXCEPT ![j] = TRUE]
  /\ UNCHANGED <<ready, read, sent, parent, external, data, retval, client, faults>>

\* handler_exit of connection_test_trigger
HandlerExit(j) ==
  /\ WorkerMoves(j, "handler_exit", "finished")
  /\ sent' = [sent EXCEPT ![j] = Append(@, Finished(Range(data[j]), retval[j]))]
  /\ UNCHANGED <<ready, read, parent, external, shared, client, faults>>

\* reset_notify, Popen or a notification raises: the worker dies, and the
\* kernel kills the command with it (prctl.set_pdeathsig).
WorkerFails(j) ==
  /\ faults < MaxFaults
  /\ faults' = faults + 1
  /\ worker[j] \in {"init", "popen", "notify", "drain_notify", "handler_exit"}
  /\ worker' = [worker EXCEPT ![j] = "dead"]
  /\ command' = [command EXCEPT ![j] = IF @ = "running" THEN "killed" ELSE @]
  /\ UNCHANGED <<ready, read, sent, code, output, parent, shared, client>>

-----------------------------------------------------------------------------
(* connection_test_status.                                                 *)

\* the look-up under self.lock.readlock
Lookup(p, j) ==
  /\ polls[p] < MaxPolls
  /\ caller[j] = "answered"
  /\ polls' = [polls EXCEPT ![p] = @ + 1]
  /\ asked' = [asked EXCEPT ![p] = j]
  /\ IF j \in Range(processes)
     THEN PollMoves(p, "idle", "exited") /\ UNCHANGED reply
     ELSE PollMoves(p, "idle", "idle") /\ Reply(p, j, "not_found", << >>)
  /\ UNCHANGED <<local, parent, external, shared, workerVars, faults>>

\* exited = process_data.get_exited()
ReadExited(p) ==
  /\ PollMoves(p, "exited", "data")
  /\ local' = [local EXCEPT ![p].exited = exited[asked[p]]]
  /\ UNCHANGED <<asked, reply, polls, parent, external, shared, workerVars, faults>>

\* process_data.read_all_data()
ReadData(p) ==
  /\ PollMoves(p, "data", "status")
  /\ local' = [local EXCEPT
       ![p].data = Merge(IF local[p].exited THEN Field ELSE {}, Range(data[asked[p]]))]
  /\ UNCHANGED <<asked, reply, polls, parent, external, shared, workerVars, faults>>

\* "finished" if process_data.get_exited() else "running"
ReadStatus(p) ==
  /\ PollMoves(p, "status", "idle")
  /\ Reply(p, asked[p], IF exited[asked[p]] THEN "finished" ELSE "running", local[p].data)
  /\ local' = [local EXCEPT ![p] = [exited |-> FALSE, data |-> << >>]]
  /\ UNCHANGED <<asked, polls, parent, external, shared, workerVars, faults>>

-----------------------------------------------------------------------------
\* the worker died before ready.set(): neither worker_thread nor the request
\* waits with a timeout
Stuck(j) == worker[j] = "dead" /\ j \notin ready /\ thread[j] = "ready"

\* every other request is answered and every worker over
Quiescent ==
  /\ \A j \in Job : (caller[j] = "answered" /\ thread[j] = "done") \/ Stuck(j)
  /\ \A p \in Poller : poll[p] = "idle"
  /\ UNCHANGED asyncVars

Controller(j) == Register(j) \/ Fork(j) \/ PassReady(j) \/ JoinWorker(j) \/ Answer(j)

WorkerStep(j) ==
  \/ ResetNotify(j) \/ Popen(j) \/ PollRunning(j) \/ PollEnded(j)
  \/ ReadLine(j, "readline", "notify") \/ ReadLine(j, "drain", "drain_notify")
  \/ Notify(j, "notify", "poll") \/ Notify(j, "drain_notify", "drain")
  \/ ReadEnd(j) \/ DrainEnd(j)
  \/ SetRetval(j) \/ SetExited(j) \/ HandlerExit(j)

Status(p) == ReadExited(p) \/ ReadData(p) \/ ReadStatus(p)

AsyncNext ==
  \/ \E j \in Job : Trigger(j) \/ Controller(j) \/ WorkerStep(j) \/ WorkerFails(j)
  \/ \E j \in Job : \E line \in Line : Output(j, line)
  \/ \E j \in Job : \E c \in {0, 1} : CommandExits(j, c)
  \/ \E p \in Poller : Status(p) \/ \E j \in Job : Lookup(p, j)
  \/ Quiescent

AsyncSpec == AsyncInit /\ [][AsyncNext]_asyncVars

\* Threads and processes run, and the command ends by itself.
AsyncFairness ==
  /\ \A j \in Job : WF_asyncVars(Controller(j)) /\ WF_asyncVars(WorkerStep(j))
  /\ \A j \in Job : WF_asyncVars(\E c \in {0, 1} : CommandExits(j, c))
  /\ \A p \in Poller : WF_asyncVars(Status(p))

-----------------------------------------------------------------------------
\* Types of the variables; no job is listed twice in processes, nor more than
\* PROCESS_BUFFER of them.
AsyncTypeOK ==
  /\ caller \in [Job -> {"idle", "waiting", "answered"}]
  /\ thread \in [Job -> {"none", "register", "start", "ready", "join", "done"}]
  /\ processes \in Seq(Job)
  /\ Len(processes) <= PROCESS_BUFFER /\ IsInjective(processes)
  /\ ready \subseteq Job /\ started \subseteq Job
  /\ worker \in [Job -> {"none"} \cup WorkerRuns \cup WorkerEnded]
  /\ command \in [Job -> {"none", "running", "ended", "killed"}]
  /\ code \in [Job -> {0, 1}] /\ retval \in [Job -> {0, 1}]
  /\ output \in [Job -> Seq(Line)] /\ data \in [Job -> Seq(Line)]
  /\ read \in [Job -> 0..MaxLines] /\ exited \in [Job -> BOOLEAN]
  /\ poll \in [Poller -> {"idle", "exited", "data", "status"}]
  /\ asked \in [Poller -> Job \cup {Noise}]
  /\ polls \in [Poller -> 0..MaxPolls]
  /\ faults \in 0..MaxFaults

\* The notifications are those of the results among the first n lines, in
\* their order; at says from which line each one comes.
Reports(notes, lines, n) ==
  \E at \in [DOMAIN notes -> 1..n] :
    /\ \A k \in DOMAIN notes : notes[k] = Result(lines[at[k]])
    /\ \A k, l \in DOMAIN notes : k < l => at[k] < at[l]
    /\ \A i \in 1..n : Matches(lines[i]) <=> \E k \in DOMAIN notes : at[k] = i

\* The results that the command has printed so far
Printed(j) == {line \in Range(output[j]) : Matches(line)}

\* Clients are told every result the command prints, once and in the order
\* of printing, whether it is read while the command runs or after its end;
\* the finished notification is the last one and sums up all of them with
\* the command's exit code (_command_worker with the handlers of
\* connection_test_trigger).
FaithfulReport ==
  \A j \in Job :
    IF worker[j] # "finished"
    THEN \E n \in 0..Len(output[j]) : Reports(sent[j], output[j], n)
    ELSE /\ sent[j] # << >>
         /\ Reports(Front(sent[j]), output[j], Len(output[j]))
         /\ Last(sent[j]) = Finished(Printed(j), code[j])

\* A client that asks one request after the other never sees a test go back
\* from finished to running nor a passed field fail, and what it gets after
\* the first finished reply is the complete result.  (The first finished
\* reply itself may lack records: connection_test_status reads the data
\* before it reads exited a second time.)
RepliesSettle ==
  \A p \in Poller :
    LET old == reply[p][1]
        new == reply[p][2]
    IN  old.job = new.job /\ new.status # "not_found" =>
          /\ \A f \in DOMAIN old.data : f \in DOMAIN new.data /\ (old.data[f] => new.data[f])
          /\ old.status = "finished" =>
               new.status = "finished" /\ new.data = Merge(Field, Printed(new.job))

\* Unless a worker fails every trigger is answered and ends in the finished
\* notification.
EveryTestReported ==
  \A j \in Job :
    caller[j] = "waiting" ~> (caller[j] = "answered" /\ worker[j] = "finished") \/ faults > 0

=============================================================================
