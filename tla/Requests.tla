------------------------------ MODULE Requests ------------------------------
(***************************************************************************)
(* The way of a message through the controller: a bus reads it from its    *)
(* client (buses.unix_socket, buses.ubus, client_socket), Router validates *)
(* it and has a module perform the action, the notification sender of the  *)
(* bus publishes what changed, and the client gets a reply.                *)
(*                                                                         *)
(* A message is sent in two pieces: "head" (the length and the beginning   *)
(* of the body; on ubus a part that is not final) and "tail" (the rest),   *)
(* or as one piece, "whole", where the bus has no framing of its own.  A   *)
(* controller runs one bus; "client-socket" is the extra entrance that     *)
(* forwards to it.  How MQTT brings a message in is modelled in            *)
(* MqttListener, here it matters for its notification sender.              *)
(***************************************************************************)
EXTENDS ModuleActions, Naturals, Sequences, SequencesExt, FiniteSetsExt

CONSTANTS
  Clients,
  Calls,          \* the calls that clients make
  Loaded,         \* modules with a handler, app_info["modules"]
  SingleProcess,  \* app_info["ubus_single_process"]
  MaxMessages     \* bound: messages of all clients together

ASSUME RequestsAssumption ==
  /\ Calls \subseteq AllCalls /\ Calls # {}
  /\ Loaded \subseteq DOMAIN Modules
  /\ SingleProcess \in BOOLEAN
  /\ MaxMessages \in Nat

VARIABLES
  bus,
  script,     \* what each client sent, complete or not
  wire,       \* pieces on their way to the controller, <<number, piece>>
  client,     \* "open" or "gone"
  thread,     \* the thread of a connection
  cur,        \* number of the message it works on
  job,        \* the processing of a message by Router
  storage,    \* RequestStorage.data: ids of multipart requests
  procs,      \* processes started by a trigger
  locks,      \* holders of sender_lock and of notification_sender_lock
  half,       \* notifications that are partly written
  torn,       \* history: two notifications were mixed
  heard,      \* history: notifications that were sent
  missed,     \* history: notifications given up after the last retry
  replies     \* replies of each client

reading == <<wire, client, thread, cur, storage>>
sending == <<half, torn, heard, missed>>
vars == <<bus, script, reading, job, procs, locks, sending, replies>>

Buses == {"unix-socket", "client-socket", "ubus", "mqtt"}
Framed == bus \in {"unix-socket", "client-socket"}

\* what a client can send besides requests, as far as the bus tells it apart:
\* no JSON, no object, against the schema, of another kind.  On ubus and MQTT
\* the kind, module and action come from the object or the topic.
FormsOf(b) ==
  CASE b = "unix-socket" -> {"garbage", "scalar", "invalid", "notification"}
    [] b = "client-socket" -> {"garbage", "invalid", "notification", "reply"}
    [] b = "ubus" -> {"garbage", "invalid"}
    [] b = "mqtt" -> {"invalid"}

Messages ==
  [form : FormsOf(bus), call : {CHOOSE call \in Calls : TRUE}] \cup [form : {"request"}, call : Calls]

Idle == [at |-> "idle", of |-> 0, result |-> "none", tries |-> 0]
Msg(c) == script[c][job[c].of]
Tag(c, what) == <<c, job[c].of, what>>

Init ==
  /\ bus \in Buses
  /\ script = [c \in Clients |-> <<>>]
  /\ wire = [c \in Clients |-> <<>>]
  /\ client = [c \in Clients |-> "open"]
  /\ thread = [c \in Clients |-> "recv"]
  /\ cur = [c \in Clients |-> 0]
  /\ job = [c \in Clients |-> Idle]
  /\ storage = {} /\ procs = {}
  /\ locks = [sender |-> {}, notify |-> {}]
  /\ half = {} /\ torn = FALSE /\ heard = {} /\ missed = {}
  /\ replies = [c \in Clients |-> <<>>]

----------------------------------------------------------------------------
(* Clients.  On a socket a client may send on without waiting; a call of   *)
(* ubus is awaited.  On MQTT every request has a thread and a reply topic  *)
(* of its own, so a client that sends on without waiting is several here.  *)

HalfSent(c) ==
  \/ wire[c] # <<>> /\ Last(wire[c])[2] = "head"
  \/ wire[c] = <<>> /\ thread[c] = "body"
  \/ <<c, Len(script[c])>> \in storage
Waits(c) == ~Framed /\ (wire[c] # <<>> \/ job[c] # Idle)

\* the bound on messages
Room == MapThenSumSet(LAMBDA c : Len(script[c]), Clients) < MaxMessages

Piece(c, i, p) == wire' = [wire EXCEPT ![c] = Append(@, <<i, p>>)]

SendFirst(c) ==
  /\ client[c] = "open" /\ thread[c] # "closed"
  /\ Room
  /\ ~HalfSent(c) /\ ~Waits(c)
  /\ \E m \in Messages, p \in IF bus = "ubus" THEN {"head", "whole"}
                              ELSE IF bus = "mqtt" THEN {"whole"} ELSE {"head"} :
       /\ p = "whole" /\ bus = "ubus" => m.form # "garbage"
       /\ script' = [script EXCEPT ![c] = Append(@, m)]
       /\ Piece(c, Len(script[c]) + 1, p)
  /\ UNCHANGED <<bus, client, thread, cur, storage, job, procs, locks, sending, replies>>

SendTail(c) ==
  /\ client[c] = "open" /\ thread[c] # "closed" /\ HalfSent(c) /\ ~Waits(c)
  /\ Piece(c, Len(script[c]), "tail")
  /\ UNCHANGED <<bus, script, client, thread, cur, storage, job, procs, locks, sending, replies>>

\* a client leaves, on a socket possibly within the four bytes of a length
Leave(c) ==
  /\ client[c] = "open"
  /\ client' = [client EXCEPT ![c] = "gone"]
  /\ \/ wire' = wire
     \/ Framed /\ thread[c] # "closed" /\ ~HalfSent(c) /\ Piece(c, 0, "stub")
  /\ UNCHANGED <<bus, script, thread, cur, storage, job, procs, locks, sending, replies>>

----------------------------------------------------------------------------
(* Reading a message: handle() of the two sockets                          *)

Received(c, to, i) ==
  /\ wire' = [wire EXCEPT ![c] = Tail(@)]
  /\ thread' = [thread EXCEPT ![c] = to]
  /\ cur' = [cur EXCEPT ![c] = i]
  /\ UNCHANGED <<bus, script, client, storage, job, procs, locks, sending, replies>>

\* the thread goes on; a closed connection takes what is on the wire with it
Thread(c, to) ==
  /\ thread' = [thread EXCEPT ![c] = to]
  /\ wire' = [wire EXCEPT ![c] = IF to = "closed" THEN <<>> ELSE @]
  /\ cur' = [cur EXCEPT ![c] = IF to \in {"recv", "closed"} THEN 0 ELSE @]

Becomes(c, to) ==
  /\ Thread(c, to)
  /\ UNCHANGED <<bus, script, client, storage, procs, sending, replies>>

RecvLength(c) ==
  /\ Framed /\ thread[c] = "recv" /\ wire[c] # <<>>
  /\ IF Head(wire[c])[2] = "stub" THEN Becomes(c, "closed") /\ UNCHANGED <<job, locks>>
                                  ELSE Received(c, "body", Head(wire[c])[1])

RecvEnd(c) ==
  /\ Framed /\ thread[c] = "recv" /\ wire[c] = <<>> /\ client[c] = "gone"
  /\ Becomes(c, "closed")
  /\ UNCHANGED <<job, locks>>

RecvBody(c) ==
  /\ Framed /\ thread[c] = "body" /\ wire[c] # <<>>
  /\ Received(c, "parse", cur[c])

\* faulty: the client socket does not notice either
BodyEofUnnoticed(c) ==
  /\ Framed /\ thread[c] = "body" /\ wire[c] = <<>> /\ client[c] = "gone"
  /\ Becomes(c, "spin")
  /\ UNCHANGED <<job, locks>>

\* recv() returns nothing: the client socket gives up, the unix socket goes
\* on asking for the rest
BodyEof(c) ==
  /\ Framed /\ thread[c] = "body" /\ wire[c] = <<>> /\ client[c] = "gone"
  /\ Becomes(c, IF bus = "client-socket" THEN "closed" ELSE "spin")
  /\ UNCHANGED <<job, locks>>

Route(c, i) == job' = [job EXCEPT ![c] = [Idle EXCEPT !.at = "input", !.of = i]]

\* UnixSocketHandler: no JSON gets no reply; an error message cannot be
\* built for what is no object
ParseUnix(c) ==
  /\ bus = "unix-socket" /\ thread[c] = "parse"
  /\ UNCHANGED locks
  /\ CASE script[c][cur[c]].form = "garbage" -> Becomes(c, "recv") /\ UNCHANGED job
       [] script[c][cur[c]].form = "scalar" -> Becomes(c, "closed") /\ UNCHANGED job
       [] OTHER -> Becomes(c, "reply") /\ Route(c, cur[c])

\* ClientSocketHandler: _check_msg, then by the kind of the message
ParseClientSocket(c) ==
  /\ bus = "client-socket" /\ thread[c] = "parse"
  /\ UNCHANGED <<job, locks>>
  /\ CASE script[c][cur[c]].form \in {"garbage", "invalid"} -> Becomes(c, "closed")
       [] script[c][cur[c]].form = "notification" -> Becomes(c, "forward")
       [] script[c][cur[c]].form = "request" -> Becomes(c, "request")
       [] OTHER -> \E to \in {"recv", "closed"} : Becomes(c, to)

\* faulty: notification_sender_lock is not taken
ForwardUnlocked(c) ==
  /\ thread[c] = "forward"
  /\ Becomes(c, "writing")
  /\ UNCHANGED <<job, locks>>

\* _forward_notification takes notification_sender_lock
Forward(c) ==
  /\ thread[c] = "forward" /\ locks.notify = {}
  /\ Becomes(c, "writing")
  /\ locks' = [locks EXCEPT !.notify = {c}]
  /\ UNCHANGED job

\* notify() raises: the lock is released and the connection closed
ForwardFails(c) ==
  /\ thread[c] = "writing" /\ <<c, cur[c], "forwarded">> \notin half
  /\ Becomes(c, "closed")
  /\ locks' = [locks EXCEPT !.notify = {}]
  /\ UNCHANGED job

\* _reply_to_request takes sender_lock and sends the request to the bus
SendRequest(c) ==
  /\ thread[c] = "request" /\ locks.sender = {} /\ job[c] = Idle
  /\ Becomes(c, "reply")
  /\ locks' = [locks EXCEPT !.sender = {c}]
  /\ Route(c, cur[c])

\* the request or its reply gets lost on the bus: the sender waits on, without
\* a timeout and with sender_lock
LoseReply(c) ==
  /\ bus = "client-socket" /\ thread[c] = "reply" /\ job[c].at \in {"input", "done"}
  /\ job' = [job EXCEPT ![c].at = "lost"]
  /\ UNCHANGED <<bus, script, reading, procs, locks, sending, replies>>

\* the sender raises before the reply comes, as it loses the bus: the
\* connection ends, the request goes on
SenderRaises(c) ==
  /\ bus = "client-socket" /\ thread[c] = "reply" /\ job[c].at # "done"
  /\ Becomes(c, "closed")
  /\ locks' = [locks EXCEPT !.sender = {}]
  /\ job' = [job EXCEPT ![c] = IF @.at = "lost" THEN Idle ELSE @]

----------------------------------------------------------------------------
(* Reading a message: the handlers of ubus objects, and MQTT               *)

Process(m) == IF SingleProcess THEN "all-in-one" ELSE m.call[1]

\* a worker process runs one handler at a time
Free(c, m) == bus = "ubus" => \A d \in Clients : job[d] # Idle => Process(script[d][job[d].of]) # Process(m)

\* faulty: pickup leaves the data in the storage
PickupCopy(id) == storage' = storage

\* RequestStorage.pickup
Pickup(id) == storage' = storage \ {id}

ErrorReply(c, i) == replies' = [replies EXCEPT ![c] = Append(@, [of |-> i, result |-> "error"])]

Handler(c) ==
  /\ ~Framed /\ wire[c] # <<>> /\ job[c] = Idle
  /\ LET i == Head(wire[c])[1]
         p == Head(wire[c])[2]
         m == script[c][i]
     IN /\ Free(c, m)
        /\ wire' = [wire EXCEPT ![c] = Tail(@)]
        /\ CASE p = "head" -> storage' = storage \cup {<<c, i>>} /\ UNCHANGED <<job, replies>>
             [] p = "tail" -> /\ Pickup(<<c, i>>)
                              /\ IF m.form = "garbage" THEN ErrorReply(c, i) /\ UNCHANGED job
                                                       ELSE Route(c, i) /\ UNCHANGED replies
             [] OTHER -> Route(c, i) /\ UNCHANGED <<storage, replies>>
  /\ UNCHANGED <<bus, script, client, thread, cur, procs, locks, sending>>

----------------------------------------------------------------------------
(* Router.process_message                                                  *)

\* the reply is validated before it is sent
Ends(c, result) ==
  \E r \in {result, "error"} : job' = [job EXCEPT ![c].at = "done", ![c].result = r]

Continues(c, result) == job' = [job EXCEPT ![c].at = "notify", ![c].result = result]

\* faulty: the kind of the message is not looked at
AcceptedAnyKind(m) == m.form # "invalid" /\ m.call[1] \in Loaded

\* validate, the kind, app_info["modules"]
Accepted(m) == m.form = "request" /\ m.call[1] \in Loaded

\* BaseModule.perform_action up to the return of the handler; what a rejected
\* message, and a handler that raises, have in common is the error
ProcessMessage(c) ==
  /\ job[c].at = "input"
  /\ LET call == Msg(c).call
     IN \/ Ends(c, "error") /\ UNCHANGED procs
        \/ /\ Accepted(Msg(c)) /\ KindOf(call) = "read"
           /\ Ends(c, "data") /\ UNCHANGED procs
        \/ /\ Accepted(Msg(c)) /\ Triggers(call)
           /\ procs' = procs \cup {Tag(c, "finished")}
           /\ IF KindOf(call) = "started" THEN Continues(c, "data") ELSE Ends(c, "data")
        \/ /\ Accepted(Msg(c)) /\ KindOf(call) \in {"silent", "notify", "checked"}
           /\ \E result \in {"true", "false"} :
                IF Notifies(call) /\ result = "true" THEN Continues(c, result) ELSE Ends(c, result)
           /\ UNCHANGED procs
  /\ UNCHANGED <<bus, script, reading, locks, sending, replies>>

\* faulty: the exception of the notification is swallowed
NotifyRaisesSilently(c) ==
  /\ job[c].at = "notify" /\ Ends(c, job[c].result)
  /\ UNCHANGED <<bus, script, reading, procs, locks, sending, replies>>

\* the notification does not validate, or the sender cannot connect
NotifyRaises(c) ==
  /\ job[c].at = "notify" /\ Ends(c, "error")
  /\ UNCHANGED <<bus, script, reading, procs, locks, sending, replies>>

----------------------------------------------------------------------------
(* Notification senders.  A socket may take a notification in two parts.   *)

Begin(tag) ==
  /\ half' = half \cup {tag}
  /\ torn' = (torn \/ half # {})
  /\ UNCHANGED <<heard, missed>>

End(tag) ==
  /\ half' = half \ {tag}
  /\ heard' = IF tag[3] \in {"result", "started"} THEN heard \cup {tag} ELSE heard
  /\ UNCHANGED <<torn, missed>>

Heard(tag) == heard' = heard \cup {tag} /\ UNCHANGED <<half, torn, missed>>

Note(c) == Tag(c, IF Triggers(Msg(c).call) THEN "started" ELSE "result")

\* UnixSocketNotificationSender._send_message: sendall without a lock
SendUnix(c) ==
  /\ bus = "unix-socket" /\ job[c].at = "notify"
  /\ IF Note(c) \in half THEN End(Note(c)) /\ Ends(c, job[c].result)
                         ELSE Begin(Note(c)) /\ UNCHANGED job
  /\ UNCHANGED <<bus, script, reading, procs, locks, replies>>

\* UbusNotificationSender._send_message
SendUbus(c) ==
  /\ bus \in {"ubus", "client-socket"} /\ job[c].at = "notify"
  /\ Heard(Note(c)) /\ Ends(c, job[c].result)
  /\ UNCHANGED <<bus, script, reading, procs, locks, replies>>

Attempts == 4

\* MqttNotificationSender._send_message: publish, three retries, no more
SendMqtt(c) ==
  /\ bus = "mqtt" /\ job[c].at = "notify"
  /\ \/ Heard(Note(c)) /\ Ends(c, job[c].result)
     \/ /\ job[c].tries < Attempts - 1
        /\ job' = [job EXCEPT ![c].tries = @ + 1]
        /\ UNCHANGED sending
     \/ /\ job[c].tries = Attempts - 1
        /\ missed' = missed \cup {Note(c)} /\ UNCHANGED <<half, torn, heard>>
        /\ Ends(c, job[c].result)
  /\ UNCHANGED <<bus, script, reading, procs, locks, replies>>

\* the thread of a process notifies its end, over the same sender
ProcessEnds(tag) ==
  /\ tag \in procs
  /\ IF bus = "unix-socket" /\ tag \notin half
     THEN Begin(tag) /\ UNCHANGED procs
     ELSE End(tag) /\ procs' = procs \ {tag}
  /\ UNCHANGED <<bus, script, reading, job, locks, replies>>

\* _forward_notification writes and releases the lock
Write(c) ==
  /\ thread[c] = "writing"
  /\ LET tag == <<c, cur[c], "forwarded">>
     IN IF tag \in half
        THEN /\ End(tag)
             /\ Thread(c, "recv")
             /\ locks' = [locks EXCEPT !.notify = {}]
        ELSE Begin(tag) /\ UNCHANGED <<thread, wire, cur, locks>>
  /\ UNCHANGED <<bus, script, client, storage, job, procs, replies>>

----------------------------------------------------------------------------
(* Replies                                                                 *)

Deliver(c) ==
  replies' = IF client[c] = "open"
             THEN [replies EXCEPT ![c] = Append(@, [of |-> job[c].of, result |-> job[c].result])]
             ELSE replies

\* UnixSocketHandler: a reply that cannot be sent ends the connection
ReplyUnix(c) ==
  /\ bus = "unix-socket" /\ job[c].at = "done"
  /\ Deliver(c)
  /\ job' = [job EXCEPT ![c] = Idle]
  /\ Thread(c, IF client[c] = "open" THEN "recv" ELSE "closed")
  /\ UNCHANGED <<bus, script, client, storage, procs, locks, sending>>

\* the sender of the client socket raises when it gets errors; nobody waits
\* for what comes after it raised
ReplyClientSocket(c) ==
  /\ bus = "client-socket" /\ job[c].at = "done"
  /\ job' = [job EXCEPT ![c] = Idle]
  /\ IF thread[c] = "reply"
     THEN /\ locks' = [locks EXCEPT !.sender = {}]
          /\ IF job[c].result = "error" \/ client[c] = "gone"
             THEN Thread(c, "closed") /\ UNCHANGED replies
             ELSE Thread(c, "recv") /\ Deliver(c)
     ELSE UNCHANGED <<thread, wire, cur, locks, replies>>
  /\ UNCHANGED <<bus, script, client, storage, procs, sending>>

\* the reply of a ubus handler or a worker thread of MQTT
ReplyBus(c) ==
  /\ ~Framed /\ job[c].at = "done"
  /\ Deliver(c)
  /\ job' = [job EXCEPT ![c] = Idle]
  /\ UNCHANGED <<bus, script, reading, procs, locks, sending>>

ClientStep(c) == SendFirst(c) \/ SendTail(c) \/ Leave(c)

ReadStep(c) ==
  \/ RecvLength(c) \/ RecvEnd(c) \/ RecvBody(c) \/ BodyEof(c)
  \/ ParseUnix(c) \/ ParseClientSocket(c) \/ Forward(c) \/ SendRequest(c)
  \/ Write(c) \/ Handler(c)

JobStep(c) ==
  \/ ProcessMessage(c) \/ SendUnix(c) \/ SendUbus(c) \/ SendMqtt(c)
  \/ ReplyUnix(c) \/ ReplyClientSocket(c) \/ ReplyBus(c)

FaultStep(c) == LoseReply(c) \/ SenderRaises(c) \/ ForwardFails(c) \/ NotifyRaises(c)

\* every client has left and its thread, if it has one, is done
Quiet ==
  /\ \A c \in Clients : client[c] = "gone" /\ wire[c] = <<>> /\ job[c] = Idle
  /\ procs = {}
  /\ Framed => \A c \in Clients : thread[c] \in {"closed", "spin"}
  /\ UNCHANGED vars

Next ==
  \/ \E c \in Clients : ClientStep(c) \/ ReadStep(c) \/ JobStep(c) \/ FaultStep(c)
  \/ \E tag \in procs : ProcessEnds(tag)
  \/ Quiet

Spec == Init /\ [][Next]_vars

\* threads and processes run, a handler returns; clients need not do anything,
\* and a forwarded request may get lost
FairSpec ==
  /\ Spec
  /\ \A c \in Clients : WF_vars(ReadStep(c)) /\ WF_vars(JobStep(c))
  /\ WF_vars(\E tag \in procs : ProcessEnds(tag))

----------------------------------------------------------------------------
(* Properties                                                              *)

\* the messages of a client that a bus answers at all
Answered(c, i) ==
  CASE bus = "unix-socket" -> script[c][i].form # "garbage"
    [] bus = "client-socket" -> script[c][i].form = "request"
    [] OTHER -> TRUE

(* A client gets its replies in the order of its messages, one each, with  *)
(* none left out and none for a message that is not complete; only a       *)
(* request is answered with anything but errors.  This is what clients of  *)
(* a socket rely on, where a reply carries no id (handle() of the unix     *)
(* socket and of the client socket, the multipart requests of ubus).  On    *)
(* MQTT there is no order: the id in the topic tells the replies apart.    *)
RepliesInOrder ==
  bus # "mqtt" => \A c \in Clients : \A k \in DOMAIN replies[c] :
    LET n == replies[c][k].of
    IN /\ n \in 1..Len(script[c]) /\ Answered(c, n)
       /\ n = Len(script[c]) => ~HalfSent(c)
       /\ \A j \in 1..k - 1 : replies[c][j].of < n
       /\ \A i \in 1..n - 1 : Answered(c, i) => \E j \in 1..k - 1 : replies[c][j].of = i
       /\ script[c][n].form # "request" => replies[c][k].result = "error"

(* A client that is told that its change was made, or that its process was *)
(* started, is told so after the notification went out: when the sender    *)
(* raises, perform_action raises and the reply has errors.  The exception  *)
(* is MQTT, where a notification is dropped after four failed attempts.    *)
ToldBeforeReply ==
  \A c \in Clients : \A k \in DOMAIN replies[c] :
    LET r == replies[c][k]
        call == script[c][r.of].call
    IN /\ r.result = "true" /\ Notifies(call) => <<c, r.of, "result">> \in heard \cup missed
       /\ r.result = "data" /\ KindOf(call) = "started" => <<c, r.of, "started">> \in heard \cup missed
       /\ missed # {} => bus = "mqtt"

(* The notifications that the client socket forwards are not mixed up: its *)
(* threads share one sender and take notification_sender_lock.  (The       *)
(* sender of the unix socket bus is shared without a lock.)                *)
ForwardedWhole == torn => bus = "unix-socket"

(* RequestStorage keeps the parts of a multipart request only as long as   *)
(* its final part has not come.                                            *)
StorageUnfinished ==
  \A id \in storage : id[2] = Len(script[id[1]]) /\ job[id[1]].of # id[2]

\* the thread waits for a lost reply, or for the lock of one that does
HeldUp(c) ==
  \E d \in Clients : /\ locks.sender = {d} /\ job[d].at = "lost"
                    /\ thread[c] = IF c = d THEN "reply" ELSE "request"

(* When a client has gone, the thread of its connection ends, whatever it  *)
(* was doing and whoever else holds the locks, or one of two loops without *)
(* end keeps it: the unix socket goes on reading a body that is not        *)
(* complete, and the client socket waits without a timeout for a reply     *)
(* that got lost, with sender_lock, which keeps all others who forward.    *)
GoneIsReleased ==
  \A c \in Clients :
    (Framed /\ client[c] = "gone") ~>
      (thread[c] = "closed" \/ HeldUp(c) \/ (bus = "unix-socket" /\ thread[c] = "spin"))
=============================================================================
