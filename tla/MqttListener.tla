---------------------------- MODULE MqttListener ----------------------------
(***************************************************************************)
(* foris_controller.buses.mqtt.MqttListener: how a request that a client   *)
(* publishes through the broker is accepted by on_message, processed by a  *)
(* thread of its own (the function work of start_message_worker) and       *)
(* answered with a retained message that the thread clears after           *)
(* CLEAR_RETAIN_PERIOD; and working_replies, the table of requests in      *)
(* progress that clients may ask for.                                      *)
(*                                                                         *)
(* A request stands for its reply_msg_id, which clients draw anew for each *)
(* request.  The broker and the clients are external: all messages here    *)
(* have QoS 0 on their way, so a broker that stops loses those in transit, *)
(* keeps the retained ones, and hands them to a client that subscribes     *)
(* again.  router.process_message always returns a reply.                  *)
(***************************************************************************)
EXTENDS Integers, FiniteSets

CONSTANTS
  Request,               \* requests for an action of a module
  Malformed,             \* those that are no JSON, no object or have no reply_msg_id
  Query,                 \* requests for the working replies
  CLEAR_RETAIN_PERIOD,   \* in ticks (10 s in the code)
  Prompt,                \* an outage, with the clients' reconnecting, takes less than a tick
  MaxStops               \* bound: stops of the broker

ASSUME MqttAssumption ==
  /\ Malformed \subseteq Request
  /\ Request \cap Query = {}
  /\ CLEAR_RETAIN_PERIOD \in Nat \ {0}
  /\ Prompt \in BOOLEAN
  /\ MaxStops \in Nat

VARIABLES
  broker,      \* "up" or "down"
  stops,       \* how often it stopped
  loop,        \* loop_forever of the controller's client: "runs" or "raised"
  listening,   \* that client is connected and subscribed
  message,     \* each request and query on its way to the controller
  client,      \* the sender of each request
  replies,     \* replies on their way to a client
  retained,    \* topics with a retained reply
  worker,      \* work() of each request
  left,        \* ticks its time.sleep has left
  working,     \* keys of working_replies
  age,         \* ticks since the entry was made, saturating
  published    \* history: replies published for each request

network == <<broker, stops, loop, listening>>
clients == <<message, client, replies>>
table == <<working, age>>
vars == <<network, clients, retained, worker, left, table, published>>

Over == CLEAR_RETAIN_PERIOD + 1     \* an age beyond CLEAR_RETAIN_PERIOD

WorkerAlive == {"mark", "process", "publish", "retry", "sleep", "clear", "unmark"}

Ended == {"done", "dead"}

Init ==
  /\ broker = "up"
  /\ stops = 0
  /\ loop = "runs" /\ listening = TRUE
  /\ message = [r \in Request \cup Query |-> "new"]
  /\ client = [r \in Request |-> "idle"]
  /\ replies = {}
  /\ retained = {}
  /\ worker = [r \in Request |-> "none"]
  /\ left = [r \in Request |-> 0]
  /\ working = {}
  /\ age = [r \in Request |-> 0]
  /\ published = [r \in Request |-> 0]

Worker(r, from, to) == worker[r] = from /\ worker' = [worker EXCEPT ![r] = to]

\* single(reply_topic, payload, retain=True)
Send(r) ==
  /\ broker = "up"
  /\ retained' = retained \cup {r}
  /\ replies' = IF client[r] = "waiting" THEN replies \cup {r} ELSE replies
  /\ published' = [published EXCEPT ![r] = @ + 1]
  /\ left' = [left EXCEPT ![r] = CLEAR_RETAIN_PERIOD]

-----------------------------------------------------------------------------
(* Faulty variants of the steps below, the bugs the properties guard.      *)

\* every reply is sent a second time
PublishTwice(r) ==
  /\ Worker(r, "publish", "retry")
  /\ Send(r)
  /\ UNCHANGED <<network, message, client, table>>

\* the reply is not retained
PublishUnretained(r) ==
  /\ Worker(r, "publish", "sleep")
  /\ broker = "up"
  /\ replies' = IF client[r] = "waiting" THEN replies \cup {r} ELSE replies
  /\ published' = [published EXCEPT ![r] = @ + 1]
  /\ left' = [left EXCEPT ![r] = CLEAR_RETAIN_PERIOD]
  /\ UNCHANGED <<network, message, client, retained, table>>

\* the worker does not clear its topic
ClearSkipped(r) ==
  /\ Worker(r, "clear", "unmark")
  /\ UNCHANGED <<network, clients, retained, left, table, published>>

\* the request is accepted and no thread is started for it
AcceptForgotten(r) ==
  /\ r \notin Malformed
  /\ message[r] = "sent" /\ listening
  /\ message' = [message EXCEPT ![r] = "accepted"]
  /\ UNCHANGED <<network, client, replies, retained, worker, left, table, published>>

-----------------------------------------------------------------------------
(* on_message, called by loop_forever in the main thread.                  *)

\* a request for an action: start_message_worker
Accept(r) ==
  /\ r \notin Malformed
  /\ message[r] = "sent" /\ listening
  /\ message' = [message EXCEPT ![r] = "accepted"]
  /\ Worker(r, "none", "mark")
  /\ UNCHANGED <<network, client, replies, retained, left, table, published>>

\* no JSON, or no reply_msg_id
Drop(r) ==
  /\ r \in Malformed
  /\ message[r] = "sent" /\ listening
  /\ message' = [message EXCEPT ![r] = "dropped"]
  /\ UNCHANGED <<network, client, replies, retained, worker, left, table, published>>

\* JSON, but no object, in which reply_msg_id could be looked for: the exception
\* leaves loop_forever, and the connection with what is on its way is lost
Raises(r) ==
  /\ r \in Malformed
  /\ message[r] = "sent" /\ listening
  /\ message' = [m \in DOMAIN message |-> CASE m = r -> "dropped"
                                            [] m # r /\ message[m] = "sent" -> "lost"
                                            [] OTHER -> message[m]]
  /\ loop' = "raised" /\ listening' = FALSE
  /\ UNCHANGED <<broker, stops, client, replies, retained, worker, left, table, published>>

\* list_working_replies answers with the keys of working_replies; this reply is
\* retained and never cleared
ListWorkingReplies(q) ==
  /\ message[q] = "sent" /\ listening
  /\ message' = [message EXCEPT ![q] = "accepted"]
  /\ retained' = retained \cup {q}
  /\ UNCHANGED <<network, client, replies, worker, left, table, published>>

\* loop_forever reconnects: handle_on_connect subscribes again
Reconnect ==
  /\ broker = "up" /\ loop = "runs" /\ ~listening
  /\ listening' = TRUE
  /\ UNCHANGED <<broker, stops, loop, clients, retained, worker, left, table, published>>

-----------------------------------------------------------------------------
(* work(), the thread of a request.                                        *)

Mark(r) ==
  /\ Worker(r, "mark", "process")
  /\ working' = working \cup {r}
  /\ age' = [age EXCEPT ![r] = 0]
  /\ UNCHANGED <<network, clients, retained, left, published>>

ProcessMessage(r) ==
  /\ Worker(r, "process", "publish")
  /\ UNCHANGED <<network, clients, retained, left, table, published>>

Publish(r) ==
  /\ Worker(r, "publish", "sleep")
  /\ Send(r)
  /\ UNCHANGED <<network, message, client, table>>

\* ConnectionRefusedError: sleep 0.3 s and try once more
PublishRefused(r) ==
  /\ broker = "down"
  /\ Worker(r, "publish", "retry")
  /\ UNCHANGED <<network, clients, retained, left, table, published>>

Retry(r) ==
  /\ Worker(r, "retry", "sleep")
  /\ Send(r)
  /\ UNCHANGED <<network, message, client, table>>

\* refused again: the exception ends the thread
RetryRefused(r) ==
  /\ broker = "down"
  /\ Worker(r, "retry", "dead")
  /\ UNCHANGED <<network, clients, retained, left, table, published>>

\* time.sleep(CLEAR_RETAIN_PERIOD) is over
WakeUp(r) ==
  /\ left[r] = 0
  /\ Worker(r, "sleep", "clear")
  /\ UNCHANGED <<network, clients, retained, left, table, published>>

\* an empty retained message removes the reply
Clear(r) ==
  /\ broker = "up"
  /\ Worker(r, "clear", "unmark")
  /\ retained' = retained \ {r}
  /\ UNCHANGED <<network, clients, left, table, published>>

\* nothing catches the exception here
ClearRefused(r) ==
  /\ broker = "down"
  /\ Worker(r, "clear", "dead")
  /\ UNCHANGED <<network, clients, retained, left, table, published>>

\* deletes its entry and those of dead threads that are old enough
Unmark(r) ==
  /\ Worker(r, "unmark", "done")
  /\ working' = {k \in working \ {r} : worker[k] \in WorkerAlive \/ age[k] <= CLEAR_RETAIN_PERIOD}
  /\ UNCHANGED <<network, clients, retained, left, age, published>>

-----------------------------------------------------------------------------
(* Time, the broker and the clients.                                       *)

Tick ==
  /\ Prompt => replies = {} /\ \A r \in Request : client[r] # "offline"
  /\ age' = [r \in Request |-> IF age[r] < Over /\ r \in working THEN age[r] + 1 ELSE age[r]]
  /\ left' = [r \in Request |-> IF left[r] > 0 THEN left[r] - 1 ELSE 0]
  /\ UNCHANGED <<network, clients, retained, worker, working, published>>

BrokerStop ==
  /\ broker = "up" /\ stops < MaxStops
  /\ broker' = "down"
  /\ stops' = stops + 1
  /\ listening' = FALSE
  /\ message' = [m \in DOMAIN message |-> IF message[m] = "sent" THEN "lost" ELSE message[m]]
  /\ client' = [r \in Request |-> IF client[r] = "waiting" THEN "offline" ELSE client[r]]
  /\ replies' = {}
  /\ UNCHANGED <<loop, retained, worker, left, table, published>>

BrokerStart ==
  /\ broker = "down"
  /\ broker' = "up"
  /\ UNCHANGED <<stops, loop, listening, clients, retained, worker, left, table, published>>

\* The client subscribes to the topic of its reply, then publishes.
Ask(r) ==
  /\ broker = "up"
  /\ client[r] = "idle"
  /\ client' = [client EXCEPT ![r] = "waiting"]
  /\ message' = [message EXCEPT ![r] = IF listening THEN "sent" ELSE "lost"]
  /\ UNCHANGED <<network, replies, retained, worker, left, table, published>>

AskWorkingReplies(q) ==
  /\ broker = "up" /\ listening
  /\ message[q] = "new"
  /\ message' = [message EXCEPT ![q] = "sent"]
  /\ UNCHANGED <<network, client, replies, retained, worker, left, table, published>>

Deliver(r) ==
  /\ r \in replies
  /\ replies' = replies \ {r}
  /\ client' = [client EXCEPT ![r] = "answered"]
  /\ UNCHANGED <<network, message, retained, worker, left, table, published>>

\* The client subscribes again and is sent what is retained.
ClientReconnect(r) ==
  /\ broker = "up"
  /\ client[r] = "offline"
  /\ client' = [client EXCEPT ![r] = IF r \in retained THEN "answered" ELSE "waiting"]
  /\ UNCHANGED <<network, message, replies, retained, worker, left, table, published>>

-----------------------------------------------------------------------------
Listen ==
  \/ Reconnect
  \/ \E r \in Request : Accept(r) \/ Drop(r) \/ Raises(r)
  \/ \E q \in Query : ListWorkingReplies(q)

Work(r) ==
  \/ Mark(r) \/ ProcessMessage(r) \/ Publish(r) \/ PublishRefused(r) \/ Retry(r) \/ RetryRefused(r)
  \/ WakeUp(r) \/ Clear(r) \/ ClearRefused(r) \/ Unmark(r)

Environment ==
  \/ Tick \/ BrokerStop \/ BrokerStart
  \/ \E r \in Request : Ask(r) \/ Deliver(r) \/ ClientReconnect(r)
  \/ \E q \in Query : AskWorkingReplies(q)

Next == Listen \/ (\E r \in Request : Work(r)) \/ Environment

Spec == Init /\ [][Next]_vars

\* The threads of the controller run, time passes, a stopped broker comes
\* back, and it and the clients do their work.
Fairness ==
  /\ WF_vars(Listen)
  /\ WF_vars(Tick) /\ WF_vars(BrokerStart)
  /\ \A r \in Request : WF_vars(Work(r)) /\ WF_vars(Deliver(r)) /\ WF_vars(ClientReconnect(r))

FairSpec == Spec /\ Fairness

-----------------------------------------------------------------------------
\* Types of the variables of the broker, the clients and the controller.
TypeOK ==
  /\ broker \in {"up", "down"} /\ stops \in 0..MaxStops
  /\ loop \in {"runs", "raised"} /\ listening \in BOOLEAN
  /\ message \in [Request \cup Query -> {"new", "sent", "lost", "accepted", "dropped"}]
  /\ client \in [Request -> {"idle", "waiting", "offline", "answered"}]
  /\ replies \subseteq Request /\ retained \subseteq Request \cup Query
  /\ worker \in [Request -> {"none"} \cup WorkerAlive \cup Ended]
  /\ left \in [Request -> 0..CLEAR_RETAIN_PERIOD]
  /\ working \subseteq Request /\ age \in [Request -> 0..Over]
  /\ published \in [Request -> Nat]

\* A request in progress stays in working_replies until its retained reply
\* is gone: no cleanup by another worker drops the entry of a live thread.
LiveWorkersListed ==
  \A r \in Request : worker[r] \in WorkerAlive \ {"mark"} => r \in working

\* working_replies lists an id whose thread is over only after the broker
\* was away while that thread wanted to publish or to clear.
GhostsOnlyAfterStop ==
  \A r \in working : worker[r] \in Ended => worker[r] = "dead" /\ stops > 0

\* A thread that ends regularly has left no retained reply behind, and one
\* that was never accepted none at all.
RetainedAccounted ==
  \A r \in Request \cap retained : worker[r] \in {"sleep", "clear"} \/ (worker[r] = "dead" /\ stops > 0)

\* A client is answered only when the controller published a reply for it,
\* which it does once: "Only one reply per request is allowed".
OneReply ==
  \A r \in Request :
    /\ published[r] <= 1
    /\ client[r] = "answered" \/ r \in replies \cup retained => published[r] = 1

\* The inductive invariant behind the four: how far the worker is decides
\* whether the request is listed and whether its reply was published.
Unpublished == {"none", "mark", "process", "publish", "retry"}

IInv ==
  /\ TypeOK
  /\ broker = "down" => stops > 0
  /\ \A r \in Request :
       /\ worker[r] \in Unpublished => published[r] = 0
       /\ worker[r] \in {"sleep", "clear", "unmark", "done"} => published[r] = 1
       /\ worker[r] = "dead" => published[r] <= 1 /\ stops > 0
       /\ r \in working => worker[r] \notin {"none", "mark", "done"}
       /\ worker[r] \in WorkerAlive \ {"mark"} => r \in working
       /\ r \in retained => published[r] = 1 /\ worker[r] \in {"sleep", "clear", "dead"}
       /\ client[r] = "answered" \/ r \in replies => published[r] = 1

\* Each well-formed request is answered, by on_message, work() and the router,
\* also when the broker stops, except in two cases: the request did not reach
\* on_message (the broker stopped before, or the main loop was ended by a
\* request that is no object), or both attempts to publish were refused.
EveryRequestAnswered ==
  \A r \in Request \ Malformed :
    client[r] = "waiting" ~> \/ client[r] = "answered"
                             \/ message[r] = "lost"
                             \/ worker[r] = "dead" /\ published[r] = 0

\* A reply that was published reaches its client although the broker stops,
\* when the client is back within CLEAR_RETAIN_PERIOD (the broker stop
\* "4 to 5" of the MQTT protocol, whose remedy is retaining the message).
PublishedIsDelivered ==
  \A r \in Request : published[r] > 0 ~> client[r] = "answered"

=============================================================================
