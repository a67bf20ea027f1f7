----------------------------- MODULE MqttProofs -----------------------------
(***************************************************************************)
(* Proofs about MqttListener: for any number of requests and of stops of   *)
(* the broker, working_replies and the retained replies are accounted for  *)
(* and no request is answered twice.                                       *)
(***************************************************************************)
EXTENDS MqttListener, TLAPS

(* The initial states satisfy the invariant.                               *)
LEMMA InitIInv == Init => IInv
BY MqttAssumption DEF Init, IInv, TypeOK, WorkerAlive, Ended, Unpublished, Over

(* A stop of the broker rewrites the messages and clients in bulk.         *)
LEMMA StopTypeOK == TypeOK /\ BrokerStop => TypeOK'
<1> SUFFICES ASSUME TypeOK, BrokerStop PROVE TypeOK'  OBVIOUS
<1>1. message' \in [Request \cup Query -> {"new", "sent", "lost", "accepted", "dropped"}]
  BY DEF TypeOK, BrokerStop
<1>2. client' \in [Request -> {"idle", "waiting", "offline", "answered"}]
  BY DEF TypeOK, BrokerStop
<1>3. stops' \in 0..MaxStops
  BY MqttAssumption DEF TypeOK, BrokerStop
<1>4. broker' = "down" /\ loop' = loop /\ listening' = FALSE /\ replies' = {}
  BY DEF BrokerStop
<1>5. UNCHANGED <<retained, worker, left, working, age, published>>
  BY DEF BrokerStop, table
<1> QED  BY <1>1, <1>2, <1>3, <1>4, <1>5, Zenon DEF TypeOK

(* A step of one request's life leaves the conjuncts of the others alone;  *)
(* each action below is checked against the whole invariant, because a     *)
(* worker's position decides all of its conjuncts at once.                 *)
LEMMA NextIInv == IInv /\ [Next]_vars => IInv'
<1> SUFFICES ASSUME IInv, [Next]_vars PROVE IInv'  OBVIOUS
<1> USE MqttAssumption DEF IInv, TypeOK, WorkerAlive, Ended, Unpublished, Over, Worker,
        network, clients, table
<1>1. ASSUME NEW r \in Request, Accept(r) PROVE IInv'
  BY <1>1 DEF Accept
<1>2. ASSUME NEW r \in Request, Drop(r) PROVE IInv'
  BY <1>2 DEF Drop
<1>3. ASSUME NEW q \in Query, ListWorkingReplies(q) PROVE IInv'
  BY <1>3 DEF ListWorkingReplies
<1>4. ASSUME NEW r \in Request, Mark(r) PROVE IInv'
  BY <1>4 DEF Mark
<1>5. ASSUME NEW r \in Request, ProcessMessage(r) PROVE IInv'
  BY <1>5 DEF ProcessMessage
<1>6. ASSUME NEW r \in Request, Publish(r) PROVE IInv'
  BY <1>6 DEF Publish, Send
<1>7. ASSUME NEW r \in Request, PublishRefused(r) PROVE IInv'
  BY <1>7 DEF PublishRefused
<1>8. ASSUME NEW r \in Request, Retry(r) PROVE IInv'
  BY <1>8 DEF Retry, Send
<1>9. ASSUME NEW r \in Request, RetryRefused(r) PROVE IInv'
  BY <1>9 DEF RetryRefused
<1>10. ASSUME NEW r \in Request, WakeUp(r) PROVE IInv'
  BY <1>10 DEF WakeUp
<1>11. ASSUME NEW r \in Request, Clear(r) PROVE IInv'
  BY <1>11 DEF Clear
<1>12. ASSUME NEW r \in Request, ClearRefused(r) PROVE IInv'
  BY <1>12 DEF ClearRefused
<1>13. ASSUME NEW r \in Request, Unmark(r) PROVE IInv'
  BY <1>13 DEF Unmark
<1>14. ASSUME NEW r \in Request, Ask(r) PROVE IInv'
  BY <1>14 DEF Ask
<1>15. ASSUME NEW r \in Request, Deliver(r) PROVE IInv'
  BY <1>15 DEF Deliver
<1>16. ASSUME NEW r \in Request, ClientReconnect(r) PROVE IInv'
  BY <1>16 DEF ClientReconnect
<1>17. ASSUME NEW q \in Query, AskWorkingReplies(q) PROVE IInv'
  BY <1>17 DEF AskWorkingReplies
<1>18. CASE Reconnect
  BY <1>18 DEF Reconnect
<1>19. CASE Tick
  BY <1>19 DEF Tick
<1>20. CASE BrokerStop
  <2>2. stops' \in 1..MaxStops  BY <1>20 DEF BrokerStop
  <2>3. TypeOK'  BY <1>20, StopTypeOK
  <2>4. \A r \in Request : client'[r] = "answered" => client[r] = "answered"
    BY <1>20 DEF BrokerStop
  <2>5. UNCHANGED <<retained, worker, working, published>> /\ replies' = {}
    BY <1>20 DEF BrokerStop
  <2> QED  BY <2>2, <2>3, <2>4, <2>5
<1>21. CASE BrokerStart
  BY <1>21 DEF BrokerStart
<1>22. CASE UNCHANGED vars
  BY <1>22 DEF vars
<1>23. ASSUME NEW r \in Request, Raises(r) PROVE IInv'
  <2>1. message' \in [Request \cup Query -> {"new", "sent", "lost", "accepted", "dropped"}]
    BY <1>23 DEF Raises
  <2>2. loop' = "raised" /\ listening' = FALSE
    BY <1>23 DEF Raises
  <2>3. UNCHANGED <<broker, stops, client, replies, retained, worker, left, working, age, published>>
    BY <1>23 DEF Raises
  <2> QED  BY <2>1, <2>2, <2>3
<1> QED
  BY <1>1, <1>2, <1>3, <1>4, <1>5, <1>6, <1>7, <1>8, <1>9, <1>10, <1>11,
     <1>12, <1>13, <1>14, <1>15, <1>16, <1>17, <1>18, <1>19, <1>20, <1>21, <1>22, <1>23
  DEF Next, Listen, Work, Environment

(* The invariant holds in every reachable state.                           *)
THEOREM Invariance == Spec => []IInv
BY InitIInv, NextIInv, PTL DEF Spec

(* No cleanup removes the entry of a request whose thread is alive.        *)
THEOREM MqttLiveWorkersListed == Spec => []LiveWorkersListed
<1>1. IInv => LiveWorkersListed  BY DEF IInv, LiveWorkersListed
<1> QED  BY <1>1, Invariance, PTL

(* Only a broker outage leaves an id of a finished thread in the list.     *)
THEOREM MqttGhostsOnlyAfterStop == Spec => []GhostsOnlyAfterStop
<1>1. IInv => GhostsOnlyAfterStop  BY DEF IInv, TypeOK, GhostsOnlyAfterStop, Ended
<1> QED  BY <1>1, Invariance, PTL

(* Only a broker outage leaves a retained reply behind.                    *)
THEOREM MqttRetainedAccounted == Spec => []RetainedAccounted
<1>1. IInv => RetainedAccounted  BY DEF IInv, RetainedAccounted
<1> QED  BY <1>1, Invariance, PTL

(* A request is answered at most once, and only by the controller.         *)
THEOREM MqttOneReply == Spec => []OneReply
<1>1. IInv => OneReply
  <2> SUFFICES ASSUME IInv, NEW r \in Request
               PROVE  /\ published[r] <= 1
                      /\ client[r] = "answered" \/ r \in replies \cup retained => published[r] = 1
    BY DEF OneReply
  <2>1. published[r] <= 1
    BY DEF IInv, TypeOK, WorkerAlive, Ended, Unpublished
  <2> QED  BY <2>1 DEF IInv
<1> QED  BY <1>1, Invariance, PTL
=============================================================================
