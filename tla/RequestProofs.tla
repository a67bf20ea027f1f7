--------------------------- MODULE RequestProofs ---------------------------
(***************************************************************************)
(* Proofs about the way of a message, for any clients, calls and number of *)
(* messages and on every bus.                                              *)
(*                                                                         *)
(* The four properties are proved from four groups of invariants, one per  *)
(* concern and each about one client at a time where it can be:            *)
(*   JobOK      what Router has found out about the message it works on,   *)
(*              and that a result which must be notified was (ToldOK);     *)
(*   OrderOK    which messages were answered (Upto), which one the thread  *)
(*              works on, and that the wire brings the ones after it, each *)
(*              whole and in order (Chain, Ahead);                         *)
(*   StorageOK  a multipart request is kept only while its last part is    *)
(*              missing;                                                   *)
(*   WritersOK  only the holder of notification_sender_lock writes.        *)
(***************************************************************************)
EXTENDS Requests, TLAPS

Forms == {"garbage", "scalar", "invalid", "notification", "reply", "request"}
Message == [form : Forms, call : Calls]
Pieces == {"head", "tail", "whole", "stub"}
Results == {"none", "error", "data", "true", "false"}
Job == [at : {"idle", "input", "notify", "done", "lost"}, of : Nat, result : Results, tries : Nat]
Answers == [of : Nat, result : Results]
ThreadStates == {"recv", "body", "parse", "forward", "writing", "request", "reply", "closed", "spin"}

TypeOK ==
  /\ bus \in Buses
  /\ script \in [Clients -> Seq(Message)]
  /\ wire \in [Clients -> Seq(Nat \X Pieces)]
  /\ client \in [Clients -> {"open", "gone"}]
  /\ thread \in [Clients -> ThreadStates]
  /\ cur \in [Clients -> Nat]
  /\ job \in [Clients -> Job]
  /\ storage \subseteq Clients \X Nat
  /\ replies \in [Clients -> Seq(Answers)]

Sent(c) == Len(script[c])
Form(c, i) == script[c][i].form

\* The notification that belongs to a result went out or was given up.
ToldOK(c, i, result) ==
  LET call == script[c][i].call
  IN /\ result = "true" /\ Notifies(call) => <<c, i, "result">> \in heard \cup missed
     /\ result = "data" /\ KindOf(call) = "started" => <<c, i, "started">> \in heard \cup missed

JobOK(c) ==
  /\ IF job[c].at = "idle" THEN job[c] = Idle ELSE job[c].of \in 1..Sent(c)
  /\ job[c].at = "notify" =>
       /\ Form(c, job[c].of) = "request"
       /\ LET call == script[c][job[c].of].call
          IN \/ job[c].result = "true" /\ Notifies(call)
             \/ job[c].result = "data" /\ KindOf(call) = "started"
  /\ job[c].at = "done" =>
       /\ Form(c, job[c].of) # "request" => job[c].result = "error"
       /\ ToldOK(c, job[c].of, job[c].result)

ReplyOK(c, k) ==
  /\ replies[c][k].of \in 1..Sent(c)
  /\ Form(c, replies[c][k].of) # "request" => replies[c][k].result = "error"
  /\ ToldOK(c, replies[c][k].of, replies[c][k].result)

RepliesOK(c) == \A k \in DOMAIN replies[c] : ReplyOK(c, k)

MissedOK == missed # {} => bus = "mqtt"

----------------------------------------------------------------------------
\* The order of messages and replies

\* Exactly the messages up to n that the bus answers were answered.
Upto(c, n) == {replies[c][k].of : k \in DOMAIN replies[c]} = {i \in 1..n : Answered(c, i)}

\* The numbers of the replies ascend and none is left out.
Ascending(c) ==
  \A k \in DOMAIN replies[c] :
    /\ Answered(c, replies[c][k].of)
    /\ \A j \in 1..k - 1 : replies[c][j].of < replies[c][k].of
    /\ \A i \in 1..replies[c][k].of - 1 : Answered(c, i) =>
         \E j \in 1..k - 1 : replies[c][j].of = i

\* On a socket a piece is followed by the rest of its message or by the next
\* message, and the last piece is of the last message.
Follows(c, x, y) ==
  \/ x[2] = "head" /\ y = <<x[1], "tail">>
  \/ x[2] = "tail" /\ y = <<x[1] + 1, "head">>
  \/ x[2] = "tail" /\ x[1] = Sent(c) /\ y[2] = "stub"

Chain(c) ==
  /\ \A k \in 1..Len(wire[c]) :
       IF wire[c][k][2] = "stub" THEN client[c] = "gone"
       ELSE wire[c][k][1] \in 1..Sent(c) /\ wire[c][k][2] \in {"head", "tail"}
  /\ \A k \in 1..Len(wire[c]) - 1 : Follows(c, wire[c][k], wire[c][k + 1])
  /\ wire[c] # <<>> =>
       wire[c][Len(wire[c])][2] = "stub" \/ wire[c][Len(wire[c])][1] = Sent(c)

\* The wire brings the messages from number n on.
Ahead(c, n) ==
  IF wire[c] = <<>> THEN n = Sent(c) + 1
  ELSE IF wire[c][1][2] = "stub" THEN n = Sent(c) + 1
  ELSE wire[c][1] = <<n, "head">>

Working == {"parse", "forward", "writing", "request", "reply"}

\* A connection of a socket
SocketOK(c) ==
  /\ Chain(c)
  /\ thread[c] = "recv" => \E n \in 1..Sent(c) + 1 : Ahead(c, n) /\ Upto(c, n - 1)
  /\ thread[c] = "body" =>
       /\ cur[c] \in 1..Sent(c) /\ Upto(c, cur[c] - 1)
       /\ IF wire[c] = <<>> THEN cur[c] = Sent(c) ELSE wire[c][1] = <<cur[c], "tail">>
  /\ thread[c] \in Working =>
       cur[c] \in 1..Sent(c) /\ Upto(c, cur[c] - 1) /\ Ahead(c, cur[c] + 1)
  /\ thread[c] \in {"closed", "spin"} => wire[c] = <<>>
  /\ thread[c] = "spin" => client[c] = "gone"
  /\ thread[c] \in {"forward", "writing"} =>
       bus = "client-socket" /\ Form(c, cur[c]) = "notification"
  /\ thread[c] = "request" => bus = "client-socket" /\ Form(c, cur[c]) = "request"
  /\ thread[c] = "reply" => job[c].of = cur[c] /\ Answered(c, cur[c])
  /\ bus = "unix-socket" /\ thread[c] # "reply" => job[c] = Idle

\* A client of ubus or MQTT, which has at most one message under way
CallOK(c) ==
  /\ thread[c] = "recv"
  /\ Len(wire[c]) <= 1
  /\ wire[c] # <<>> =>
       /\ wire[c][1][1] = Sent(c) /\ Sent(c) >= 1 /\ job[c] = Idle
       /\ wire[c][1][2] \in (IF <<c, Sent(c)>> \in storage THEN {"tail"} ELSE {"head", "whole"})
  /\ job[c] # Idle => job[c].of = Sent(c) /\ <<c, Sent(c)>> \notin storage
  /\ IF wire[c] # <<>> \/ job[c] # Idle \/ <<c, Sent(c)>> \in storage THEN Upto(c, Sent(c) - 1)
     ELSE client[c] = "open" => Upto(c, Sent(c))

OrderOK(c) == Ascending(c) /\ IF Framed THEN SocketOK(c) ELSE CallOK(c)

----------------------------------------------------------------------------
\* The storage and the lock

StorageOK ==
  /\ Framed => storage = {}
  /\ \A id \in storage : id[2] = Sent(id[1]) /\ id[2] # 0

WritersOK ==
  /\ locks \in [sender : SUBSET Clients, notify : SUBSET Clients]
  /\ \A c \in Clients : thread[c] = "writing" => locks.notify = {c}
  /\ bus # "unix-socket" =>
       /\ torn = FALSE
       /\ \A tag \in half : \E c \in Clients : thread[c] = "writing" /\ tag = <<c, cur[c], "forwarded">>

IInv ==
  /\ TypeOK
  /\ \A c \in Clients : JobOK(c) /\ RepliesOK(c) /\ OrderOK(c)
  /\ MissedOK /\ StorageOK /\ WritersOK

----------------------------------------------------------------------------
\* Types

Steps(c) == ClientStep(c) \/ ReadStep(c) \/ JobStep(c) \/ FaultStep(c)

LEMMA MessageType ==
  ASSUME bus \in Buses, NEW m \in Messages
  PROVE  m \in Message /\ (bus \notin {"unix-socket", "client-socket"} => m.form # "scalar")
  <1>1. (CHOOSE call \in Calls : TRUE) \in Calls
    BY RequestsAssumption
  <1> QED  BY <1>1 DEF Messages, Message, Forms, FormsOf, Buses

LEMMA IdleType == Idle \in Job /\ Idle.at = "idle" /\ Idle.of = 0
  BY DEF Idle, Job, Results

LEMMA TypeClient ==
  ASSUME TypeOK, NEW c \in Clients, ClientStep(c)
  PROVE  TypeOK'
  <1>1. ASSUME NEW i \in Nat, NEW p \in Pieces, Piece(c, i, p)
        PROVE  wire' \in [Clients -> Seq(Nat \X Pieces)]
    <2>1. wire[c] \in Seq(Nat \X Pieces) /\ <<i, p>> \in Nat \X Pieces
      BY DEF TypeOK
    <2>2. Append(wire[c], <<i, p>>) \in Seq(Nat \X Pieces)
      BY <2>1
    <2> QED  BY <1>1, <2>2 DEF Piece, TypeOK
  <1>2. Len(script[c]) \in Nat
    BY DEF TypeOK
  <1>3. CASE SendFirst(c)
    <2>1. PICK m \in Messages, p \in {"head", "whole"} :
            script' = [script EXCEPT ![c] = Append(@, m)] /\ Piece(c, Len(script[c]) + 1, p)
      BY <1>3 DEF SendFirst
    <2>2. m \in Message
      BY MessageType DEF TypeOK
    <2>3. script' \in [Clients -> Seq(Message)]
      BY <2>1, <2>2 DEF TypeOK
    <2>4. wire' \in [Clients -> Seq(Nat \X Pieces)]
      BY <2>1, <1>1, <1>2 DEF Pieces
    <2> QED  BY <1>3, <2>3, <2>4 DEF SendFirst, TypeOK
  <1>4. CASE SendTail(c)
    <2>1. wire' \in [Clients -> Seq(Nat \X Pieces)]
      BY <1>4, <1>1, <1>2 DEF SendTail, Pieces
    <2> QED  BY <1>4, <2>1 DEF SendTail, TypeOK
  <1>5. CASE Leave(c)
    <2>1. wire' \in [Clients -> Seq(Nat \X Pieces)]
      BY <1>5, <1>1 DEF Leave, Pieces, TypeOK
    <2> QED  BY <1>5, <2>1 DEF Leave, TypeOK
  <1> QED  BY <1>3, <1>4, <1>5 DEF ClientStep

\* What a thread of a socket does to the types
LEMMA TypeThread ==
  ASSUME TypeOK, NEW c \in Clients, NEW to \in ThreadStates, Thread(c, to)
  PROVE  /\ wire' \in [Clients -> Seq(Nat \X Pieces)] /\ thread' \in [Clients -> ThreadStates]
         /\ cur' \in [Clients -> Nat]
  BY DEF Thread, TypeOK

LEMMA TypeReceived ==
  ASSUME TypeOK, NEW c \in Clients, NEW to \in ThreadStates, NEW i \in Nat, wire[c] # <<>>,
         Received(c, to, i)
  PROVE  TypeOK'
  <1>1. Tail(wire[c]) \in Seq(Nat \X Pieces)
    BY DEF TypeOK
  <1> QED  BY <1>1 DEF Received, TypeOK

LEMMA HeadType ==
  ASSUME TypeOK, NEW c \in Clients, wire[c] # <<>>
  PROVE  /\ Head(wire[c]) = wire[c][1] /\ wire[c][1] \in Nat \X Pieces
         /\ wire[c][1][1] \in Nat /\ wire[c][1][2] \in Pieces
  <1>1. wire[c] \in Seq(Nat \X Pieces)
    BY DEF TypeOK
  <1> QED  BY <1>1

LEMMA TypeRoute ==
  ASSUME TypeOK, NEW c \in Clients, NEW i \in Nat, Route(c, i)
  PROVE  job' \in [Clients -> Job]
  BY IdleType DEF Route, TypeOK, Job

LEMMA TypeRead ==
  ASSUME TypeOK, NEW c \in Clients, ReadStep(c)
  PROVE  TypeOK'
  <1>1. ASSUME NEW to \in ThreadStates, Becomes(c, to), job' \in [Clients -> Job]
        PROVE  TypeOK'
    <2>1. /\ wire' \in [Clients -> Seq(Nat \X Pieces)] /\ thread' \in [Clients -> ThreadStates]
          /\ cur' \in [Clients -> Nat]
      BY <1>1, TypeThread DEF Becomes
    <2> QED  BY <1>1, <2>1 DEF Becomes, TypeOK
  <1>2. job \in [Clients -> Job] /\ cur[c] \in Nat
    BY DEF TypeOK
  <1>3. "recv" \in ThreadStates /\ "closed" \in ThreadStates /\ "spin" \in ThreadStates
        /\ "body" \in ThreadStates /\ "parse" \in ThreadStates /\ "forward" \in ThreadStates
        /\ "writing" \in ThreadStates /\ "request" \in ThreadStates /\ "reply" \in ThreadStates
    BY DEF ThreadStates
  <1>4. CASE RecvLength(c)
    BY <1>4, <1>1, <1>2, <1>3, HeadType, TypeReceived DEF RecvLength
  <1>5. CASE RecvEnd(c)
    BY <1>5, <1>1, <1>2, <1>3 DEF RecvEnd
  <1>6. CASE RecvBody(c)
    BY <1>6, <1>2, <1>3, TypeReceived DEF RecvBody
  <1>7. CASE BodyEof(c)
    BY <1>7, <1>1, <1>2, <1>3 DEF BodyEof
  <1>8. CASE ParseUnix(c)
    BY <1>8, <1>1, <1>2, <1>3, TypeRoute DEF ParseUnix
  <1>9. CASE ParseClientSocket(c)
    BY <1>9, <1>1, <1>2, <1>3 DEF ParseClientSocket
  <1>10. CASE Forward(c)
    BY <1>10, <1>1, <1>2, <1>3 DEF Forward
  <1>11. CASE SendRequest(c)
    BY <1>11, <1>1, <1>2, <1>3, TypeRoute DEF SendRequest
  <1>12. CASE Write(c)
    <2>1. /\ wire' \in [Clients -> Seq(Nat \X Pieces)] /\ thread' \in [Clients -> ThreadStates]
          /\ cur' \in [Clients -> Nat]
      BY <1>12, <1>3, TypeThread DEF Write, TypeOK
    <2> QED  BY <1>12, <2>1 DEF Write, TypeOK
  <1>13. CASE Handler(c)
    <2>1. wire' \in [Clients -> Seq(Nat \X Pieces)]
      <3>1. Tail(wire[c]) \in Seq(Nat \X Pieces)
        BY <1>13 DEF Handler, TypeOK
      <3> QED  BY <1>13, <3>1 DEF Handler, TypeOK
    <2>2. PICK i \in Nat : i = Head(wire[c])[1]
      BY <1>13, HeadType DEF Handler
    <2>3. <<c, i>> \in Clients \X Nat
      OBVIOUS
    <2>4. storage' \subseteq Clients \X Nat
      BY <1>13, <2>2, <2>3 DEF Handler, Pickup, TypeOK
    <2>5. job' \in [Clients -> Job]
      BY <1>13, <2>2, <1>2, TypeRoute DEF Handler
    <2>6. ASSUME ErrorReply(c, i)
          PROVE  replies' \in [Clients -> Seq(Answers)]
      <3>1. [of |-> i, result |-> "error"] \in Answers /\ replies[c] \in Seq(Answers)
        BY DEF Answers, Results, TypeOK
      <3>2. Append(replies[c], [of |-> i, result |-> "error"]) \in Seq(Answers)
        BY <3>1
      <3> QED  BY <2>6, <3>2 DEF ErrorReply, TypeOK
    <2>7. replies' \in [Clients -> Seq(Answers)]
      <3>1. ErrorReply(c, i) \/ UNCHANGED replies
        BY <1>13, <2>2 DEF Handler
      <3> QED  BY <3>1, <2>6 DEF TypeOK
    <2>8. UNCHANGED <<bus, script, client, thread, cur>>
      BY <1>13 DEF Handler
    <2> QED  BY <2>1, <2>4, <2>5, <2>7, <2>8 DEF TypeOK
  <1> QED  BY <1>4, <1>5, <1>6, <1>7, <1>8, <1>9, <1>10, <1>11, <1>12, <1>13 DEF ReadStep

LEMMA TypeJob ==
  ASSUME TypeOK, NEW c \in Clients, JobStep(c) \/ FaultStep(c)
  PROVE  TypeOK'
  <1>1. ASSUME NEW result \in Results, Ends(c, result) \/ Continues(c, result)
        PROVE  job' \in [Clients -> Job]
    <2>1. PICK at \in {"notify", "done"}, r \in Results :
            job' = [job EXCEPT ![c].at = at, ![c].result = r]
      BY <1>1 DEF Ends, Continues, Results
    <2>2. job \in [Clients -> Job]
      BY DEF TypeOK
    <2> QED  BY <2>1, <2>2 DEF Job
  <1>2. job[c] \in Job /\ job[c].result \in Results /\ job[c].tries \in Nat /\ job[c].of \in Nat
    BY DEF TypeOK, Job
  <1>3. "error" \in Results /\ "data" \in Results /\ "true" \in Results /\ "false" \in Results
    BY DEF Results
  <1>4. ASSUME Deliver(c)
        PROVE  replies' \in [Clients -> Seq(Answers)]
    <2>1. [of |-> job[c].of, result |-> job[c].result] \in Answers /\ replies[c] \in Seq(Answers)
      BY <1>2 DEF Answers, TypeOK
    <2>2. Append(replies[c], [of |-> job[c].of, result |-> job[c].result]) \in Seq(Answers)
      BY <2>1
    <2> QED  BY <1>4, <2>2 DEF Deliver, TypeOK
  <1>5. ASSUME job' = [job EXCEPT ![c] = Idle]
        PROVE  job' \in [Clients -> Job]
    BY <1>5, IdleType DEF TypeOK
  <1>6. "recv" \in ThreadStates /\ "closed" \in ThreadStates
    BY DEF ThreadStates
  <1>7. CASE ProcessMessage(c)
    <2>1. job' \in [Clients -> Job]
      BY <1>7, <1>1, <1>3 DEF ProcessMessage
    <2> QED  BY <1>7, <2>1 DEF ProcessMessage, TypeOK, reading
  <1>8. CASE SendUnix(c)
    <2>1. job' \in [Clients -> Job]
      BY <1>8, <1>1, <1>2 DEF SendUnix, TypeOK
    <2> QED  BY <1>8, <2>1 DEF SendUnix, TypeOK, reading
  <1>9. CASE SendUbus(c)
    <2>1. job' \in [Clients -> Job]
      BY <1>9, <1>1, <1>2 DEF SendUbus
    <2> QED  BY <1>9, <2>1 DEF SendUbus, TypeOK, reading
  <1>10. CASE SendMqtt(c)
    <2>1. ASSUME job' = [job EXCEPT ![c].tries = @ + 1]
          PROVE  job' \in [Clients -> Job]
      <3>1. job \in [Clients -> Job] /\ job[c].tries + 1 \in Nat
        BY <1>2 DEF TypeOK
      <3> QED  BY <2>1, <3>1 DEF Job
    <2>2. job' \in [Clients -> Job]
      BY <1>10, <2>1, <1>1, <1>2 DEF SendMqtt
    <2> QED  BY <1>10, <2>2 DEF SendMqtt, TypeOK, reading
  <1>11. CASE ReplyUnix(c)
    <2>1. /\ wire' \in [Clients -> Seq(Nat \X Pieces)] /\ thread' \in [Clients -> ThreadStates]
          /\ cur' \in [Clients -> Nat]
      BY <1>11, <1>6, TypeThread DEF ReplyUnix
    <2> QED  BY <1>11, <2>1, <1>4, <1>5 DEF ReplyUnix, TypeOK
  <1>12. CASE ReplyClientSocket(c)
    <2>1. /\ wire' \in [Clients -> Seq(Nat \X Pieces)] /\ thread' \in [Clients -> ThreadStates]
          /\ cur' \in [Clients -> Nat]
      BY <1>12, <1>6, TypeThread DEF ReplyClientSocket, TypeOK
    <2>2. replies' \in [Clients -> Seq(Answers)]
      BY <1>12, <1>4 DEF ReplyClientSocket, TypeOK
    <2> QED  BY <1>12, <2>1, <2>2, <1>5 DEF ReplyClientSocket, TypeOK
  <1>13. CASE ReplyBus(c)
    BY <1>13, <1>4, <1>5 DEF ReplyBus, TypeOK, reading
  <1>14. CASE SenderRaises(c) \/ ForwardFails(c)
    <2>0. PICK j \in Job : job' = [job EXCEPT ![c] = j]
      <3>1. job = [job EXCEPT ![c] = job[c]]
        BY DEF TypeOK
      <3> QED  BY <1>14, <1>2, <3>1, IdleType DEF SenderRaises, ForwardFails
    <2>1. Becomes(c, "closed") /\ job' \in [Clients -> Job]
      BY <1>14, <2>0 DEF SenderRaises, ForwardFails, TypeOK
    <2>2. /\ wire' \in [Clients -> Seq(Nat \X Pieces)] /\ thread' \in [Clients -> ThreadStates]
          /\ cur' \in [Clients -> Nat]
      BY <2>1, <1>6, TypeThread DEF Becomes
    <2> QED  BY <2>1, <2>2 DEF Becomes, TypeOK
  <1>15. CASE NotifyRaises(c)
    <2>1. job' \in [Clients -> Job]
      BY <1>15, <1>1, <1>3 DEF NotifyRaises
    <2> QED  BY <1>15, <2>1 DEF NotifyRaises, TypeOK, reading
  <1>16. CASE LoseReply(c)
    <2>1. job' = [job EXCEPT ![c].at = "lost"] /\ job \in [Clients -> Job]
      BY <1>16 DEF LoseReply, TypeOK
    <2>2. job' \in [Clients -> Job]
      BY <2>1 DEF Job
    <2> QED  BY <1>16, <2>2 DEF LoseReply, TypeOK, reading
  <1> QED  BY <1>7, <1>8, <1>9, <1>10, <1>11, <1>12, <1>13, <1>14, <1>15, <1>16 DEF JobStep, FaultStep

----------------------------------------------------------------------------
\* A step of one client leaves the others alone.

Same(d) ==
  /\ script'[d] = script[d] /\ wire'[d] = wire[d] /\ client'[d] = client[d]
  /\ thread'[d] = thread[d] /\ cur'[d] = cur[d] /\ job'[d] = job[d] /\ replies'[d] = replies[d]
  /\ \A i : <<d, i>> \in storage' <=> <<d, i>> \in storage

NothingUnsaid == bus' = bus /\ heard \subseteq heard' /\ missed \subseteq missed'

LEMMA Frame ==
  ASSUME TypeOK, NEW c \in Clients, Steps(c), NEW d \in Clients, d # c
  PROVE  Same(d)
  <1>t. /\ script \in [Clients -> Seq(Message)] /\ wire \in [Clients -> Seq(Nat \X Pieces)]
        /\ client \in [Clients -> {"open", "gone"}] /\ thread \in [Clients -> ThreadStates]
        /\ cur \in [Clients -> Nat] /\ job \in [Clients -> Job]
        /\ replies \in [Clients -> Seq(Answers)]
    BY DEF TypeOK
  <1>1. ASSUME NEW to, Thread(c, to)
        PROVE  wire'[d] = wire[d] /\ thread'[d] = thread[d] /\ cur'[d] = cur[d]
    BY <1>1, <1>t DEF Thread
  <1>2. ASSUME NEW to, Becomes(c, to), job'[d] = job[d]
        PROVE  Same(d)
    BY <1>1, <1>2 DEF Becomes, Same
  <1>3. ASSUME NEW to, NEW i, Received(c, to, i)
        PROVE  Same(d)
    BY <1>3, <1>t DEF Received, Same
  <1>4. ASSUME NEW i, Route(c, i)
        PROVE  job'[d] = job[d]
    BY <1>4, <1>t DEF Route
  <1>5. ASSUME NEW result, Ends(c, result) \/ Continues(c, result)
        PROVE  job'[d] = job[d]
    BY <1>5, <1>t DEF Ends, Continues
  <1>6. ASSUME Deliver(c)
        PROVE  replies'[d] = replies[d]
    BY <1>6, <1>t DEF Deliver
  <1>7. ASSUME job' = [job EXCEPT ![c] = Idle]
        PROVE  job'[d] = job[d]
    BY <1>7, <1>t
  <1>8. CASE ClientStep(c)
    BY <1>8, <1>t DEF ClientStep, SendFirst, SendTail, Leave, Piece, Same
  <1>9. CASE RecvLength(c) \/ RecvEnd(c) \/ RecvBody(c) \/ BodyEof(c)
    BY <1>9, <1>2, <1>3 DEF RecvLength, RecvEnd, RecvBody, BodyEof
  <1>10. CASE ParseUnix(c) \/ ParseClientSocket(c) \/ Forward(c) \/ SendRequest(c)
    BY <1>10, <1>2, <1>4 DEF ParseUnix, ParseClientSocket, Forward, SendRequest
  <1>11. CASE Write(c)
    <2>1. wire'[d] = wire[d] /\ thread'[d] = thread[d] /\ cur'[d] = cur[d]
      BY <1>11, <1>1 DEF Write
    <2> QED  BY <1>11, <2>1 DEF Write, Same
  <1>12. CASE Handler(c)
    <2>1. job'[d] = job[d]
      BY <1>12, <1>4 DEF Handler
    <2>2. wire'[d] = wire[d]
      BY <1>12, <1>t DEF Handler
    <2>3. replies'[d] = replies[d]
      BY <1>12, <1>t DEF Handler, ErrorReply
    <2>4. \A i : <<d, i>> \in storage' <=> <<d, i>> \in storage
      <3>1. PICK i : \/ storage' = storage \cup {<<c, i>>} \/ storage' = storage \ {<<c, i>>}
                     \/ storage' = storage
        BY <1>12 DEF Handler, Pickup
      <3> QED  BY <3>1
    <2> QED  BY <1>12, <2>1, <2>2, <2>3, <2>4 DEF Handler, Same
  <1>13. CASE ProcessMessage(c) \/ SendUnix(c) \/ SendUbus(c) \/ SendMqtt(c) \/ NotifyRaises(c)
    <2>1. job'[d] = job[d]
      <3>1. CASE ProcessMessage(c)
        BY <3>1, <1>5 DEF ProcessMessage
      <3>2. CASE SendUnix(c) \/ SendUbus(c) \/ NotifyRaises(c)
        BY <3>2, <1>5 DEF SendUnix, SendUbus, NotifyRaises
      <3>3. CASE SendMqtt(c)
        BY <3>3, <1>5, <1>t DEF SendMqtt
      <3> QED  BY <1>13, <3>1, <3>2, <3>3
    <2>2. UNCHANGED <<script, wire, client, thread, cur, storage, replies>>
      BY <1>13 DEF ProcessMessage, SendUnix, SendUbus, SendMqtt, NotifyRaises, reading
    <2> QED  BY <2>1, <2>2 DEF Same
  <1>14. CASE ReplyUnix(c)
    <2>1. wire'[d] = wire[d] /\ thread'[d] = thread[d] /\ cur'[d] = cur[d]
      BY <1>14, <1>1 DEF ReplyUnix
    <2> QED  BY <1>14, <2>1, <1>6, <1>7 DEF ReplyUnix, Same
  <1>15. CASE ReplyClientSocket(c)
    <2>1. wire'[d] = wire[d] /\ thread'[d] = thread[d] /\ cur'[d] = cur[d]
      BY <1>15, <1>1 DEF ReplyClientSocket
    <2>2. replies'[d] = replies[d]
      BY <1>15, <1>6 DEF ReplyClientSocket
    <2> QED  BY <1>15, <2>1, <2>2, <1>7 DEF ReplyClientSocket, Same
  <1>16. CASE ReplyBus(c)
    BY <1>16, <1>6, <1>7 DEF ReplyBus, reading, Same
  <1>17. CASE SenderRaises(c) \/ ForwardFails(c)
    BY <1>17, <1>2, <1>t DEF SenderRaises, ForwardFails
  <1>18. CASE LoseReply(c)
    BY <1>18, <1>t DEF LoseReply, reading, Same
  <1> QED  BY <1>8, <1>9, <1>10, <1>11, <1>12, <1>13, <1>14, <1>15, <1>16, <1>17, <1>18
           DEF Steps, ReadStep, JobStep, FaultStep

\* What was said stays said, and the bus stays the same.
LEMMA Grows ==
  ASSUME NEW c \in Clients, Steps(c)
  PROVE  NothingUnsaid
  <1>1. CASE ClientStep(c)
    BY <1>1 DEF ClientStep, SendFirst, SendTail, Leave, sending, NothingUnsaid
  <1>2. ASSUME NEW to, Becomes(c, to)
        PROVE  NothingUnsaid
    BY <1>2 DEF Becomes, sending, NothingUnsaid
  <1>3. ASSUME NEW to, NEW i, Received(c, to, i)
        PROVE  NothingUnsaid
    BY <1>3 DEF Received, sending, NothingUnsaid
  <1>4. CASE RecvLength(c) \/ RecvEnd(c) \/ RecvBody(c) \/ BodyEof(c)
    BY <1>4, <1>2, <1>3 DEF RecvLength, RecvEnd, RecvBody, BodyEof
  <1>5. CASE ParseUnix(c) \/ ParseClientSocket(c) \/ Forward(c) \/ SendRequest(c)
    BY <1>5, <1>2 DEF ParseUnix, ParseClientSocket, Forward, SendRequest
  <1>6. CASE Write(c) \/ Handler(c)
    BY <1>6 DEF Write, Handler, Begin, End, sending, NothingUnsaid
  <1>7. CASE ProcessMessage(c) \/ SendUnix(c) \/ SendUbus(c) \/ SendMqtt(c) \/ NotifyRaises(c)
    <2>1. ASSUME NEW tag, Begin(tag) \/ End(tag) \/ Heard(tag)
          PROVE  heard \subseteq heard' /\ missed \subseteq missed'
      BY <2>1 DEF Begin, End, Heard
    <2>2. CASE ProcessMessage(c) \/ NotifyRaises(c)
      BY <2>2 DEF ProcessMessage, NotifyRaises, sending, NothingUnsaid
    <2>3. CASE SendUnix(c)
      BY <2>1, <2>3 DEF SendUnix, NothingUnsaid
    <2>4. CASE SendUbus(c)
      BY <2>1, <2>4 DEF SendUbus, NothingUnsaid
    <2>5. CASE SendMqtt(c)
      BY <2>1, <2>5 DEF SendMqtt, sending, NothingUnsaid
    <2> QED  BY <1>7, <2>2, <2>3, <2>4, <2>5
  <1>8. CASE ReplyUnix(c) \/ ReplyClientSocket(c) \/ ReplyBus(c)
    BY <1>8 DEF ReplyUnix, ReplyClientSocket, ReplyBus, sending, NothingUnsaid
  <1>9. CASE SenderRaises(c) \/ ForwardFails(c)
    BY <1>9, <1>2 DEF SenderRaises, ForwardFails
  <1>10. CASE LoseReply(c)
    BY <1>10 DEF LoseReply, sending, NothingUnsaid
  <1> QED  BY <1>1, <1>4, <1>5, <1>6, <1>7, <1>8, <1>9, <1>10 DEF Steps, ReadStep, JobStep, FaultStep

LEMMA SameKeeps ==
  ASSUME NEW d \in Clients, Same(d), NothingUnsaid, JobOK(d), RepliesOK(d), OrderOK(d)
  PROVE  JobOK(d)' /\ RepliesOK(d)' /\ OrderOK(d)'
  <1>1. \A i : Answered(d, i)' = Answered(d, i)
    BY DEF Same, NothingUnsaid, Answered
  <1>2. \A n : Upto(d, n) => Upto(d, n)'
    BY <1>1 DEF Same, Upto
  <1>3. Framed' = Framed
    BY DEF NothingUnsaid, Framed
  <1>4. Ascending(d)'
    BY <1>1 DEF OrderOK, Same, Ascending
  <1>5. Chain(d) => Chain(d)'
    BY DEF Same, Chain, Follows, Sent
  <1>6. \A n : Ahead(d, n) => Ahead(d, n)'
    BY DEF Same, Ahead, Sent
  <1>7. SocketOK(d) => SocketOK(d)'
    BY <1>1, <1>2, <1>5, <1>6 DEF Same, NothingUnsaid, SocketOK, Sent, Form
  <1>8. CallOK(d) => CallOK(d)'
    BY <1>2 DEF Same, CallOK, Sent
  <1>9. \A i, result : ToldOK(d, i, result) => ToldOK(d, i, result)'
    BY DEF Same, NothingUnsaid, ToldOK
  <1>10. JobOK(d)' /\ RepliesOK(d)'
    BY <1>9 DEF Same, JobOK, RepliesOK, ReplyOK, Sent, Form
  <1> QED  BY <1>3, <1>4, <1>7, <1>8, <1>10 DEF OrderOK

----------------------------------------------------------------------------
\* The work on a message, and what its client is told

\* Messages are added, not changed.
Grown(c) ==
  /\ Sent(c)' \in Nat /\ Sent(c)' >= Sent(c)
  /\ \A i \in 1..Sent(c) : script'[c][i] = script[c][i]

LEMMA JobKept ==
  ASSUME TypeOK, NEW c \in Clients, JobOK(c), NothingUnsaid, Grown(c), job'[c] = job[c]
  PROVE  JobOK(c)'
  <1>1. Sent(c) \in Nat /\ job[c] \in Job /\ job[c].of \in Nat
    BY DEF TypeOK, Sent, Job
  <1>2. \A i \in 1..Sent(c) : \A result : ToldOK(c, i, result) => ToldOK(c, i, result)'
    BY DEF Grown, NothingUnsaid, ToldOK
  <1>3. CASE job[c].at = "idle"
    BY <1>3 DEF JobOK
  <1>4. CASE job[c].at # "idle"
    <2>1. job[c].of \in 1..Sent(c) /\ job[c].of \in 1..Sent(c)'
      BY <1>1, <1>4 DEF JobOK, Grown
    <2> QED  BY <1>2, <1>4, <2>1 DEF JobOK, Grown, Form
  <1> QED  BY <1>3, <1>4

LEMMA RepliesKept ==
  ASSUME TypeOK, NEW c \in Clients, RepliesOK(c), NothingUnsaid, Grown(c), replies'[c] = replies[c]
  PROVE  RepliesOK(c)'
  <1>1. Sent(c) \in Nat
    BY DEF TypeOK, Sent
  <1>2. \A i \in 1..Sent(c) : \A result : ToldOK(c, i, result) => ToldOK(c, i, result)'
    BY DEF Grown, NothingUnsaid, ToldOK
  <1> QED  BY <1>1, <1>2 DEF RepliesOK, ReplyOK, Grown, Form

LEMMA RepliesAdded ==
  ASSUME TypeOK, NEW c \in Clients, RepliesOK(c), NothingUnsaid, Grown(c),
         NEW n \in 1..Sent(c), NEW result \in Results,
         replies'[c] = Append(replies[c], [of |-> n, result |-> result]),
         Form(c, n) # "request" => result = "error", ToldOK(c, n, result)
  PROVE  RepliesOK(c)'
  <1>1. Sent(c) \in Nat /\ replies[c] \in Seq(Answers) /\ Len(replies[c]) \in Nat
    BY DEF TypeOK, Sent
  <1>2. \A i \in 1..Sent(c) : \A r : ToldOK(c, i, r) => ToldOK(c, i, r)'
    BY DEF Grown, NothingUnsaid, ToldOK
  <1>3. PICK a : a = [of |-> n, result |-> result]
    OBVIOUS
  <1>4. a.of = n /\ a.result = result /\ a \in Answers
    BY <1>3 DEF Answers
  <1>5. /\ DOMAIN replies'[c] = 1..Len(replies[c]) + 1
        /\ replies'[c][Len(replies[c]) + 1] = a
        /\ \A k \in DOMAIN replies[c] : replies'[c][k] = replies[c][k]
        /\ DOMAIN replies[c] = 1..Len(replies[c])
    BY <1>1, <1>3, <1>4
  <1>6. SUFFICES ASSUME NEW k \in DOMAIN replies'[c]
                 PROVE  ReplyOK(c, k)'
    BY DEF RepliesOK
  <1>a. \A i \in 1..Sent(c) : i \in 1..Sent(c)' /\ Form(c, i)' = Form(c, i)
    BY <1>1 DEF Grown, Form
  <1>7. CASE k = Len(replies[c]) + 1
    <2>1. replies'[c][k].of = n /\ replies'[c][k].result = result
      BY <1>4, <1>5, <1>7
    <2>2. ToldOK(c, n, result)' /\ n \in 1..Sent(c)' /\ Form(c, n)' = Form(c, n)
      BY <1>2, <1>a
    <2> QED  BY <2>1, <2>2 DEF ReplyOK
  <1>8. CASE k \in DOMAIN replies[c]
    <2>1. replies'[c][k] = replies[c][k] /\ ReplyOK(c, k)
      BY <1>5, <1>8 DEF RepliesOK
    <2>2. PICK i, r : i = replies[c][k].of /\ r = replies[c][k].result
      OBVIOUS
    <2>3. i \in 1..Sent(c) /\ (Form(c, i) # "request" => r = "error") /\ ToldOK(c, i, r)
      BY <2>1, <2>2 DEF ReplyOK
    <2>4. ToldOK(c, i, r)' /\ i \in 1..Sent(c)' /\ Form(c, i)' = Form(c, i)
      BY <1>2, <1>a, <2>3
    <2> QED  BY <2>1, <2>2, <2>3, <2>4 DEF ReplyOK
  <1> QED  BY <1>1, <1>5, <1>7, <1>8

\* The job gets a new state and a new result.
LEMMA JobBecomes ==
  ASSUME TypeOK, NEW c \in Clients, NEW at, NEW r,
         job' = [job EXCEPT ![c].at = at, ![c].result = r]
  PROVE  job'[c].at = at /\ job'[c].result = r /\ job'[c].of = job[c].of
  BY DEF TypeOK, Job

LEMMA JobEnds ==
  ASSUME TypeOK, NEW c \in Clients, JobOK(c), job[c].at # "idle", NEW result, Ends(c, result),
         script' = script, NEW i, i = job[c].of,
         result = "error" \/ (Form(c, i) = "request" /\ ToldOK(c, i, result)')
  PROVE  JobOK(c)'
  <1>1. PICK r \in {result, "error"} : job' = [job EXCEPT ![c].at = "done", ![c].result = r]
    BY DEF Ends
  <1>2. job'[c].at = "done" /\ job'[c].result = r /\ job'[c].of = job[c].of
    BY <1>1, JobBecomes
  <1>3. ToldOK(c, i, "error")'
    BY DEF ToldOK
  <1>4. CASE r = "error"
    BY <1>2, <1>3, <1>4 DEF JobOK, Sent, Form
  <1>5. CASE r # "error"
    BY <1>1, <1>2, <1>5 DEF JobOK, Sent, Form
  <1> QED  BY <1>4, <1>5

LEMMA JobContinues ==
  ASSUME TypeOK, NEW c \in Clients, JobOK(c), job[c].at # "idle", NEW result, Continues(c, result),
         script' = script, Form(c, job[c].of) = "request",
         LET call == script[c][job[c].of].call
         IN \/ result = "true" /\ Notifies(call)
            \/ result = "data" /\ KindOf(call) = "started"
  PROVE  JobOK(c)'
  <1>1. job'[c].at = "notify" /\ job'[c].result = result /\ job'[c].of = job[c].of
    BY JobBecomes DEF Continues
  <1> QED  BY <1>1 DEF JobOK, Sent, Form

\* After the notification of a job the client may be told its result.
LEMMA Noted ==
  ASSUME NEW c \in Clients, JobOK(c), job[c].at = "notify", script' = script,
         Note(c) \in heard' \cup missed', NEW i, i = job[c].of, NEW result, result = job[c].result
  PROVE  ToldOK(c, i, result)'
  <1> DEFINE call == script[c][job[c].of].call
  <1>1. \/ job[c].result = "true" /\ Notifies(call)
        \/ job[c].result = "data" /\ KindOf(call) = "started"
    BY DEF JobOK
  <1>2. CASE job[c].result = "true" /\ Notifies(call)
    <2>1. ~Triggers(call)
      BY <1>2 DEF Triggers, Notifies
    <2>2. Note(c) = <<c, job[c].of, "result">>
      BY <2>1 DEF Note, Tag, Msg
    <2> QED  BY <1>2, <2>2 DEF ToldOK
  <1>3. CASE job[c].result = "data" /\ KindOf(call) = "started"
    <2>1. Triggers(call)
      BY <1>3 DEF Triggers
    <2>2. Note(c) = <<c, job[c].of, "started">>
      BY <2>1 DEF Note, Tag, Msg
    <2> QED  BY <1>3, <2>2 DEF ToldOK
  <1> QED  BY <1>1, <1>2, <1>3

LEMMA JobNotifies ==
  ASSUME TypeOK, NEW c \in Clients, JobOK(c), job[c].at = "notify", Ends(c, job[c].result),
         script' = script, Note(c) \in heard' \cup missed'
  PROVE  JobOK(c)'
  <1>1. PICK i, result : i = job[c].of /\ result = job[c].result
    OBVIOUS
  <1>2. Form(c, i) = "request" /\ ToldOK(c, i, result)'
    BY <1>1, Noted DEF JobOK
  <1> QED  BY <1>1, <1>2, JobEnds

\* The tags of notifications name what they are about.
LEMMA NoteTag == \A c : Note(c)[3] \in {"result", "started"}
  BY DEF Note, Tag

LEMMA GrownStep ==
  ASSUME TypeOK, NEW c \in Clients, Steps(c)
  PROVE  Grown(c)
  <1>t. script \in [Clients -> Seq(Message)] /\ Sent(c) \in Nat /\ script[c] \in Seq(Message)
    BY DEF TypeOK, Sent
  <1>k. ASSUME script' = script
        PROVE  Grown(c)
    BY <1>k, <1>t DEF Grown, Sent
  <1>1. CASE SendFirst(c)
    <2>1. PICK m \in Messages : script' = [script EXCEPT ![c] = Append(@, m)]
      BY <1>1 DEF SendFirst
    <2>2. script'[c] = Append(script[c], m) /\ m \in Message
      BY <2>1, <1>t, MessageType DEF TypeOK
    <2> QED  BY <2>2, <1>t DEF Grown, Sent
  <1>2. CASE SendTail(c) \/ Leave(c)
    BY <1>2, <1>k DEF SendTail, Leave
  <1>3. CASE ReadStep(c)
    BY <1>3, <1>k DEF ReadStep, RecvLength, RecvEnd, RecvBody, BodyEof, ParseUnix, ParseClientSocket,
                      Forward, SendRequest, Write, Handler, Becomes, Received
  <1>4. CASE JobStep(c)
    BY <1>4, <1>k DEF JobStep, ProcessMessage, SendUnix, SendUbus, SendMqtt, ReplyUnix,
                      ReplyClientSocket, ReplyBus
  <1>5. CASE FaultStep(c)
    BY <1>5, <1>k DEF FaultStep, LoseReply, SenderRaises, ForwardFails, NotifyRaises, Becomes
  <1> QED  BY <1>1, <1>2, <1>3, <1>4, <1>5 DEF Steps, ClientStep

\* A message that is given to Router was sent.
LEMMA JobRoutes ==
  ASSUME TypeOK, NEW c \in Clients, NEW i \in 1..Sent(c), Route(c, i), script' = script
  PROVE  JobOK(c)' /\ job'[c] # Idle /\ job'[c].of = i
  <1>1. /\ job'[c].at = "input" /\ job'[c].of = i
    BY DEF Route, Idle, TypeOK
  <1> QED  BY <1>1, IdleType DEF JobOK, Sent

LEMMA JobRests ==
  ASSUME TypeOK, NEW c \in Clients, job' = [job EXCEPT ![c] = Idle]
  PROVE  JobOK(c)' /\ job'[c] = Idle
  <1>1. job'[c] = Idle
    BY DEF TypeOK
  <1> QED  BY <1>1, IdleType DEF JobOK

\* The reply of a job that is done
LEMMA JobDelivered ==
  ASSUME TypeOK, NEW c \in Clients, JobOK(c), RepliesOK(c), NothingUnsaid, Grown(c),
         job[c].at = "done", Deliver(c)
  PROVE  RepliesOK(c)'
  <1>1. PICK n, result : n = job[c].of /\ result = job[c].result
    OBVIOUS
  <1>2. /\ n \in 1..Sent(c) /\ result \in Results
        /\ Form(c, n) # "request" => result = "error"
        /\ ToldOK(c, n, result)
    BY <1>1 DEF JobOK, TypeOK, Job
  <1>3. CASE client[c] = "open"
    <2>1. replies'[c] = Append(replies[c], [of |-> n, result |-> result])
      BY <1>1, <1>3 DEF Deliver, TypeOK
    <2> QED  BY <1>2, <2>1, RepliesAdded
  <1>4. CASE client[c] # "open"
    <2>1. replies'[c] = replies[c]
      BY <1>4 DEF Deliver
    <2> QED  BY <2>1, RepliesKept
  <1> QED  BY <1>3, <1>4

LEMMA ToldStep ==
  ASSUME TypeOK, NEW c \in Clients, JobOK(c), RepliesOK(c), OrderOK(c), Steps(c)
  PROVE  JobOK(c)' /\ RepliesOK(c)'
  <1>g. NothingUnsaid /\ Grown(c)
    BY Grows, GrownStep
  <1>k. ASSUME job'[c] = job[c], replies'[c] = replies[c]
        PROVE  JobOK(c)' /\ RepliesOK(c)'
    BY <1>g, <1>k, JobKept, RepliesKept
  <1>r. ASSUME replies'[c] = replies[c]
        PROVE  RepliesOK(c)'
    BY <1>g, <1>r, RepliesKept
  <1>1. CASE ClientStep(c)
    BY <1>1, <1>k DEF ClientStep, SendFirst, SendTail, Leave
  <1>2. ASSUME NEW to, Becomes(c, to)
        PROVE  replies' = replies /\ script' = script
    BY <1>2 DEF Becomes
  <1>3. CASE RecvLength(c) \/ RecvEnd(c) \/ RecvBody(c) \/ BodyEof(c)
    BY <1>3, <1>2, <1>k DEF RecvLength, RecvEnd, RecvBody, BodyEof, Received
  <1>4. CASE ParseUnix(c) \/ SendRequest(c)
    <2>1. cur[c] \in 1..Sent(c)
      BY <1>4 DEF ParseUnix, SendRequest, OrderOK, Framed, SocketOK, CallOK, Working
    <2>2. replies' = replies /\ script' = script
      BY <1>4, <1>2 DEF ParseUnix, SendRequest
    <2>3. job' = job \/ Route(c, cur[c])
      BY <1>4 DEF ParseUnix, SendRequest
    <2>4. CASE Route(c, cur[c])
      BY <2>1, <2>2, <2>4, <1>r, JobRoutes
    <2>5. CASE job' = job
      BY <2>2, <2>5, <1>k
    <2> QED  BY <2>3, <2>4, <2>5
  <1>5. CASE ParseClientSocket(c) \/ Forward(c) \/ ForwardFails(c)
    BY <1>5, <1>2, <1>k DEF ParseClientSocket, Forward, ForwardFails
  <1>15. CASE SenderRaises(c)
    <2>1. CASE job[c].at # "lost"
      BY <1>15, <1>2, <1>k, <2>1 DEF SenderRaises, TypeOK
    <2>2. CASE job[c].at = "lost"
      BY <1>15, <1>2, <1>r, <2>2, JobRests DEF SenderRaises
    <2> QED  BY <2>1, <2>2
  <1>16. CASE LoseReply(c)
    <2>1. /\ job'[c].at = "lost" /\ job'[c].of = job[c].of /\ job[c].at # "idle"
          /\ script' = script /\ replies' = replies
      BY <1>16 DEF LoseReply, TypeOK, Job
    <2>2. JobOK(c)'
      BY <2>1 DEF JobOK, Sent
    <2> QED  BY <2>1, <2>2, <1>r
  <1>6. CASE Write(c)
    BY <1>6, <1>k DEF Write
  <1>7. CASE Handler(c)
    <2>1. /\ wire[c] # <<>> /\ Head(wire[c])[1] = Sent(c) /\ Sent(c) \in 1..Sent(c)
          /\ script' = script
      <3>1. wire[c] # <<>> /\ CallOK(c) /\ script' = script
        BY <1>7 DEF Handler, OrderOK
      <3>2. Head(wire[c])[1] = Sent(c) /\ Sent(c) >= 1
        BY <3>1, HeadType DEF CallOK
      <3> QED  BY <3>1, <3>2 DEF TypeOK, Sent
    <2>2. CASE Route(c, Sent(c)) /\ UNCHANGED replies
      BY <2>1, <2>2, <1>r, JobRoutes
    <2>3. CASE UNCHANGED <<job, replies>>
      BY <2>3, <1>k
    <2>4. CASE ErrorReply(c, Sent(c)) /\ UNCHANGED job
      <3>1. PICK n : n = Sent(c)
        OBVIOUS
      <3>2. replies'[c] = Append(replies[c], [of |-> n, result |-> "error"])
        BY <2>4, <3>1 DEF ErrorReply, TypeOK
      <3>3. ToldOK(c, n, "error") /\ "error" \in Results /\ n \in 1..Sent(c)
        BY <2>1, <3>1 DEF ToldOK, Results
      <3>4. RepliesOK(c)'
        BY <3>2, <3>3, <1>g, RepliesAdded
      <3> QED  BY <2>4, <3>4, <1>g, JobKept
    <2>5. PICK i : i = Head(wire[c])[1]
      OBVIOUS
    <2>6. \/ Route(c, i) /\ UNCHANGED replies
          \/ UNCHANGED <<job, replies>>
          \/ ErrorReply(c, i) /\ UNCHANGED job
      BY <1>7, <2>5 DEF Handler
    <2> QED  BY <2>1, <2>2, <2>3, <2>4, <2>5, <2>6
  <1>8. CASE ProcessMessage(c)
    <2>1. replies' = replies /\ script' = script /\ job[c].at = "input" /\ Msg(c) = script[c][job[c].of]
      BY <1>8 DEF ProcessMessage, Msg
    <2>2. PICK i, call : i = job[c].of /\ call = Msg(c).call
      OBVIOUS
    <2>3. CASE Ends(c, "error")
      <3>1. JobOK(c)'
        BY <2>1, <2>2, <2>3, JobEnds
      <3> QED  BY <3>1, <2>1, <1>r
    <2>4. ASSUME Accepted(Msg(c)), NEW result, Ends(c, result),
                 ~(result = "true" /\ Notifies(call)), ~(result = "data" /\ KindOf(call) = "started")
          PROVE  JobOK(c)'
      <3>1. Form(c, i) = "request"
        BY <2>1, <2>2, <2>4 DEF Accepted, Form
      <3>2. ToldOK(c, i, result)'
        BY <2>1, <2>2, <2>4 DEF ToldOK
      <3> QED  BY <2>1, <2>2, <2>4, <3>1, <3>2, JobEnds
    <2>5. ASSUME Accepted(Msg(c)), NEW result, Continues(c, result),
                 (result = "true" /\ Notifies(call)) \/ (result = "data" /\ KindOf(call) = "started")
          PROVE  JobOK(c)'
      <3>1. Form(c, job[c].of) = "request"
        BY <2>1, <2>2, <2>5 DEF Accepted, Form
      <3> QED  BY <2>1, <2>2, <2>5, <3>1, JobContinues
    <2>6. CASE Accepted(Msg(c)) /\ KindOf(call) = "read" /\ Ends(c, "data")
      <3>1. JobOK(c)'
        BY <2>6, <2>4
      <3> QED  BY <3>1, <2>1, <1>r
    <2>7. CASE /\ Accepted(Msg(c)) /\ Triggers(call)
               /\ IF KindOf(call) = "started" THEN Continues(c, "data") ELSE Ends(c, "data")
      <3>1. JobOK(c)'
        BY <2>7, <2>4, <2>5
      <3> QED  BY <3>1, <2>1, <1>r
    <2>8. CASE /\ Accepted(Msg(c))
               /\ \E result \in {"true", "false"} :
                    IF Notifies(call) /\ result = "true" THEN Continues(c, result) ELSE Ends(c, result)
      <3>1. JobOK(c)'
        BY <2>8, <2>4, <2>5
      <3> QED  BY <3>1, <2>1, <1>r
    <2> QED  BY <1>8, <2>2, <2>3, <2>6, <2>7, <2>8 DEF ProcessMessage
  <1>9. CASE SendUnix(c)
    <2>1. replies' = replies /\ script' = script /\ job[c].at = "notify"
      BY <1>9 DEF SendUnix
    <2>2. CASE UNCHANGED job
      BY <2>1, <2>2, <1>k
    <2>3. CASE End(Note(c)) /\ Ends(c, job[c].result)
      <3>1. Note(c) \in heard'
        BY <2>3, NoteTag DEF End
      <3>2. JobOK(c)'
        BY <2>1, <2>3, <3>1, JobNotifies
      <3> QED  BY <3>2, <2>1, <1>r
    <2> QED  BY <1>9, <2>2, <2>3 DEF SendUnix
  <1>10. CASE SendUbus(c)
    <2>1. replies' = replies /\ script' = script /\ job[c].at = "notify" /\ Note(c) \in heard'
      BY <1>10 DEF SendUbus, Heard
    <2>2. JobOK(c)'
      BY <1>10, <2>1, JobNotifies DEF SendUbus
    <2> QED  BY <2>1, <2>2, <1>r
  <1>11. CASE SendMqtt(c)
    <2>1. replies' = replies /\ script' = script /\ job[c].at = "notify"
      BY <1>11 DEF SendMqtt
    <2>2. CASE Ends(c, job[c].result) /\ Note(c) \in heard' \cup missed'
      <3>1. JobOK(c)'
        BY <2>1, <2>2, JobNotifies
      <3> QED  BY <2>1, <3>1, <1>r
    <2>3. CASE job' = [job EXCEPT ![c].tries = @ + 1]
      <3>1. /\ job'[c].at = "notify" /\ job'[c].of = job[c].of /\ job'[c].result = job[c].result
        BY <2>1, <2>3 DEF TypeOK, Job
      <3>2. JobOK(c)'
        BY <2>1, <3>1 DEF JobOK, Sent, Form
      <3> QED  BY <2>1, <3>2, <1>r
    <2> QED  BY <1>11, <2>2, <2>3 DEF SendMqtt, Heard
  <1>12. CASE NotifyRaises(c)
    <2>1. PICK i : i = job[c].of
      OBVIOUS
    <2>2. replies' = replies /\ script' = script /\ job[c].at = "notify" /\ Ends(c, "error")
      BY <1>12 DEF NotifyRaises
    <2>3. JobOK(c)'
      BY <2>1, <2>2, JobEnds
    <2> QED  BY <2>2, <2>3, <1>r
  <1>13. CASE ReplyUnix(c) \/ ReplyBus(c)
    BY <1>13, <1>g, JobRests, JobDelivered DEF ReplyUnix, ReplyBus
  <1>14. CASE ReplyClientSocket(c)
    <2>1. JobOK(c)'
      BY <1>14, JobRests DEF ReplyClientSocket
    <2>2. job[c].at = "done" /\ (Deliver(c) \/ replies' = replies)
      BY <1>14 DEF ReplyClientSocket
    <2> QED  BY <2>1, <2>2, <1>g, <1>r, JobDelivered
  <1> QED  BY <1>1, <1>3, <1>4, <1>5, <1>6, <1>7, <1>8, <1>9, <1>10, <1>11, <1>12, <1>13, <1>14, <1>15, <1>16
           DEF Steps, ReadStep, JobStep, FaultStep

----------------------------------------------------------------------------
\* The order of messages and replies

LEMMA AnsweredKept ==
  ASSUME NEW c \in Clients, Grown(c), NothingUnsaid, NEW i \in 1..Sent(c)
  PROVE  Answered(c, i)' <=> Answered(c, i)
  BY DEF Grown, NothingUnsaid, Answered

LEMMA UptoKept ==
  ASSUME TypeOK, NEW c \in Clients, Grown(c), NothingUnsaid, replies'[c] = replies[c],
         NEW n \in Nat, n <= Sent(c), Upto(c, n)
  PROVE  Upto(c, n)'
  <1>1. Sent(c) \in Nat
    BY DEF TypeOK, Sent
  <1>2. \A i \in 1..n : Answered(c, i)' <=> Answered(c, i)
    BY <1>1, AnsweredKept
  <1> QED  BY <1>2 DEF Upto

LEMMA UptoSkip ==
  ASSUME NEW c \in Clients, NEW n \in Nat, n >= 1, Upto(c, n - 1), ~Answered(c, n)
  PROVE  Upto(c, n)
  <1>1. {i \in 1..n - 1 : Answered(c, i)} = {i \in 1..n : Answered(c, i)}
    <2>1. ASSUME NEW i \in 1..n, Answered(c, i)
          PROVE  i \in 1..n - 1
      BY <2>1
    <2> QED  BY <2>1
  <1> QED  BY <1>1 DEF Upto

LEMMA AscendingKept ==
  ASSUME TypeOK, NEW c \in Clients, Grown(c), NothingUnsaid, replies'[c] = replies[c],
         Ascending(c), RepliesOK(c)
  PROVE  Ascending(c)'
  <1>1. Sent(c) \in Nat
    BY DEF TypeOK, Sent
  <1>2. \A i \in 1..Sent(c) : Answered(c, i)' <=> Answered(c, i)
    BY AnsweredKept
  <1>3. \A k \in DOMAIN replies[c] : replies[c][k].of \in 1..Sent(c)
    BY DEF RepliesOK, ReplyOK
  <1> QED  BY <1>1, <1>2, <1>3 DEF Ascending

\* The next message that is answered is answered next.
LEMMA Replied ==
  ASSUME TypeOK, NEW c \in Clients, Grown(c), NothingUnsaid, NEW n \in 1..Sent(c), NEW result,
         replies'[c] = Append(replies[c], [of |-> n, result |-> result]), result \in Results,
         Upto(c, n - 1), Answered(c, n), Ascending(c), RepliesOK(c)
  PROVE  Upto(c, n)' /\ Ascending(c)'
  <1>1. Sent(c) \in Nat /\ replies[c] \in Seq(Answers) /\ Len(replies[c]) \in Nat /\ n \in Nat
    BY DEF TypeOK, Sent
  <1>2. PICK a : a = [of |-> n, result |-> result]
    OBVIOUS
  <1>3. a.of = n /\ a \in Answers
    BY <1>1, <1>2 DEF Answers
  <1>4. PICK L \in Nat : L = Len(replies[c])
    BY <1>1
  <1>5. /\ DOMAIN replies'[c] = 1..L + 1
        /\ replies'[c][L + 1] = a
        /\ \A k \in 1..L : replies'[c][k] = replies[c][k]
        /\ DOMAIN replies[c] = 1..L
    BY <1>1, <1>2, <1>3, <1>4
  <1>6. \A i \in 1..n : Answered(c, i)' <=> Answered(c, i)
    BY <1>1, AnsweredKept
  <1>7. \A i \in 1..n - 1 : Answered(c, i) <=> \E k \in 1..L : replies[c][k].of = i
    BY <1>1, <1>5 DEF Upto
  <1>8. \A k \in 1..L : replies[c][k].of \in 1..n - 1 /\ Answered(c, replies[c][k].of)
    BY <1>1, <1>5 DEF Upto
  <1>9. Upto(c, n)'
    <2>1. ASSUME NEW k \in 1..L + 1
          PROVE  replies'[c][k].of \in {i \in 1..n : Answered(c, i)'}
      <3>1. CASE k = L + 1
        BY <3>1, <1>1, <1>3, <1>5, <1>6
      <3>2. CASE k \in 1..L
        BY <3>2, <1>1, <1>5, <1>6, <1>8
      <3> QED  BY <1>4, <3>1, <3>2
    <2>2. ASSUME NEW i \in 1..n, Answered(c, i)'
          PROVE  \E k \in 1..L + 1 : replies'[c][k].of = i
      <3>1. CASE i = n
        BY <3>1, <1>3, <1>5
      <3>2. CASE i \in 1..n - 1
        <4>1. PICK k \in 1..L : replies[c][k].of = i
          BY <2>2, <3>2, <1>6, <1>7
        <4>2. k \in 1..L + 1 /\ replies'[c][k].of = i
          BY <4>1, <1>5
        <4> QED  BY <4>2
      <3>3. i = n \/ i \in 1..n - 1
        BY <1>1
      <3> QED  BY <3>1, <3>2, <3>3, Zenon
    <2> QED  BY <2>1, <2>2, <1>5 DEF Upto
  <1>10. ASSUME NEW k \in 1..L + 1
         PROVE  /\ Answered(c, replies[c][k].of)'
                /\ \A j \in 1..k - 1 : replies'[c][j].of < replies'[c][k].of
                /\ \A i \in 1..replies'[c][k].of - 1 : Answered(c, i)' =>
                     \E j \in 1..k - 1 : replies'[c][j].of = i
    <2>1. CASE k = L + 1
      <3>1. replies'[c][k].of = n
        BY <2>1, <1>3, <1>5
      <3>2. \A j \in 1..L : replies'[c][j].of = replies[c][j].of /\ replies[c][j].of < n
        BY <1>1, <1>5, <1>8
      <3>3. \A i \in 1..n - 1 : Answered(c, i)' => \E j \in 1..L : replies[c][j].of = i
        BY <1>1, <1>6, <1>7
      <3>4. k - 1 = L
        BY <2>1
      <3>5. Answered(c, n)'
        BY <1>1, <1>6
      <3> QED  BY <3>1, <3>2, <3>3, <3>4, <3>5
    <2>2. CASE k \in 1..L
      <3>1. \A j \in 1..k : replies'[c][j] = replies[c][j]
        BY <2>2, <1>5
      <3>2. /\ Answered(c, replies[c][k].of)
            /\ \A j \in 1..k - 1 : replies[c][j].of < replies[c][k].of
            /\ \A i \in 1..replies[c][k].of - 1 : Answered(c, i) =>
                 \E j \in 1..k - 1 : replies[c][j].of = i
        BY <2>2, <1>5 DEF Ascending
      <3>3. PICK m \in 1..n - 1 : m = replies[c][k].of /\ m = replies'[c][k].of
        BY <1>1, <1>4, <2>2, <3>1, <1>8
      <3>4. \A i \in 1..m : Answered(c, i)' <=> Answered(c, i)
        BY <1>1, <1>6
      <3>6. Answered(c, replies[c][k].of)'
        <4>1. Answered(c, m)
          BY <3>2, <3>3
        <4>2. Answered(c, m)'
          BY <1>1, <3>4, <4>1
        <4> QED  BY <3>3, <4>2 DEF Answered
      <3>5. \A j \in 1..k - 1 : replies'[c][j] = replies[c][j]
        BY <1>4, <2>2, <3>1
      <3>7. /\ \A j \in 1..k - 1 : replies[c][j].of < m
            /\ \A i \in 1..m - 1 : Answered(c, i) => \E j \in 1..k - 1 : replies[c][j].of = i
        BY <3>2, <3>3
      <3>8. \A i \in 1..m - 1 : Answered(c, i)' => Answered(c, i)
        BY <1>1, <3>4
      <3> QED  BY <3>3, <3>5, <3>6, <3>7, <3>8
    <2> QED  BY <1>4, <2>1, <2>2
  <1>11. Ascending(c)'
    BY <1>5, <1>10 DEF Ascending
  <1> QED  BY <1>9, <1>11

LEMMA TailOf ==
  ASSUME NEW T, NEW s \in Seq(T), s # <<>>
  PROVE  /\ Tail(s) \in Seq(T) /\ Len(s) \in Nat /\ Len(s) >= 1
         /\ Len(Tail(s)) = Len(s) - 1
         /\ \A k \in 1..Len(s) - 1 : Tail(s)[k] = s[k + 1]
         /\ Tail(s) = <<>> <=> Len(s) = 1
  <1>1. Tail(s) \in Seq(T) /\ Len(s) \in Nat /\ Len(s) >= 1 /\ Len(Tail(s)) = Len(s) - 1
    OBVIOUS
  <1>2. \A k \in 1..Len(s) - 1 : Tail(s)[k] = s[k + 1]
    OBVIOUS
  <1>3. \A t \in Seq(T) : t = <<>> <=> Len(t) = 0
    OBVIOUS
  <1> QED  BY <1>1, <1>2, <1>3

LEMMA AppendOf ==
  ASSUME NEW T, NEW s \in Seq(T), NEW x \in T
  PROVE  /\ Append(s, x) \in Seq(T) /\ Len(s) \in Nat
         /\ Len(Append(s, x)) = Len(s) + 1 /\ Append(s, x) # <<>>
         /\ Append(s, x)[Len(s) + 1] = x
         /\ \A k \in 1..Len(s) : Append(s, x)[k] = s[k]
         /\ s = <<>> <=> Len(s) = 0
  OBVIOUS

\* The first piece is taken off the wire.
LEMMA WireTail ==
  ASSUME TypeOK, NEW c \in Clients, Chain(c), wire[c] # <<>>, wire'[c] = Tail(wire[c]),
         script' = script, client' = client
  PROVE  /\ Chain(c)'
         /\ IF wire'[c] = <<>> THEN wire[c][1][2] = "stub" \/ wire[c][1][1] = Sent(c)
            ELSE Follows(c, wire[c][1], wire'[c][1])
  <1>1. wire[c] \in Seq(Nat \X Pieces) /\ Sent(c)' = Sent(c)
    BY DEF TypeOK, Sent
  <1>2. PICK w \in Seq(Nat \X Pieces) : w = wire[c] /\ w # <<>>
    BY <1>1
  <1>3. PICK v : v = wire'[c] /\ v = Tail(w)
    BY <1>2
  <1>t. PICK T : T = Nat \X Pieces
    OBVIOUS
  <1>4. /\ Len(w) \in Nat /\ Len(w) >= 1 /\ Len(v) = Len(w) - 1
        /\ \A k \in 1..Len(v) : v[k] = w[k + 1]
        /\ v = <<>> <=> Len(w) = 1
    BY <1>t, <1>2, <1>3, TailOf
  <1>5. v = <<>> <=> Len(w) = 1
    BY <1>4
  <1>6. /\ \A k \in 1..Len(w) :
             IF w[k][2] = "stub" THEN client[c] = "gone"
             ELSE w[k][1] \in 1..Sent(c) /\ w[k][2] \in {"head", "tail"}
        /\ \A k \in 1..Len(w) - 1 : Follows(c, w[k], w[k + 1])
        /\ w[Len(w)][2] = "stub" \/ w[Len(w)][1] = Sent(c)
    BY <1>2 DEF Chain
  <1>7. /\ \A k \in 1..Len(v) :
             IF v[k][2] = "stub" THEN client[c] = "gone"
             ELSE v[k][1] \in 1..Sent(c) /\ v[k][2] \in {"head", "tail"}
    <2>1. ASSUME NEW k \in 1..Len(v)
          PROVE  v[k] = w[k + 1] /\ k + 1 \in 1..Len(w)
      BY <1>4
    <2> QED  BY <2>1, <1>6
  <1>8. \A k \in 1..Len(v) - 1 : Follows(c, v[k], v[k + 1])
    <2>1. ASSUME NEW k \in 1..Len(v) - 1
          PROVE  Follows(c, v[k], v[k + 1])
      <3>1. k + 1 \in 1..Len(w) - 1 /\ k \in 1..Len(v) /\ k + 1 \in 1..Len(v)
        BY <1>4
      <3>2. v[k] = w[k + 1] /\ v[k + 1] = w[(k + 1) + 1]
        BY <1>4, <3>1
      <3> QED  BY <1>6, <3>1, <3>2
    <2> QED  BY <2>1
  <1>9. v # <<>> => v[Len(v)][2] = "stub" \/ v[Len(v)][1] = Sent(c)
    <2>1. ASSUME v # <<>>
          PROVE  v[Len(v)] = w[Len(w)]
      BY <2>1, <1>4, <1>5
    <2> QED  BY <2>1, <1>6
  <1>10. \A x, y : Follows(c, x, y) => Follows(c, x, y)'
    BY <1>1 DEF Follows
  <1>11. Chain(c)'
    BY <1>1, <1>3, <1>7, <1>8, <1>9, <1>10 DEF Chain
  <1>12. IF v = <<>> THEN w[1][2] = "stub" \/ w[1][1] = Sent(c) ELSE Follows(c, w[1], v[1])
    <2>1. CASE v = <<>>
      BY <2>1, <1>5, <1>6
    <2>2. CASE v # <<>>
      <3>1. 1 \in 1..Len(w) - 1 /\ v[1] = w[1 + 1]
        BY <2>2, <1>4, <1>5
      <3> QED  BY <2>2, <3>1, <1>6
    <2> QED  BY <2>1, <2>2
  <1> QED  BY <1>2, <1>3, <1>11, <1>12

\* A piece is sent after the others.
LEMMA WireAppend ==
  ASSUME TypeOK, NEW c \in Clients, Chain(c), Grown(c), NEW x \in Nat \X Pieces,
         wire'[c] = Append(wire[c], x),
         \* a piece of the last message, or a stub
         IF x[2] = "stub" THEN client'[c] = "gone"
         ELSE x[1] = Sent(c)' /\ x[1] >= 1 /\ x[2] \in {"head", "tail"},
         client[c] = "open",
         wire[c] # <<>> => LET z == wire[c][Len(wire[c])]
                           IN \/ z[2] = "head" /\ x = <<z[1], "tail">>
                              \/ z[2] = "tail" /\ x = <<z[1] + 1, "head">>
                              \/ z[2] = "tail" /\ Sent(c)' = Sent(c) /\ x[2] = "stub"
  PROVE  /\ Chain(c)' /\ wire'[c] # <<>>
         /\ wire'[c][1] = IF wire[c] = <<>> THEN x ELSE wire[c][1]
  <1>1. wire[c] \in Seq(Nat \X Pieces) /\ Sent(c) \in Nat /\ Sent(c)' \in Nat /\ Sent(c)' >= Sent(c)
    BY DEF TypeOK, Sent, Grown
  <1>2. PICK w \in Seq(Nat \X Pieces) : w = wire[c]
    BY <1>1
  <1>3. PICK v : v = wire'[c] /\ v = Append(w, x)
    BY <1>2
  <1>t. PICK T : T = Nat \X Pieces
    OBVIOUS
  <1>4. /\ Len(w) \in Nat /\ Len(v) = Len(w) + 1 /\ v[Len(w) + 1] = x
        /\ \A k \in 1..Len(w) : v[k] = w[k]
        /\ v # <<>>
        /\ w = <<>> <=> Len(w) = 0
    BY <1>t, <1>2, <1>3, AppendOf
  <1>5. w = <<>> <=> Len(w) = 0
    BY <1>4
  <1>6. /\ \A k \in 1..Len(w) :
             /\ w[k][2] # "stub"
             /\ w[k][1] \in 1..Sent(c) /\ w[k][2] \in {"head", "tail"}
        /\ \A k \in 1..Len(w) - 1 : Follows(c, w[k], w[k + 1])
        /\ w # <<>> => w[Len(w)][2] = "stub" \/ w[Len(w)][1] = Sent(c)
    BY <1>2 DEF Chain
  <1>7. \A k \in 1..Len(v) :
          IF v[k][2] = "stub" THEN client'[c] = "gone"
          ELSE v[k][1] \in 1..Sent(c)' /\ v[k][2] \in {"head", "tail"}
    <2>1. ASSUME NEW k \in 1..Len(w)
          PROVE  v[k][2] # "stub" /\ v[k][1] \in 1..Sent(c)' /\ v[k][2] \in {"head", "tail"}
      <3>1. v[k] = w[k] /\ w[k][1] \in 1..Sent(c) /\ w[k][2] # "stub" /\ w[k][2] \in {"head", "tail"}
        BY <1>4, <1>6
      <3> QED  BY <1>1, <3>1
    <2>2. ASSUME x[2] # "stub"
          PROVE  x[1] \in 1..Sent(c)'
      BY <2>2, <1>1
    <2> QED  BY <2>1, <2>2, <1>4
  <1>8. \A k \in 1..Len(v) - 1 : Follows(c, v[k], v[k + 1])'
    <2>1. ASSUME NEW k \in 1..Len(v) - 1, NEW y, NEW z, y = v[k], z = v[k + 1]
          PROVE  Follows(c, y, z)'
      <3>1. CASE k \in 1..Len(w) - 1
        <4>1. Follows(c, y, z) /\ y = w[k] /\ z = w[k + 1]
          BY <2>1, <3>1, <1>4, <1>6
        <4>2. z[2] # "stub"
          <5>1. k + 1 \in 1..Len(w)
            BY <3>1, <1>4
          <5> QED  BY <5>1, <4>1, <1>6
        <4> QED  BY <4>1, <4>2 DEF Follows
      <3>2. CASE k = Len(w) /\ Len(w) # 0
        <4>1. y = w[Len(w)] /\ z = x /\ w # <<>> /\ y[1] = Sent(c)
          BY <2>1, <3>2, <1>4, <1>5, <1>6
        <4> QED  BY <4>1, <1>2 DEF Follows
      <3> QED  BY <1>4, <3>1, <3>2
    <2>2. \A k \in 1..Len(v) - 1 : \A y, z : y = v[k] /\ z = v[k + 1] => Follows(c, y, z)'
      BY <2>1
    <2> QED  BY <2>2
  <1>9. v[Len(v)][2] = "stub" \/ v[Len(v)][1] = Sent(c)'
    BY <1>4
  <1>10. Chain(c)'
    BY <1>3, <1>7, <1>8, <1>9 DEF Chain
  <1>11. v[1] = IF w = <<>> THEN x ELSE w[1]
    BY <1>4, <1>5
  <1> QED  BY <1>2, <1>3, <1>4, <1>10, <1>11

\* A connection of a socket, and the pieces that its client sends
LEMMA SocketAppend ==
  ASSUME TypeOK, NEW c \in Clients, Framed, OrderOK(c), RepliesOK(c), NothingUnsaid, Grown(c),
         NEW x, Chain(c)', wire'[c] # <<>>, wire'[c][1] = (IF wire[c] = <<>> THEN x ELSE wire[c][1]),
         wire[c] = <<>> =>
           IF thread[c] = "body" THEN x = <<Sent(c), "tail">>
           ELSE x = <<Sent(c) + 1, "head">> \/ (x[2] = "stub" /\ Sent(c)' = Sent(c)),
         thread[c] \notin {"closed", "spin"}, client[c] = "open",
         thread'[c] = thread[c], cur'[c] = cur[c], job'[c] = job[c], replies'[c] = replies[c]
  PROVE  OrderOK(c)'
  <1>1. SocketOK(c) /\ Ascending(c) /\ Framed'
    BY DEF OrderOK, Framed, NothingUnsaid
  <1>2. Ascending(c)'
    BY <1>1, AscendingKept
  <1>3. Sent(c) \in Nat /\ Sent(c)' \in Nat /\ Sent(c) <= Sent(c)' /\ cur[c] \in Nat
    BY DEF Grown, TypeOK, Sent
  <1>4. wire[c] # <<>> => wire[c][1][2] # "stub"
    <2>1. wire[c] # <<>> => 1 \in 1..Len(wire[c])
      BY DEF TypeOK
    <2> QED  BY <1>1, <2>1 DEF SocketOK, Chain
  <1>5. ASSUME NEW n, Ahead(c, n), thread[c] # "body"
        PROVE  Ahead(c, n)'
    BY <1>4, <1>5 DEF Ahead
  <1>6. \A i \in 1..Sent(c) : Answered(c, i)' <=> Answered(c, i)
    BY AnsweredKept
  <1>7. \A n \in Nat : n <= Sent(c) /\ Upto(c, n) => Upto(c, n)'
    BY UptoKept
  <1>8. CASE thread[c] = "recv"
    <2>1. PICK n \in 1..Sent(c) + 1 : Ahead(c, n) /\ Upto(c, n - 1)
      BY <1>1, <1>8 DEF SocketOK
    <2>2. n \in 1..Sent(c)' + 1 /\ Ahead(c, n)' /\ Upto(c, n - 1)'
      BY <1>3, <1>5, <1>7, <1>8, <2>1
    <2> QED  BY <1>1, <1>2, <1>8, <2>2 DEF OrderOK, SocketOK, Working, NothingUnsaid
  <1>9. CASE thread[c] = "body"
    <2>1. /\ cur[c] \in 1..Sent(c)' /\ Upto(c, cur[c] - 1)' /\ wire'[c][1] = <<cur[c], "tail">>
      BY <1>1, <1>3, <1>7, <1>9 DEF SocketOK
    <2> QED  BY <1>1, <1>2, <1>9, <2>1 DEF OrderOK, SocketOK, Working, NothingUnsaid
  <1>10. CASE thread[c] \in Working
    <2>1. PICK n : n = cur[c]
      OBVIOUS
    <2>2. n \in 1..Sent(c) /\ Upto(c, n - 1) /\ Ahead(c, n + 1)
      BY <1>1, <1>10, <2>1 DEF SocketOK
    <2>3. n \in 1..Sent(c)' /\ Upto(c, n - 1)' /\ Ahead(c, n + 1)'
      BY <1>3, <1>5, <1>7, <1>10, <2>2 DEF Working
    <2>4. Form(c, n)' = Form(c, n) /\ (Answered(c, n)' <=> Answered(c, n))
      BY <1>6, <2>2 DEF Grown, Form
    <2>5. cur[c] \in 1..Sent(c)' /\ Upto(c, cur[c] - 1)' /\ Ahead(c, cur[c] + 1)'
      BY <2>1, <2>3 DEF Upto, Ahead
    <2> QED  BY <1>1, <1>2, <1>10, <2>1, <2>4, <2>5 DEF OrderOK, SocketOK, Working, NothingUnsaid, Form, Answered
  <1> QED  BY <1>8, <1>9, <1>10 DEF TypeOK, ThreadStates, Working

\* The connection ends.
LEMMA SocketCloses ==
  ASSUME TypeOK, NEW c \in Clients, Framed, OrderOK(c), RepliesOK(c), NothingUnsaid, Grown(c),
         thread'[c] = "closed", wire'[c] = <<>>, replies'[c] = replies[c],
         bus = "unix-socket" => job'[c] = Idle
  PROVE  OrderOK(c)'
  <1>1. Ascending(c)' /\ Framed'
    BY AscendingKept DEF OrderOK, Framed, NothingUnsaid
  <1>2. Len(wire'[c]) = 0
    OBVIOUS
  <1>3. Chain(c)'
    BY <1>2 DEF Chain
  <1> QED  BY <1>1, <1>3 DEF OrderOK, SocketOK, Working, NothingUnsaid

\* Router works on the message while the thread waits.
LEMMA SocketWaits ==
  ASSUME TypeOK, NEW c \in Clients, Framed, OrderOK(c), RepliesOK(c), NothingUnsaid, Grown(c),
         UNCHANGED <<script, wire, client, thread, cur, replies>>,
         job'[c].of = job[c].of, bus = "unix-socket" /\ job[c] = Idle => job'[c] = Idle
  PROVE  OrderOK(c)'
  <1>1. Ascending(c)' /\ Framed' /\ SocketOK(c)
    BY AscendingKept DEF OrderOK, Framed, NothingUnsaid
  <1>2. \A i : Answered(c, i)' = Answered(c, i)
    BY DEF NothingUnsaid, Answered
  <1>3. \A n : Upto(c, n) => Upto(c, n)'
    BY <1>2 DEF Upto
  <1>4. Chain(c)'
    BY <1>1 DEF SocketOK, Chain, Follows, Sent
  <1>5. \A n : Ahead(c, n) => Ahead(c, n)'
    BY DEF Ahead, Sent
  <1>6. SocketOK(c)'
    BY <1>1, <1>2, <1>3, <1>4, <1>5 DEF NothingUnsaid, SocketOK, Sent, Form
  <1> QED  BY <1>1, <1>6 DEF OrderOK

\* The thread has the whole message and goes on with it.
LEMMA SocketWorks ==
  ASSUME TypeOK, NEW c \in Clients, Framed, Ascending(c), RepliesOK(c), NothingUnsaid, Grown(c),
         UNCHANGED <<script, client, replies>>,
         Chain(c)', Ahead(c, cur[c] + 1)', cur'[c] = cur[c],
         cur[c] \in 1..Sent(c), Upto(c, cur[c] - 1),
         thread'[c] \in Working,
         thread'[c] \in {"forward", "writing"} => bus = "client-socket" /\ Form(c, cur[c]) = "notification",
         thread'[c] = "request" => bus = "client-socket" /\ Form(c, cur[c]) = "request",
         thread'[c] = "reply" => job'[c].of = cur[c] /\ Answered(c, cur[c]),
         bus = "unix-socket" /\ thread'[c] # "reply" => job'[c] = Idle
  PROVE  OrderOK(c)'
  <1>1. Ascending(c)' /\ Framed'
    BY AscendingKept DEF Framed, NothingUnsaid
  <1>2. \A i : Answered(c, i)' = Answered(c, i)
    BY DEF NothingUnsaid, Answered
  <1>3. \A n : Upto(c, n) => Upto(c, n)'
    BY <1>2 DEF Upto
  <1>4. PICK n : n = cur[c] /\ n = cur'[c]
    OBVIOUS
  <1>5. Upto(c, n - 1)' /\ Form(c, n)' = Form(c, n) /\ (Answered(c, n)' <=> Answered(c, n))
        /\ n \in 1..Sent(c)'
    BY <1>2, <1>3, <1>4 DEF Form, Sent
  <1>6. Upto(c, cur[c] - 1)' /\ cur'[c] \in 1..Sent(c)'
    BY <1>4, <1>5 DEF Upto
  <1>7. Ahead(c, cur[c] + 1)'
    OBVIOUS
  <1>8. SocketOK(c)'
    BY <1>1, <1>4, <1>5, <1>6, <1>7 DEF NothingUnsaid, SocketOK, Working, Form, Answered
  <1> QED  BY <1>1, <1>8 DEF OrderOK

\* The thread waits for the message after number n.
LEMMA SocketReceives ==
  ASSUME TypeOK, NEW c \in Clients, Framed, NothingUnsaid, Grown(c),
         UNCHANGED <<script, client>>, wire'[c] = wire[c], thread'[c] = "recv",
         Chain(c), NEW n \in 1..Sent(c), Ahead(c, n + 1), Upto(c, n)', Ascending(c)',
         bus = "unix-socket" => job'[c] = Idle
  PROVE  OrderOK(c)'
  <1>1. Chain(c)' /\ Ahead(c, n + 1)' /\ Framed'
    BY DEF Chain, Follows, Ahead, Sent, Framed, NothingUnsaid
  <1>2. Sent(c)' = Sent(c) /\ Sent(c) \in Nat
    BY DEF Sent, TypeOK
  <1>3. PICK m \in 1..Sent(c)' + 1 : m = n + 1 /\ n = m - 1
    BY <1>2
  <1>4. Ahead(c, m)' /\ Upto(c, m - 1)'
    BY <1>1, <1>3
  <1>5. SocketOK(c)'
    BY <1>1, <1>3, <1>4 DEF NothingUnsaid, SocketOK, Working
  <1> QED  BY <1>1, <1>5 DEF OrderOK

LEMMA LastPiece ==
  ASSUME TypeOK, NEW c \in Clients, wire[c] # <<>>
  PROVE  /\ Last(wire[c]) = wire[c][Len(wire[c])] /\ Len(wire[c]) \in 1..Len(wire[c])
  BY DEF Last, TypeOK

LEMMA OrderSocketClient ==
  ASSUME TypeOK, NEW c \in Clients, Framed, JobOK(c), RepliesOK(c), OrderOK(c), StorageOK, ClientStep(c)
  PROVE  OrderOK(c)'
  <1>g. NothingUnsaid /\ Grown(c)
    BY Grows, GrownStep DEF Steps
  <1>t. Sent(c) \in Nat /\ SocketOK(c) /\ Chain(c) /\ storage = {} /\ client[c] = "open"
    BY DEF TypeOK, Sent, OrderOK, SocketOK, StorageOK, ClientStep, SendFirst, SendTail, Leave
  <1>u. /\ thread' = thread /\ cur' = cur /\ job' = job /\ replies' = replies
        /\ thread[c] # "spin"
    BY <1>t DEF ClientStep, SendFirst, SendTail, Leave, SocketOK
  <1>l. wire[c] # <<>> =>
          LET z == wire[c][Len(wire[c])]
          IN z[1] = Sent(c) /\ z[1] \in 1..Sent(c) /\ z[2] \in {"head", "tail"} /\ z = Last(wire[c])
    BY <1>t, LastPiece DEF Chain
  <1>1. CASE SendFirst(c)
    <2>1. PICK m \in Messages : /\ script' = [script EXCEPT ![c] = Append(@, m)]
                                /\ Piece(c, Sent(c) + 1, "head")
      BY <1>1 DEF SendFirst, Framed, Sent
    <2>2. Sent(c)' = Sent(c) + 1
      BY <2>1, MessageType DEF TypeOK, Sent
    <2>n. PICK n \in Nat : n = Sent(c) + 1
      BY <1>t
    <2>3. PICK x \in Nat \X Pieces : x = <<Sent(c) + 1, "head">>
      BY <2>n DEF Pieces
    <2>4. wire'[c] = Append(wire[c], x) /\ x[1] = Sent(c)' /\ x[2] = "head"
      BY <2>1, <2>2, <2>3 DEF Piece, TypeOK
    <2>5. ~HalfSent(c) /\ thread[c] # "closed"
      BY <1>1 DEF SendFirst
    <2>6. wire[c] # <<>> => LET z == wire[c][Len(wire[c])]
                            IN z[2] = "tail" /\ x = <<z[1] + 1, "head">>
      BY <1>l, <2>3, <2>5 DEF HalfSent
    <2>7. Chain(c)' /\ wire'[c] # <<>> /\ wire'[c][1] = IF wire[c] = <<>> THEN x ELSE wire[c][1]
      BY <1>g, <1>t, <2>2, <2>4, <2>6, WireAppend
    <2>8. wire[c] = <<>> => thread[c] # "body"
      BY <2>5 DEF HalfSent
    <2> QED  BY <1>g, <1>t, <1>u, <2>3, <2>5, <2>7, <2>8, SocketAppend
  <1>2. CASE SendTail(c)
    <2>1. Piece(c, Sent(c), "tail") /\ script' = script /\ HalfSent(c) /\ thread[c] # "closed"
      BY <1>2 DEF SendTail, Sent
    <2>2. Sent(c)' = Sent(c)
      BY <2>1 DEF Sent
    <2>3. PICK x \in Nat \X Pieces : x = <<Sent(c), "tail">>
      BY <1>t DEF Pieces
    <2>4. wire'[c] = Append(wire[c], x) /\ x[1] = Sent(c)' /\ x[2] = "tail"
      BY <2>1, <2>2, <2>3 DEF Piece, TypeOK
    <2>5. /\ wire[c] = <<>> => thread[c] = "body"
          /\ wire[c] # <<>> => Last(wire[c])[2] = "head"
      BY <1>t, <2>1 DEF HalfSent
    <2>6. wire[c] # <<>> => LET z == wire[c][Len(wire[c])]
                            IN z[2] = "head" /\ x = <<z[1], "tail">>
      BY <1>l, <2>3, <2>5
    <2>7. Sent(c) >= 1
      BY <1>l, <1>t, <2>5 DEF SocketOK
    <2>8. Chain(c)' /\ wire'[c] # <<>> /\ wire'[c][1] = IF wire[c] = <<>> THEN x ELSE wire[c][1]
      BY <1>g, <1>t, <2>2, <2>4, <2>6, <2>7, WireAppend
    <2> QED  BY <1>g, <1>t, <1>u, <2>1, <2>3, <2>5, <2>8, SocketAppend
  <1>3. CASE Leave(c) /\ wire' = wire
    <2>1. script' = script /\ client'[c] = "gone"
      BY <1>3 DEF Leave, TypeOK
    <2>2. Ascending(c)' /\ Framed'
      BY <1>g, <1>u, AscendingKept DEF Framed, NothingUnsaid, OrderOK
    <2>3. \A i : Answered(c, i)' = Answered(c, i)
      BY <1>g, <2>1 DEF NothingUnsaid, Answered
    <2>4. \A n : Upto(c, n) => Upto(c, n)'
      BY <1>u, <2>3 DEF Upto
    <2>5. Chain(c)'
      BY <1>t, <1>3, <2>1 DEF Chain, Follows, Sent
    <2>6. \A n : Ahead(c, n) => Ahead(c, n)'
      BY <1>3, <2>1 DEF Ahead, Sent
    <2>7. SocketOK(c)'
      BY <1>g, <1>t, <1>u, <1>3, <2>1, <2>3, <2>4, <2>5, <2>6 DEF NothingUnsaid, SocketOK, Sent, Form
    <2> QED  BY <2>2, <2>7 DEF OrderOK
  <1>4. CASE Leave(c) /\ wire' # wire
    <2>1. Piece(c, 0, "stub") /\ script' = script /\ ~HalfSent(c) /\ thread[c] # "closed" /\ client'[c] = "gone"
      BY <1>4 DEF Leave, TypeOK
    <2>2. Sent(c)' = Sent(c)
      BY <2>1 DEF Sent
    <2>3. PICK x \in Nat \X Pieces : x = <<0, "stub">>
      BY DEF Pieces
    <2>4. wire'[c] = Append(wire[c], x) /\ x[2] = "stub"
      BY <2>1, <2>3 DEF Piece, TypeOK
    <2>5. /\ wire[c] = <<>> => thread[c] # "body"
          /\ wire[c] # <<>> => wire[c][Len(wire[c])][2] = "tail"
      BY <1>l, <2>1 DEF HalfSent
    <2>6. Chain(c)' /\ wire'[c] # <<>> /\ wire'[c][1] = IF wire[c] = <<>> THEN x ELSE wire[c][1]
      BY <1>g, <1>t, <2>1, <2>2, <2>4, <2>5, WireAppend
    <2> QED  BY <1>g, <1>t, <1>u, <2>1, <2>2, <2>4, <2>5, <2>6, SocketAppend
  <1> QED  BY <1>1, <1>2, <1>3, <1>4 DEF ClientStep

\* What the thread of a connection does to its own state
LEMMA ThreadGoes ==
  ASSUME TypeOK, NEW c \in Clients, NEW to, Thread(c, to)
  PROVE  /\ thread'[c] = to
         /\ wire'[c] = (IF to = "closed" THEN <<>> ELSE wire[c])
         /\ cur'[c] = (IF to \in {"recv", "closed"} THEN 0 ELSE cur[c])
  BY DEF Thread, TypeOK

LEMMA OrderSocketRead ==
  ASSUME TypeOK, NEW c \in Clients, Framed, JobOK(c), RepliesOK(c), OrderOK(c), ReadStep(c)
  PROVE  OrderOK(c)'
  <1>g. NothingUnsaid /\ Grown(c)
    BY Grows, GrownStep DEF Steps
  <1>t. Sent(c) \in Nat /\ SocketOK(c) /\ Chain(c) /\ Ascending(c)
    BY DEF TypeOK, Sent, OrderOK, SocketOK
  <1>b. bus \in {"unix-socket", "client-socket"}
    BY DEF Framed
  <1>c. ASSUME Becomes(c, "closed"), bus = "unix-socket" => job'[c] = Idle
        PROVE  OrderOK(c)'
    <2>1. thread'[c] = "closed" /\ wire'[c] = <<>> /\ replies'[c] = replies[c]
      BY <1>c, ThreadGoes DEF Becomes
    <2> QED  BY <1>c, <1>g, <2>1, SocketCloses
  \* work on the message goes on
  <1>w. ASSUME NEW to \in Working, thread[c] \in Working, Becomes(c, to),
               to \in {"forward", "writing"} => bus = "client-socket" /\ Form(c, cur[c]) = "notification",
               to = "request" => bus = "client-socket" /\ Form(c, cur[c]) = "request",
               to = "reply" => job'[c].of = cur[c] /\ Answered(c, cur[c]),
               bus = "unix-socket" /\ to # "reply" => job'[c] = Idle
        PROVE  OrderOK(c)'
    <2>1. /\ thread'[c] = to /\ wire'[c] = wire[c] /\ cur'[c] = cur[c]
          /\ UNCHANGED <<script, client, replies>>
      BY <1>w, ThreadGoes DEF Becomes, Working
    <2>2. cur[c] \in 1..Sent(c) /\ Upto(c, cur[c] - 1) /\ Ahead(c, cur[c] + 1)
      BY <1>t, <1>w DEF SocketOK
    <2>3. Chain(c)' /\ Ahead(c, cur[c] + 1)'
      BY <1>t, <2>1, <2>2 DEF Chain, Follows, Ahead, Sent
    <2> QED  BY <1>g, <1>t, <1>w, <2>1, <2>2, <2>3, SocketWorks
  \* the message gets no answer
  <1>n. ASSUME thread[c] \in Working, Thread(c, "recv"), UNCHANGED <<script, client, job, replies>>,
               ~Answered(c, cur[c]), thread[c] # "reply"
        PROVE  OrderOK(c)'
    <2>1. thread'[c] = "recv" /\ wire'[c] = wire[c]
      BY <1>n, ThreadGoes
    <2>2. PICK n \in 1..Sent(c) : n = cur[c] /\ Upto(c, n - 1) /\ Ahead(c, n + 1)
      BY <1>t, <1>n DEF SocketOK
    <2>3. Upto(c, n)
      BY <1>n, <2>2, <1>t, UptoSkip
    <2>4. n \in Nat /\ n <= Sent(c) /\ replies'[c] = replies[c]
      BY <1>t, <1>n, <2>2
    <2>5. Upto(c, n)' /\ Ascending(c)'
      BY <1>g, <1>t, <2>3, <2>4, UptoKept, AscendingKept
    <2>6. bus = "unix-socket" => job'[c] = Idle
      BY <1>t, <1>n DEF SocketOK
    <2> QED  BY <1>g, <1>t, <1>n, <2>1, <2>2, <2>5, <2>6, SocketReceives
  <1>1. CASE RecvLength(c)
    <2>1. thread[c] = "recv" /\ wire[c] # <<>> /\ (bus = "unix-socket" => job[c] = Idle)
      BY <1>1, <1>t DEF RecvLength, SocketOK
    <2>2. PICK n \in 1..Sent(c) + 1 : Ahead(c, n) /\ Upto(c, n - 1)
      BY <1>t, <2>1 DEF SocketOK
    <2>3. Head(wire[c]) = wire[c][1] /\ wire[c][1][1] \in Nat
      BY <2>1, HeadType
    <2>4. CASE wire[c][1][2] = "stub"
      BY <1>1, <1>c, <2>1, <2>3, <2>4 DEF RecvLength
    <2>5. CASE wire[c][1][2] # "stub"
      <3>1. wire[c][1] = <<n, "head">> /\ wire[c][1][1] = n /\ n \in 1..Sent(c)
        <4>1. wire[c][1] = <<n, "head">>
          BY <2>1, <2>2, <2>5 DEF Ahead
        <4>2. 1 \in 1..Len(wire[c])
          BY <2>1 DEF TypeOK
        <4> QED  BY <1>t, <2>5, <4>1, <4>2 DEF Chain
      <3>2. Received(c, "body", n)
        BY <1>1, <2>3, <2>5, <3>1 DEF RecvLength
      <3>3. /\ wire'[c] = Tail(wire[c]) /\ thread'[c] = "body" /\ cur'[c] = n
            /\ UNCHANGED <<script, client, job, replies>>
        BY <3>2 DEF Received, TypeOK
      <3>4. /\ Chain(c)'
            /\ IF wire'[c] = <<>> THEN wire[c][1][2] = "stub" \/ wire[c][1][1] = Sent(c)
               ELSE Follows(c, wire[c][1], wire'[c][1])
        BY <1>t, <2>1, <3>3, WireTail
      <3>5. IF wire'[c] = <<>> THEN n = Sent(c) ELSE wire'[c][1] = <<n, "tail">>
        BY <2>5, <3>1, <3>4 DEF Follows
      <3>6. Sent(c)' = Sent(c) /\ Framed'
        BY <3>3, <1>g DEF Sent, Framed, NothingUnsaid
      <3>7. n - 1 \in Nat /\ n - 1 <= Sent(c) /\ replies'[c] = replies[c]
        BY <1>t, <3>1, <3>3
      <3>8. Upto(c, n - 1)' /\ Ascending(c)'
        BY <1>g, <1>t, <2>2, <3>7, UptoKept, AscendingKept
      <3>9. Upto(c, cur[c] - 1)'
        BY <3>3, <3>8 DEF Upto
      <3>10. SocketOK(c)'
        BY <1>g, <2>1, <3>1, <3>3, <3>4, <3>5, <3>6, <3>9 DEF SocketOK, Working, NothingUnsaid
      <3> QED  BY <3>6, <3>8, <3>10 DEF OrderOK
    <2> QED  BY <2>4, <2>5
  <1>2. CASE RecvEnd(c)
    BY <1>2, <1>c, <1>t DEF RecvEnd, SocketOK
  <1>3. CASE RecvBody(c)
    <2>1. thread[c] = "body" /\ wire[c] # <<>> /\ (bus = "unix-socket" => job[c] = Idle)
      BY <1>3, <1>t DEF RecvBody, SocketOK
    <2>2. cur[c] \in 1..Sent(c) /\ Upto(c, cur[c] - 1) /\ wire[c][1] = <<cur[c], "tail">>
      BY <1>t, <2>1 DEF SocketOK
    <2>3. /\ wire'[c] = Tail(wire[c]) /\ thread'[c] = "parse" /\ cur'[c] = cur[c]
          /\ UNCHANGED <<script, client, job, replies>>
      BY <1>3 DEF RecvBody, Received, TypeOK
    <2>4. /\ Chain(c)'
          /\ IF wire'[c] = <<>> THEN wire[c][1][2] = "stub" \/ wire[c][1][1] = Sent(c)
             ELSE Follows(c, wire[c][1], wire'[c][1])
      BY <1>t, <2>1, <2>3, WireTail
    <2>5. Ahead(c, cur[c] + 1)'
      BY <2>2, <2>3, <2>4 DEF Follows, Ahead, Sent
    <2> QED  BY <1>g, <1>t, <2>1, <2>2, <2>3, <2>4, <2>5, SocketWorks DEF Working
  <1>4. CASE BodyEof(c)
    <2>1. thread[c] = "body" /\ wire[c] = <<>> /\ client[c] = "gone" /\ (bus = "unix-socket" => job[c] = Idle)
      BY <1>4, <1>t DEF BodyEof, SocketOK
    <2>2. CASE bus = "client-socket"
      BY <1>4, <1>c, <2>2 DEF BodyEof
    <2>3. CASE bus # "client-socket"
      <3>1. /\ thread'[c] = "spin" /\ wire'[c] = <<>>
            /\ UNCHANGED <<script, client, job, replies>>
        BY <1>4, <2>1, <2>3, ThreadGoes DEF BodyEof, Becomes
      <3>2. Ascending(c)' /\ Framed'
        BY <1>g, <1>t, <3>1, AscendingKept DEF Framed, NothingUnsaid
      <3>3. Len(wire'[c]) = 0
        BY <3>1
      <3>4. Chain(c)'
        BY <3>1, <3>3 DEF Chain
      <3> QED  BY <1>g, <2>1, <3>1, <3>2, <3>4 DEF OrderOK, SocketOK, Working, NothingUnsaid
    <2> QED  BY <2>2, <2>3
  <1>5. CASE ParseUnix(c)
    <2>1. bus = "unix-socket" /\ thread[c] = "parse" /\ thread[c] \in Working /\ job[c] = Idle
          /\ cur[c] \in 1..Sent(c)
      BY <1>5, <1>t DEF ParseUnix, SocketOK, Working
    <2>2. CASE Form(c, cur[c]) = "garbage"
      <3>1. Becomes(c, "recv") /\ UNCHANGED job
        BY <1>5, <2>2 DEF ParseUnix, Form
      <3>2. ~Answered(c, cur[c])
        BY <2>1, <2>2 DEF Answered, Form
      <3> QED  BY <1>n, <2>1, <3>1, <3>2 DEF Becomes
    <2>3. CASE Form(c, cur[c]) = "scalar"
      BY <1>5, <1>c, <2>1, <2>3 DEF ParseUnix, Form
    <2>4. CASE Form(c, cur[c]) \notin {"garbage", "scalar"}
      <3>1. Becomes(c, "reply") /\ Route(c, cur[c])
        BY <1>5, <2>4 DEF ParseUnix, Form
      <3>2. Answered(c, cur[c])
        BY <2>1, <2>4 DEF Answered, Form
      <3>3. job'[c].of = cur[c]
        BY <2>1, <3>1, JobRoutes DEF Becomes
      <3> QED  BY <1>w, <2>1, <3>1, <3>2, <3>3 DEF Working
    <2> QED  BY <2>2, <2>3, <2>4
  <1>6. CASE ParseClientSocket(c)
    <2>1. bus = "client-socket" /\ thread[c] = "parse" /\ thread[c] \in Working /\ UNCHANGED job
      BY <1>6 DEF ParseClientSocket, Working
    <2>2. CASE Form(c, cur[c]) = "notification"
      BY <1>6, <1>w, <2>1, <2>2 DEF ParseClientSocket, Form, Working
    <2>3. CASE Form(c, cur[c]) = "request"
      BY <1>6, <1>w, <2>1, <2>3 DEF ParseClientSocket, Form, Working
    <2>4. CASE Form(c, cur[c]) \notin {"notification", "request"}
      <3>1. Becomes(c, "closed") \/ Becomes(c, "recv")
        BY <1>6, <2>4 DEF ParseClientSocket, Form
      <3>2. ~Answered(c, cur[c])
        BY <2>1, <2>4 DEF Answered, Form
      <3>3. CASE Becomes(c, "recv")
        BY <1>n, <2>1, <3>2, <3>3 DEF Becomes
      <3> QED  BY <1>c, <2>1, <3>1, <3>3
    <2> QED  BY <2>2, <2>3, <2>4
  <1>7. CASE Forward(c)
    <2>1. thread[c] = "forward" /\ Becomes(c, "writing") /\ UNCHANGED job
      BY <1>7 DEF Forward
    <2>2. bus = "client-socket" /\ Form(c, cur[c]) = "notification"
      BY <1>t, <2>1 DEF SocketOK
    <2> QED  BY <1>w, <2>1, <2>2 DEF Working
  <1>8. CASE SendRequest(c)
    <2>1. thread[c] = "request" /\ Becomes(c, "reply") /\ Route(c, cur[c])
      BY <1>8 DEF SendRequest
    <2>2. /\ bus = "client-socket" /\ Form(c, cur[c]) = "request" /\ cur[c] \in 1..Sent(c)
      BY <1>t, <2>1 DEF SocketOK, Working
    <2>3. Answered(c, cur[c])
      BY <2>2 DEF Answered, Form
    <2>4. job'[c].of = cur[c]
      BY <2>1, <2>2, JobRoutes DEF Becomes
    <2> QED  BY <1>w, <2>1, <2>2, <2>3, <2>4 DEF Working
  <1>9. CASE Write(c)
    <2>1. thread[c] = "writing" /\ UNCHANGED <<script, client, job, replies>>
      BY <1>9 DEF Write
    <2>2. /\ bus = "client-socket" /\ Form(c, cur[c]) = "notification"
      BY <1>t, <2>1 DEF SocketOK
    <2>3. ~Answered(c, cur[c])
      BY <2>2 DEF Answered, Form
    <2>4. CASE Thread(c, "recv")
      BY <1>n, <2>1, <2>3, <2>4 DEF Working
    <2>5. CASE UNCHANGED <<thread, wire, cur>>
      BY <1>g, <2>1, <2>5, SocketWaits
    <2> QED  BY <1>9, <2>4, <2>5 DEF Write
  <1>10. CASE Handler(c)
    BY <1>10 DEF Handler
  <1> QED  BY <1>1, <1>2, <1>3, <1>4, <1>5, <1>6, <1>7, <1>8, <1>9, <1>10 DEF ReadStep

\* The steps of Router and of the notification senders keep the number of
\* the message that a job is about.
LEMMA JobGoesOn ==
  ASSUME TypeOK, NEW c \in Clients,
         ProcessMessage(c) \/ SendUnix(c) \/ SendUbus(c) \/ SendMqtt(c) \/ NotifyRaises(c)
  PROVE  /\ job[c] # Idle /\ job'[c] # Idle /\ job'[c].of = job[c].of
         /\ UNCHANGED <<bus, script, reading, locks, replies>>
  <1>1. job[c].at \in {"input", "notify"} /\ UNCHANGED <<bus, script, reading, locks, replies>>
    BY DEF ProcessMessage, SendUnix, SendUbus, SendMqtt, NotifyRaises
  <1>2. ASSUME NEW result, Ends(c, result) \/ Continues(c, result)
        PROVE  job'[c].of = job[c].of /\ job'[c].at # "idle"
    BY <1>2, JobBecomes DEF Ends, Continues
  <1>3. ASSUME job' = [job EXCEPT ![c].tries = @ + 1]
        PROVE  job'[c].of = job[c].of /\ job'[c].at = job[c].at
    BY <1>3 DEF TypeOK, Job
  <1>4. job'[c].of = job[c].of /\ job'[c].at # "idle"
    <2>1. CASE ProcessMessage(c)
      BY <1>2, <2>1 DEF ProcessMessage
    <2>2. CASE SendUnix(c)
      BY <1>1, <1>2, <2>2 DEF SendUnix
    <2>3. CASE SendUbus(c)
      BY <1>2, <2>3 DEF SendUbus
    <2>4. CASE SendMqtt(c)
      BY <1>1, <1>2, <1>3, <2>4 DEF SendMqtt
    <2>5. CASE NotifyRaises(c)
      BY <1>2, <2>5 DEF NotifyRaises
    <2> QED  BY <2>1, <2>2, <2>3, <2>4, <2>5
  <1> QED  BY <1>1, <1>4, IdleType

LEMMA OrderSocketJob ==
  ASSUME TypeOK, NEW c \in Clients, Framed, JobOK(c), RepliesOK(c), OrderOK(c), JobStep(c) \/ FaultStep(c)
  PROVE  OrderOK(c)'
  <1>g. NothingUnsaid /\ Grown(c)
    BY Grows, GrownStep DEF Steps
  <1>t. Sent(c) \in Nat /\ SocketOK(c) /\ Chain(c) /\ Ascending(c)
    BY DEF TypeOK, Sent, OrderOK, SocketOK
  \* the connection ends without a reply
  <1>c. ASSUME Thread(c, "closed"), replies' = replies, bus = "unix-socket" => job'[c] = Idle
        PROVE  OrderOK(c)'
    <2>1. thread'[c] = "closed" /\ wire'[c] = <<>> /\ replies'[c] = replies[c]
      BY <1>c, ThreadGoes
    <2> QED  BY <1>c, <1>g, <2>1, SocketCloses
  \* the reply is sent
  <1>d. ASSUME thread[c] = "reply", job[c].at = "done", client[c] = "open", Deliver(c), Thread(c, "recv"),
               job'[c] = Idle, UNCHANGED <<script, client>>
        PROVE  OrderOK(c)'
    <2>1. PICK n \in 1..Sent(c) : n = cur[c] /\ Upto(c, n - 1) /\ Ahead(c, n + 1) /\ n = job[c].of
                                  /\ Answered(c, n)
      BY <1>t, <1>d DEF SocketOK, Working
    <2>2. PICK result : result = job[c].result
      OBVIOUS
    <2>3. result \in Results /\ replies'[c] = Append(replies[c], [of |-> n, result |-> result])
      BY <1>d, <2>1, <2>2 DEF Deliver, TypeOK, Job
    <2>4. Upto(c, n)' /\ Ascending(c)'
      BY <1>g, <1>t, <2>1, <2>3, Replied
    <2>5. thread'[c] = "recv" /\ wire'[c] = wire[c]
      BY <1>d, ThreadGoes
    <2> QED  BY <1>g, <1>t, <1>d, <2>1, <2>4, <2>5, SocketReceives
  <1>1. CASE ProcessMessage(c) \/ SendUnix(c) \/ SendUbus(c) \/ SendMqtt(c) \/ NotifyRaises(c)
    <2>1. /\ job[c] # Idle /\ job'[c].of = job[c].of
          /\ UNCHANGED <<script, wire, client, thread, cur, replies>>
      BY <1>1, JobGoesOn DEF reading
    <2> QED  BY <1>g, <2>1, SocketWaits
  <1>2. CASE ReplyUnix(c)
    <2>1. /\ bus = "unix-socket" /\ job[c].at = "done" /\ Deliver(c) /\ job'[c] = Idle
          /\ Thread(c, IF client[c] = "open" THEN "recv" ELSE "closed") /\ UNCHANGED <<script, client>>
      BY <1>2, JobRests DEF ReplyUnix
    <2>2. thread[c] = "reply"
      BY <1>t, <2>1, IdleType DEF SocketOK
    <2>3. CASE client[c] = "open"
      BY <1>d, <2>1, <2>2, <2>3
    <2>4. CASE client[c] # "open"
      BY <1>c, <2>1, <2>4 DEF Deliver
    <2> QED  BY <2>3, <2>4
  <1>3. CASE ReplyClientSocket(c)
    <2>1. /\ bus = "client-socket" /\ job[c].at = "done" /\ job'[c] = Idle /\ UNCHANGED <<script, client>>
      BY <1>3, JobRests DEF ReplyClientSocket
    <2>2. CASE thread[c] = "reply" /\ Thread(c, "closed") /\ UNCHANGED replies
      BY <1>c, <2>1, <2>2
    <2>3. CASE thread[c] = "reply" /\ client[c] = "open" /\ Thread(c, "recv") /\ Deliver(c)
      BY <1>d, <2>1, <2>3
    <2>4. CASE thread[c] # "reply" /\ UNCHANGED <<thread, wire, cur, replies>>
      <3>1. Ascending(c)' /\ Framed'
        BY <1>g, <1>t, <2>4, AscendingKept DEF Framed, NothingUnsaid
      <3>2. \A i : Answered(c, i)' = Answered(c, i)
        BY <1>g, <2>1 DEF NothingUnsaid, Answered
      <3>3. \A n : Upto(c, n) => Upto(c, n)'
        BY <2>4, <3>2 DEF Upto
      <3>4. Chain(c)'
        BY <1>t, <2>1, <2>4 DEF Chain, Follows, Sent
      <3>5. \A n : Ahead(c, n) => Ahead(c, n)'
        BY <2>1, <2>4 DEF Ahead, Sent
      <3>6. SocketOK(c)'
        BY <1>g, <1>t, <2>1, <2>4, <3>2, <3>3, <3>4, <3>5 DEF NothingUnsaid, SocketOK, Sent, Form
      <3> QED  BY <3>1, <3>6 DEF OrderOK
    <2>5. client[c] \in {"open", "gone"}
      BY DEF TypeOK
    <2> QED  BY <1>3, <2>2, <2>3, <2>4, <2>5 DEF ReplyClientSocket
  <1>4. CASE ReplyBus(c)
    BY <1>4 DEF ReplyBus
  <1>5. CASE SenderRaises(c)
    BY <1>5, <1>c DEF SenderRaises, Becomes
  <1>6. CASE ForwardFails(c)
    <2>1. bus = "client-socket" /\ Thread(c, "closed") /\ UNCHANGED replies
      BY <1>6, <1>t DEF ForwardFails, Becomes, SocketOK
    <2> QED  BY <1>c, <2>1
  <1>7. CASE LoseReply(c)
    <2>1. /\ job[c] # Idle /\ job'[c].of = job[c].of
          /\ UNCHANGED <<script, wire, client, thread, cur, replies>>
      BY <1>7, IdleType DEF LoseReply, reading, TypeOK, Job
    <2> QED  BY <1>g, <2>1, SocketWaits
  <1> QED  BY <1>1, <1>2, <1>3, <1>4, <1>5, <1>6, <1>7 DEF JobStep, FaultStep

\* A client of ubus or MQTT
LEMMA OrderCall ==
  ASSUME TypeOK, NEW c \in Clients, ~Framed, JobOK(c), RepliesOK(c), OrderOK(c), StorageOK, Steps(c)
  PROVE  OrderOK(c)'
  <1>g. NothingUnsaid /\ Grown(c)
    BY Grows, GrownStep
  <1>t. Sent(c) \in Nat /\ CallOK(c) /\ Ascending(c) /\ thread[c] = "recv" /\ ~Framed'
    BY <1>g DEF TypeOK, Sent, OrderOK, CallOK, Framed, NothingUnsaid
  <1>b. bus \in {"ubus", "mqtt"} /\ \A i : Answered(c, i) /\ Answered(c, i)'
    BY <1>g DEF TypeOK, Buses, Framed, NothingUnsaid, Answered
  <1>k. ASSUME replies'[c] = replies[c]
        PROVE  Ascending(c)' /\ \A n \in Nat : n <= Sent(c) /\ Upto(c, n) => Upto(c, n)'
    BY <1>k, <1>g, <1>t, AscendingKept, UptoKept
  <1>o. wire[c] # <<>> =>
          /\ Head(wire[c]) = wire[c][1] /\ Tail(wire[c]) = <<>>
          /\ wire[c][1][1] = Sent(c) /\ Sent(c) >= 1
    BY <1>t, HeadType DEF CallOK, TypeOK
  <1>1. CASE SendFirst(c)
    <2>1. /\ wire[c] = <<>> /\ job[c] = Idle /\ <<c, Sent(c)>> \notin storage /\ client[c] = "open"
          /\ UNCHANGED <<client, thread, cur, storage, job, replies>>
      BY <1>1 DEF SendFirst, Waits, HalfSent, Sent
    <2>2. PICK m \in Messages, p \in {"head", "whole"} :
            script' = [script EXCEPT ![c] = Append(@, m)] /\ Piece(c, Sent(c) + 1, p)
      BY <1>1 DEF SendFirst, Framed, Sent
    <2>3. Sent(c)' = Sent(c) + 1
      BY <2>2, MessageType DEF TypeOK, Sent
    <2>4. PICK x : x = <<Sent(c) + 1, p>>
      OBVIOUS
    <2>5. wire'[c] = <<x>>
      BY <2>1, <2>2, <2>4 DEF Piece, TypeOK
    <2>6. Len(wire'[c]) = 1 /\ wire'[c][1][1] = Sent(c)' /\ wire'[c][1][2] = p
      BY <2>3, <2>4, <2>5
    <2>7. <<c, Sent(c) + 1>> \notin storage
      BY <1>t DEF StorageOK
    <2>8. Upto(c, Sent(c))
      BY <1>t, <2>1 DEF CallOK
    <2>9. PICK n \in Nat : n = Sent(c)
      BY <1>t
    <2>10. Upto(c, n)' /\ Ascending(c)'
      BY <1>k, <1>t, <2>1, <2>8, <2>9
    <2>11. Upto(c, Sent(c) - 1)'
      BY <2>3, <2>9, <2>10
    <2>12. CallOK(c)'
      BY <1>t, <2>1, <2>3, <2>5, <2>6, <2>7, <2>11 DEF CallOK
    <2> QED  BY <1>t, <2>10, <2>12 DEF OrderOK
  <1>2. CASE SendTail(c)
    <2>1. /\ wire[c] = <<>> /\ job[c] = Idle /\ <<c, Sent(c)>> \in storage
          /\ UNCHANGED <<script, client, thread, cur, storage, job, replies>>
          /\ Piece(c, Sent(c), "tail")
      BY <1>2, <1>t DEF SendTail, Waits, HalfSent, Sent
    <2>2. Sent(c) >= 1 /\ Sent(c)' = Sent(c)
      BY <1>t, <2>1 DEF StorageOK, Sent
    <2>3. PICK x : x = <<Sent(c), "tail">>
      OBVIOUS
    <2>4. wire'[c] = <<x>>
      BY <2>1, <2>3 DEF Piece, TypeOK
    <2>5. Len(wire'[c]) = 1 /\ wire'[c][1][1] = Sent(c)' /\ wire'[c][1][2] = "tail"
      BY <2>2, <2>3, <2>4
    <2>6. PICK n \in Nat : n = Sent(c) - 1
      BY <1>t, <2>2
    <2>7. Upto(c, n)' /\ Ascending(c)'
      BY <1>k, <1>t, <2>1, <2>6 DEF CallOK
    <2>8. Upto(c, Sent(c) - 1)'
      BY <2>2, <2>6, <2>7
    <2>9. CallOK(c)'
      BY <1>t, <2>1, <2>2, <2>4, <2>5, <2>8 DEF CallOK
    <2> QED  BY <1>t, <2>7, <2>9 DEF OrderOK
  <1>3. CASE Leave(c)
    <2>1. /\ client'[c] = "gone"
          /\ UNCHANGED <<wire, script, thread, cur, storage, job, replies>>
      BY <1>3 DEF Leave, TypeOK
    <2>2. Sent(c)' = Sent(c)
      BY <2>1 DEF Sent
    <2>3. \A n : Upto(c, n) => Upto(c, n)'
      BY <1>b, <2>1 DEF Upto
    <2>4. Upto(c, Sent(c) - 1) => Upto(c, Sent(c) - 1)'
      BY <2>2, <2>3
    <2>5. CallOK(c)'
      BY <1>t, <2>1, <2>2, <2>4 DEF CallOK
    <2> QED  BY <1>k, <1>t, <2>1, <2>5 DEF OrderOK
  <1>4. CASE Handler(c)
    <2>1. /\ wire[c] # <<>> /\ job[c] = Idle /\ wire'[c] = <<>> /\ Sent(c)' = Sent(c) /\ Sent(c) >= 1
          /\ UNCHANGED <<script, client, thread, cur>>
      BY <1>4, <1>o DEF Handler, TypeOK, Sent
    <2>2. PICK n \in 1..Sent(c) : n = Sent(c)
      BY <1>t, <2>1
    <2>3. PICK p : p = wire[c][1][2]
      OBVIOUS
    <2>4. /\ p \in (IF <<c, n>> \in storage THEN {"tail"} ELSE {"head", "whole"})
          /\ Upto(c, n - 1)
      BY <1>t, <2>1, <2>2, <2>3 DEF CallOK
    <2>5. CASE p = "head"
      <3>1. storage' = storage \cup {<<c, n>>} /\ UNCHANGED <<job, replies>>
        BY <1>4, <1>o, <2>1, <2>2, <2>3, <2>5 DEF Handler
      <3>2. n - 1 \in Nat /\ n - 1 <= Sent(c)
        BY <1>t, <2>2
      <3>3. Upto(c, n - 1)' /\ Ascending(c)'
        BY <1>k, <2>4, <3>1, <3>2
      <3>4. Upto(c, Sent(c) - 1)'
        BY <2>1, <2>2, <3>3
      <3>5. Len(wire'[c]) = 0
        BY <2>1
      <3>6. CallOK(c)'
        BY <1>t, <2>1, <2>2, <3>1, <3>4, <3>5 DEF CallOK
      <3> QED  BY <1>t, <3>3, <3>6 DEF OrderOK
    <2>6. ASSUME Route(c, n), UNCHANGED replies, <<c, n>> \notin storage'
          PROVE  OrderOK(c)'
      <3>1. job'[c] # Idle /\ job'[c].of = n
        BY <2>1, <2>6, JobRoutes
      <3>2. n - 1 \in Nat /\ n - 1 <= Sent(c)
        BY <1>t, <2>2
      <3>3. Upto(c, n - 1)' /\ Ascending(c)'
        BY <1>k, <2>4, <2>6, <3>2
      <3>4. Upto(c, Sent(c) - 1)'
        BY <2>1, <2>2, <3>3
      <3>5. Len(wire'[c]) = 0
        BY <2>1
      <3>6. CallOK(c)'
        BY <1>t, <2>1, <2>2, <2>6, <3>1, <3>4, <3>5 DEF CallOK
      <3> QED  BY <1>t, <3>3, <3>6 DEF OrderOK
    <2>7. CASE p = "tail"
      <3>1. <<c, n>> \notin storage'
        BY <1>4, <1>o, <2>1, <2>2, <2>3, <2>7 DEF Handler, Pickup
      <3>2. CASE ErrorReply(c, n) /\ UNCHANGED job
        <4>1. replies'[c] = Append(replies[c], [of |-> n, result |-> "error"]) /\ "error" \in Results
          BY <3>2 DEF ErrorReply, TypeOK, Results
        <4>2. Upto(c, n)' /\ Ascending(c)'
          BY <1>b, <1>g, <1>t, <2>4, <4>1, Replied
        <4>3. Upto(c, Sent(c))'
          BY <2>1, <2>2, <4>2
        <4>4. Len(wire'[c]) = 0
          BY <2>1
        <4>5. CallOK(c)'
          BY <1>t, <2>1, <2>2, <3>1, <3>2, <4>3, <4>4 DEF CallOK
        <4> QED  BY <1>t, <4>2, <4>5 DEF OrderOK
      <3>3. \/ ErrorReply(c, n) /\ UNCHANGED job
            \/ Route(c, n) /\ UNCHANGED replies
        BY <1>4, <1>o, <2>1, <2>2, <2>3, <2>7 DEF Handler
      <3> QED  BY <2>6, <3>1, <3>2, <3>3
    <2>8. CASE p = "whole"
      <3>1. Route(c, n) /\ UNCHANGED <<storage, replies>>
        BY <1>4, <1>o, <2>1, <2>2, <2>3, <2>8 DEF Handler
      <3>2. <<c, n>> \notin storage'
        BY <2>4, <2>8, <3>1
      <3> QED  BY <2>6, <3>1, <3>2
    <2> QED  BY <2>4, <2>5, <2>7, <2>8
  <1>5. CASE ProcessMessage(c) \/ SendUnix(c) \/ SendUbus(c) \/ SendMqtt(c) \/ NotifyRaises(c)
    <2>1. /\ job[c] # Idle /\ job'[c] # Idle /\ job'[c].of = job[c].of
          /\ UNCHANGED <<script, wire, client, thread, cur, storage, replies>>
      BY <1>5, JobGoesOn DEF reading
    <2>2. Sent(c)' = Sent(c)
      BY <2>1 DEF Sent
    <2>3. \A n : Upto(c, n) => Upto(c, n)'
      BY <1>b, <2>1 DEF Upto
    <2>4. Upto(c, Sent(c) - 1)'
      BY <1>t, <2>1, <2>2, <2>3 DEF CallOK
    <2>5. CallOK(c)'
      BY <1>t, <2>1, <2>2, <2>4 DEF CallOK
    <2> QED  BY <1>k, <1>t, <2>1, <2>5 DEF OrderOK
  <1>6. CASE ReplyBus(c)
    <2>1. /\ job[c].at = "done" /\ job[c] # Idle /\ job'[c] = Idle /\ Deliver(c) /\ wire[c] = <<>>
          /\ UNCHANGED <<script, wire, client, thread, cur, storage>>
      BY <1>6, <1>t, JobRests, IdleType DEF ReplyBus, reading, CallOK
    <2>2. PICK n \in 1..Sent(c) : n = Sent(c) /\ n = job[c].of
      BY <1>t, <2>1 DEF CallOK, JobOK, Idle
    <2>3. Sent(c)' = Sent(c) /\ <<c, n>> \notin storage' /\ Upto(c, n - 1)
      BY <1>t, <2>1, <2>2 DEF CallOK, Sent
    <2>4. Len(wire'[c]) = 0
      BY <2>1
    <2>5. CASE client[c] = "open"
      <3>1. PICK result : result = job[c].result
        OBVIOUS
      <3>2. replies'[c] = Append(replies[c], [of |-> n, result |-> result]) /\ result \in Results
        BY <2>1, <2>2, <2>5, <3>1 DEF Deliver, TypeOK, Job
      <3>3. Upto(c, n)' /\ Ascending(c)'
        BY <1>b, <1>g, <1>t, <2>3, <3>2, Replied
      <3>4. Upto(c, Sent(c))'
        BY <2>2, <2>3, <3>3
      <3>5. CallOK(c)'
        BY <1>t, <2>1, <2>2, <2>3, <2>4, <3>4 DEF CallOK
      <3> QED  BY <1>t, <3>3, <3>5 DEF OrderOK
    <2>6. CASE client[c] # "open"
      <3>1. Ascending(c)'
        BY <1>k, <2>1, <2>6 DEF Deliver
      <3>2. CallOK(c)'
        BY <1>t, <2>1, <2>2, <2>3, <2>4, <2>6 DEF CallOK
      <3> QED  BY <1>t, <3>1, <3>2 DEF OrderOK
    <2> QED  BY <2>5, <2>6
  <1>7. CASE RecvLength(c) \/ RecvEnd(c) \/ RecvBody(c) \/ BodyEof(c)
    BY <1>7 DEF RecvLength, RecvEnd, RecvBody, BodyEof
  <1>8. CASE ParseUnix(c) \/ ParseClientSocket(c) \/ Forward(c) \/ SendRequest(c) \/ Write(c) \/ ForwardFails(c)
    BY <1>8, <1>t DEF ParseUnix, ParseClientSocket, Forward, SendRequest, Write, ForwardFails
  <1>9. CASE ReplyUnix(c) \/ ReplyClientSocket(c) \/ SenderRaises(c) \/ LoseReply(c)
    BY <1>9, <1>b DEF ReplyUnix, ReplyClientSocket, SenderRaises, LoseReply
  <1> QED  BY <1>1, <1>2, <1>3, <1>4, <1>5, <1>6, <1>7, <1>8, <1>9
           DEF Steps, ClientStep, ReadStep, JobStep, FaultStep

LEMMA OrderStep ==
  ASSUME TypeOK, NEW c \in Clients, JobOK(c), RepliesOK(c), OrderOK(c), StorageOK, Steps(c)
  PROVE  OrderOK(c)'
  <1>1. CASE Framed
    BY <1>1, OrderSocketClient, OrderSocketRead, OrderSocketJob DEF Steps
  <1>2. CASE ~Framed
    BY <1>2, OrderCall
  <1> QED  BY <1>1, <1>2

----------------------------------------------------------------------------
\* The storage and the lock

LEMMA StorageStep ==
  ASSUME TypeOK, NEW c \in Clients, OrderOK(c), StorageOK, Steps(c)
  PROVE  StorageOK'
  <1>g. NothingUnsaid /\ Framed' = Framed
    BY Grows DEF NothingUnsaid, Framed
  <1>t. \A id \in storage : id = <<id[1], id[2]>> /\ id[1] \in Clients
    BY DEF TypeOK
  <1>k. ASSUME storage' = storage, script' = script
        PROVE  StorageOK'
    BY <1>g, <1>k DEF StorageOK, Sent
  <1>1. CASE SendFirst(c)
    <2>1. PICK m : script' = [script EXCEPT ![c] = Append(@, m)]
      BY <1>1 DEF SendFirst
    <2>2. storage' = storage /\ <<c, Sent(c)>> \notin storage
      BY <1>1 DEF SendFirst, HalfSent, Sent
    <2>3. \A id \in storage : id[1] # c
      BY <1>t, <2>2 DEF StorageOK
    <2>4. \A d \in Clients : d # c => script'[d] = script[d]
      BY <2>1 DEF TypeOK
    <2>5. \A id \in storage : Sent(id[1])' = Sent(id[1])
      BY <1>t, <2>3, <2>4 DEF Sent
    <2> QED  BY <1>g, <2>2, <2>5 DEF StorageOK
  <1>2. CASE SendTail(c) \/ Leave(c)
    BY <1>2, <1>k DEF SendTail, Leave
  <1>3. CASE RecvLength(c) \/ RecvEnd(c) \/ RecvBody(c) \/ BodyEof(c)
    BY <1>3, <1>k DEF RecvLength, RecvEnd, RecvBody, BodyEof, Becomes, Received
  <1>4. CASE \/ ParseUnix(c) \/ ParseClientSocket(c) \/ Forward(c) \/ SendRequest(c) \/ Write(c)
             \/ LoseReply(c) \/ SenderRaises(c) \/ ForwardFails(c)
    BY <1>4, <1>k DEF ParseUnix, ParseClientSocket, Forward, SendRequest, Write, LoseReply,
                      SenderRaises, ForwardFails, Becomes, reading
  <1>5. CASE Handler(c)
    <2>1. /\ wire[c] # <<>> /\ ~Framed /\ script' = script /\ CallOK(c)
      BY <1>5 DEF Handler, OrderOK
    <2>2. PICK i : i = Head(wire[c])[1]
      OBVIOUS
    <2>3. i = Sent(c) /\ i # 0
      BY <2>1, <2>2, HeadType DEF CallOK, TypeOK, Sent
    <2>4. storage' \subseteq storage \cup {<<c, i>>}
      BY <1>5, <2>2 DEF Handler, Pickup
    <2>5. \A id \in storage \cup {<<c, i>>} : id[2] = Sent(id[1]) /\ id[2] # 0
      BY <2>3 DEF StorageOK
    <2>6. \A d : Sent(d)' = Sent(d)
      BY <2>1 DEF Sent
    <2> QED  BY <1>g, <2>1, <2>4, <2>5, <2>6 DEF StorageOK
  <1>6. CASE ProcessMessage(c) \/ SendUnix(c) \/ SendUbus(c) \/ SendMqtt(c) \/ NotifyRaises(c)
    BY <1>6, <1>k, JobGoesOn DEF reading
  <1>7. CASE ReplyUnix(c) \/ ReplyClientSocket(c) \/ ReplyBus(c)
    BY <1>7, <1>k DEF ReplyUnix, ReplyClientSocket, ReplyBus, reading
  <1> QED  BY <1>1, <1>2, <1>3, <1>4, <1>5, <1>6, <1>7
           DEF Steps, ClientStep, ReadStep, JobStep, FaultStep

\* A step that no writer takes and that lets none write
LEMMA WritersKept ==
  ASSUME WritersOK, bus' = bus, locks'.notify = locks.notify,
         locks' \in [sender : SUBSET Clients, notify : SUBSET Clients],
         \A d \in Clients : /\ thread'[d] = "writing" <=> thread[d] = "writing"
                            /\ thread[d] = "writing" => cur'[d] = cur[d],
         bus # "unix-socket" => torn' = torn /\ half' \subseteq half
  PROVE  WritersOK'
  BY DEF WritersOK

\* Only the writer that holds the lock can have begun a notification.
LEMMA OneWriter ==
  ASSUME WritersOK, bus # "unix-socket", NEW c \in Clients,
         \A d \in Clients : thread[d] = "writing" => d = c
  PROVE  /\ half \subseteq {<<c, cur[c], "forwarded">>}
         /\ thread[c] # "writing" => half = {}
  BY DEF WritersOK

LEMMA WritersStep ==
  ASSUME TypeOK, NEW c \in Clients, OrderOK(c), WritersOK, Steps(c)
  PROVE  WritersOK'
  <1>g. bus' = bus
    BY Grows DEF NothingUnsaid
  <1>f. \A d \in Clients : d # c => thread'[d] = thread[d] /\ cur'[d] = cur[d]
    BY Frame DEF Same
  <1>l. /\ locks \in [sender : SUBSET Clients, notify : SUBSET Clients]
        /\ \A X \in SUBSET Clients :
             /\ [locks EXCEPT !.sender = X] \in [sender : SUBSET Clients, notify : SUBSET Clients]
             /\ [locks EXCEPT !.sender = X].notify = locks.notify
             /\ [locks EXCEPT !.notify = X] \in [sender : SUBSET Clients, notify : SUBSET Clients]
             /\ [locks EXCEPT !.notify = X].notify = X
    BY DEF WritersOK
  <1>e. {} \in SUBSET Clients /\ {c} \in SUBSET Clients
    OBVIOUS
  \* steps of a thread that does not write
  <1>k. ASSUME thread[c] # "writing", thread'[c] # "writing",
               UNCHANGED locks \/ \E X \in SUBSET Clients : locks' = [locks EXCEPT !.sender = X],
               UNCHANGED <<half, torn>>
        PROVE  WritersOK'
    BY <1>k, <1>g, <1>f, <1>l, WritersKept
  <1>m. ASSUME UNCHANGED <<thread, cur, locks>>,
               bus # "unix-socket" => UNCHANGED <<half, torn>>
        PROVE  WritersOK'
    BY <1>m, <1>g, <1>l, WritersKept
  <1>w. ASSUME thread[c] = "writing"
        PROVE  /\ bus # "unix-socket" /\ locks.notify = {c}
               /\ \A d \in Clients : thread[d] = "writing" => d = c
               /\ half \subseteq {<<c, cur[c], "forwarded">>}
    <2>1. bus = "client-socket" /\ locks.notify = {c}
      BY <1>w DEF OrderOK, SocketOK, CallOK, WritersOK
    <2>2. \A d \in Clients : thread[d] = "writing" => d = c
      BY <2>1 DEF WritersOK
    <2> QED  BY <2>1, <2>2, OneWriter
  \* the writer ends
  <1>d. ASSUME thread[c] = "writing", thread'[c] # "writing", torn' = torn, half' = {},
               locks' = [locks EXCEPT !.notify = {}]
        PROVE  WritersOK'
    <2>1. \A d \in Clients : thread'[d] # "writing"
      BY <1>d, <1>f, <1>w
    <2>2. locks' \in [sender : SUBSET Clients, notify : SUBSET Clients]
      BY <1>d, <1>e, <1>l
    <2>3. bus # "unix-socket" => torn' = FALSE
      BY <1>d DEF WritersOK
    <2> QED  BY <1>d, <1>g, <2>1, <2>2, <2>3 DEF WritersOK
  <1>1. CASE ClientStep(c)
    BY <1>1, <1>m DEF ClientStep, SendFirst, SendTail, Leave, sending
  <1>2. CASE RecvLength(c) \/ RecvBody(c) \/ RecvEnd(c) \/ BodyEof(c)
    <2>1. thread[c] # "writing" /\ UNCHANGED <<locks, half, torn>>
      BY <1>2 DEF RecvLength, RecvBody, RecvEnd, BodyEof, Received, Becomes, sending
    <2>2. thread'[c] # "writing"
      BY <1>2, ThreadGoes DEF RecvLength, RecvBody, RecvEnd, BodyEof, Received, Becomes, TypeOK
    <2> QED  BY <1>k, <2>1, <2>2
  <1>3. CASE ParseUnix(c) \/ ParseClientSocket(c)
    <2>1. thread[c] # "writing" /\ UNCHANGED <<locks, half, torn>>
      BY <1>3 DEF ParseUnix, ParseClientSocket, Becomes, sending
    <2>2. thread'[c] # "writing"
      BY <1>3, ThreadGoes DEF ParseUnix, ParseClientSocket, Becomes
    <2> QED  BY <1>k, <2>1, <2>2
  <1>4. CASE Forward(c)
    <2>1. /\ thread[c] = "forward" /\ locks.notify = {} /\ locks' = [locks EXCEPT !.notify = {c}]
          /\ UNCHANGED <<half, torn>> /\ thread'[c] = "writing"
      BY <1>4, ThreadGoes DEF Forward, Becomes, sending
    <2>2. \A d \in Clients : thread[d] # "writing"
      BY <2>1 DEF WritersOK
    <2>3. \A d \in Clients : thread'[d] = "writing" => d = c
      BY <1>f, <2>2
    <2>4. bus # "unix-socket" => half = {} /\ torn = FALSE
      BY <2>2 DEF WritersOK
    <2>5. /\ locks' \in [sender : SUBSET Clients, notify : SUBSET Clients]
          /\ locks'.notify = {c}
      BY <1>e, <1>l, <2>1
    <2> QED  BY <1>g, <2>1, <2>3, <2>4, <2>5 DEF WritersOK
  <1>5. CASE SendRequest(c) \/ SenderRaises(c)
    <2>1. /\ thread[c] # "writing" /\ UNCHANGED <<half, torn>>
          /\ \E X \in {{}, {c}} : locks' = [locks EXCEPT !.sender = X]
      BY <1>5 DEF SendRequest, SenderRaises, Becomes, sending
    <2>2. thread'[c] # "writing"
      BY <1>5, ThreadGoes DEF SendRequest, SenderRaises, Becomes
    <2> QED  BY <1>e, <1>k, <2>1, <2>2
  <1>6. CASE Write(c)
    <2>1. PICK tag : tag = <<c, cur[c], "forwarded">>
      OBVIOUS
    <2>2. thread[c] = "writing" /\ half \subseteq {tag} /\ bus # "unix-socket"
      BY <1>6, <1>w, <2>1 DEF Write
    <2>3. CASE tag \in half
      <3>1. End(tag) /\ Thread(c, "recv") /\ locks' = [locks EXCEPT !.notify = {}]
        BY <1>6, <2>1, <2>3 DEF Write
      <3>2. half' = {} /\ torn' = torn
        BY <2>2, <3>1 DEF End
      <3> QED  BY <1>d, <2>2, <3>1, <3>2, ThreadGoes
    <2>4. CASE tag \notin half
      <3>1. Begin(tag) /\ UNCHANGED <<thread, cur, locks>>
        BY <1>6, <2>1, <2>4 DEF Write
      <3>2. half = {}
        BY <2>2, <2>4
      <3>3. half' = {tag} /\ torn' = FALSE
        BY <2>2, <3>1, <3>2 DEF Begin, WritersOK
      <3>4. \A d \in Clients : thread[d] = "writing" => locks.notify = {d}
        BY DEF WritersOK
      <3> QED  BY <1>g, <1>l, <2>1, <2>2, <3>1, <3>3, <3>4 DEF WritersOK
    <2> QED  BY <2>3, <2>4
  <1>7. CASE ForwardFails(c)
    <2>1. /\ thread[c] = "writing" /\ <<c, cur[c], "forwarded">> \notin half /\ thread'[c] = "closed"
          /\ locks' = [locks EXCEPT !.notify = {}] /\ UNCHANGED <<half, torn>>
      BY <1>7, ThreadGoes DEF ForwardFails, Becomes, sending
    <2>2. half' = {}
      BY <1>w, <2>1
    <2> QED  BY <1>d, <2>1, <2>2
  <1>8. CASE Handler(c)
    BY <1>8, <1>m DEF Handler, sending
  <1>9. CASE ProcessMessage(c) \/ SendUnix(c) \/ SendUbus(c) \/ SendMqtt(c) \/ NotifyRaises(c)
    <2>1. UNCHANGED <<thread, cur, locks>>
      BY <1>9, JobGoesOn DEF reading
    <2>2. bus # "unix-socket" => UNCHANGED <<half, torn>>
      BY <1>9 DEF ProcessMessage, SendUnix, SendUbus, SendMqtt, NotifyRaises, Heard, sending
    <2> QED  BY <1>m, <2>1, <2>2
  <1>10. CASE ReplyBus(c) \/ LoseReply(c)
    BY <1>10, <1>m DEF ReplyBus, LoseReply, reading, sending
  <1>11. CASE ReplyUnix(c)
    <2>1. UNCHANGED <<locks, half, torn>> /\ bus = "unix-socket"
      BY <1>11 DEF ReplyUnix, sending
    <2>2. thread'[c] # "writing"
      BY <1>11, ThreadGoes DEF ReplyUnix
    <2> QED  BY <1>k, <1>w, <2>1, <2>2
  <1>12. CASE ReplyClientSocket(c)
    <2>1. UNCHANGED <<half, torn>>
      BY <1>12 DEF ReplyClientSocket, sending
    <2>2. CASE thread[c] = "reply"
      <3>1. thread'[c] # "writing" /\ locks' = [locks EXCEPT !.sender = {}]
        BY <1>12, <2>2, ThreadGoes DEF ReplyClientSocket
      <3> QED  BY <1>e, <1>k, <2>1, <2>2, <3>1
    <2>3. CASE thread[c] # "reply"
      BY <1>12, <1>m, <2>1, <2>3 DEF ReplyClientSocket
    <2> QED  BY <2>2, <2>3
  <1> QED  BY <1>1, <1>2, <1>3, <1>4, <1>5, <1>6, <1>7, <1>8, <1>9, <1>10, <1>11, <1>12
           DEF Steps, ReadStep, JobStep, FaultStep

LEMMA MissedStep ==
  ASSUME NEW c \in Clients, MissedOK, Steps(c)
  PROVE  MissedOK'
  <1>g. bus' = bus
    BY Grows DEF NothingUnsaid
  <1>k. ASSUME UNCHANGED missed
        PROVE  MissedOK'
    BY <1>g, <1>k DEF MissedOK
  <1>1. CASE ClientStep(c)
    BY <1>1, <1>k DEF ClientStep, SendFirst, SendTail, Leave, sending
  <1>2. CASE ReadStep(c)
    BY <1>2, <1>k DEF ReadStep, RecvLength, RecvEnd, RecvBody, BodyEof, ParseUnix, ParseClientSocket, Forward,
                      SendRequest, Write, Handler, Becomes, Received, Begin, End, sending
  <1>3. CASE ProcessMessage(c) \/ SendUnix(c) \/ SendUbus(c)
    BY <1>3, <1>k DEF ProcessMessage, SendUnix, SendUbus, Begin, End, Heard, sending
  <1>4. CASE SendMqtt(c)
    BY <1>4, <1>g DEF SendMqtt, MissedOK
  <1>5. CASE ReplyUnix(c) \/ ReplyClientSocket(c) \/ ReplyBus(c)
    BY <1>5, <1>k DEF ReplyUnix, ReplyClientSocket, ReplyBus, sending
  <1>6. CASE FaultStep(c)
    BY <1>6, <1>k DEF FaultStep, LoseReply, SenderRaises, ForwardFails, NotifyRaises, Becomes, sending
  <1> QED  BY <1>1, <1>2, <1>3, <1>4, <1>5, <1>6 DEF Steps, JobStep

----------------------------------------------------------------------------
\* The invariant is inductive.

LEMMA RequestsInit == Init => IInv
  <1>1. SUFFICES ASSUME Init
                 PROVE  IInv
    OBVIOUS
  <1>2. TypeOK
    BY <1>1, IdleType DEF Init, TypeOK, ThreadStates, Buses
  <1>3. ASSUME NEW c \in Clients
        PROVE  JobOK(c) /\ RepliesOK(c) /\ OrderOK(c)
    <2>1. /\ script[c] = <<>> /\ wire[c] = <<>> /\ client[c] = "open" /\ thread[c] = "recv" /\ cur[c] = 0
          /\ job[c] = Idle /\ replies[c] = <<>> /\ storage = {}
      BY <1>1 DEF Init
    <2>2. Sent(c) = 0 /\ Len(wire[c]) = 0 /\ DOMAIN replies[c] = {}
      BY <2>1 DEF Sent
    <2>3. JobOK(c) /\ RepliesOK(c) /\ Ascending(c)
      BY <2>1, <2>2, IdleType DEF JobOK, RepliesOK, Ascending
    <2>4. Upto(c, 0)
      BY <2>2 DEF Upto
    <2>5. Chain(c) /\ Ahead(c, 1)
      BY <2>1, <2>2 DEF Chain, Ahead
    <2>6. 1 \in 1..Sent(c) + 1 /\ 1 - 1 = 0
      BY <2>2
    <2>7. SocketOK(c)
      BY <2>1, <2>4, <2>5, <2>6 DEF SocketOK, Working
    <2>8. CallOK(c)
      BY <2>1, <2>2, <2>4 DEF CallOK
    <2> QED  BY <2>3, <2>7, <2>8 DEF OrderOK
  <1>4. MissedOK /\ StorageOK /\ WritersOK
    BY <1>1 DEF Init, MissedOK, StorageOK, WritersOK
  <1> QED  BY <1>2, <1>3, <1>4 DEF IInv

LEMMA RequestsNext == IInv /\ [Next]_vars => IInv'
  <1>1. SUFFICES ASSUME IInv, [Next]_vars
                 PROVE  IInv'
    OBVIOUS
  <1>t. TypeOK /\ MissedOK /\ StorageOK /\ WritersOK
        /\ \A d \in Clients : JobOK(d) /\ RepliesOK(d) /\ OrderOK(d)
    BY <1>1 DEF IInv
  <1>2. CASE \E c \in Clients : Steps(c)
    <2>1. PICK c \in Clients : Steps(c)
      BY <1>2
    <2>2. TypeOK'
      BY <1>t, <2>1, TypeClient, TypeRead, TypeJob DEF Steps
    <2>3. ASSUME NEW d \in Clients
          PROVE  JobOK(d)' /\ RepliesOK(d)' /\ OrderOK(d)'
      <3>1. CASE d = c
        BY <1>t, <2>1, <3>1, ToldStep, OrderStep
      <3>2. CASE d # c
        BY <1>t, <2>1, <3>2, Frame, Grows, SameKeeps
      <3> QED  BY <3>1, <3>2
    <2>4. MissedOK' /\ StorageOK' /\ WritersOK'
      BY <1>t, <2>1, MissedStep, StorageStep, WritersStep
    <2> QED  BY <2>2, <2>3, <2>4 DEF IInv
  \* a process of a trigger ends, or nothing happens
  <1>3. CASE (\E tag \in procs : ProcessEnds(tag)) \/ UNCHANGED vars
    <2>1. UNCHANGED <<bus, script, reading, job, locks, replies>>
      BY <1>3 DEF ProcessEnds, vars
    <2>2. /\ heard \subseteq heard' /\ missed' = missed
          /\ bus # "unix-socket" => torn' = torn /\ half' \subseteq half
      BY <1>3 DEF ProcessEnds, Begin, End, vars, sending
    <2>3. NothingUnsaid /\ \A d : Same(d)
      BY <2>1, <2>2 DEF NothingUnsaid, Same, reading
    <2>4. TypeOK'
      BY <1>t, <2>1 DEF TypeOK, reading
    <2>5. \A d \in Clients : JobOK(d)' /\ RepliesOK(d)' /\ OrderOK(d)'
      BY <1>t, <2>3, SameKeeps
    <2>6. MissedOK' /\ StorageOK'
      BY <1>t, <2>1, <2>2 DEF MissedOK, StorageOK, Framed, Sent, reading
    <2>7. /\ bus' = bus /\ locks' = locks /\ thread' = thread /\ cur' = cur
          /\ locks \in [sender : SUBSET Clients, notify : SUBSET Clients]
      BY <1>t, <2>1 DEF reading, WritersOK
    <2>8. WritersOK'
      BY <1>t, <2>2, <2>7, WritersKept
    <2> QED  BY <2>4, <2>5, <2>6, <2>8 DEF IInv
  <1> QED  BY <1>1, <1>2, <1>3 DEF Next, Steps, Quiet

----------------------------------------------------------------------------
\* The theorems

LEMMA RequestsInvariant == Spec => []IInv
  BY RequestsInit, RequestsNext, PTL DEF Spec

\* No message is answered whose last part has not come.
LEMMA NoneHalf ==
  ASSUME TypeOK, NEW c \in Clients, OrderOK(c), StorageOK, HalfSent(c), NEW k \in DOMAIN replies[c]
  PROVE  replies[c][k].of < Sent(c)
  <1>1. Sent(c) \in Nat
    BY DEF TypeOK, Sent
  <1>2. ASSUME NEW n \in Nat, n < Sent(c), Upto(c, n)
        PROVE  replies[c][k].of < Sent(c)
    <2>1. replies[c][k].of \in 1..n
      BY <1>2 DEF Upto
    <2> QED  BY <1>1, <1>2, <2>1
  <1>3. CASE Framed
    <2>1. SocketOK(c) /\ Chain(c) /\ storage = {}
      BY <1>3 DEF OrderOK, SocketOK, StorageOK
    <2>2. CASE thread[c] \in Working \cup {"body"}
      <3>1. cur[c] \in 1..Sent(c) /\ Upto(c, cur[c] - 1)
        BY <2>1, <2>2 DEF SocketOK
      <3>2. cur[c] - 1 \in Nat /\ cur[c] - 1 < Sent(c)
        BY <1>1, <3>1
      <3> QED  BY <1>2, <3>1, <3>2
    <2>3. CASE thread[c] = "recv"
      <3>1. PICK n \in 1..Sent(c) + 1 : Ahead(c, n) /\ Upto(c, n - 1)
        BY <2>1, <2>3 DEF SocketOK
      <3>2. wire[c] # <<>> /\ Last(wire[c])[2] = "head"
        BY <2>1, <2>3 DEF HalfSent
      <3>3. /\ wire[c][Len(wire[c])][2] = "head" /\ Len(wire[c]) \in Nat
            /\ 1 \in 1..Len(wire[c])
        <4>1. Len(wire[c]) \in Nat
          BY DEF TypeOK
        <4> QED  BY <3>2, <4>1, LastPiece
      <3>4. wire[c][1][2] # "stub"
        <4>1. CASE Len(wire[c]) = 1
          BY <3>3, <4>1
        <4>2. CASE Len(wire[c]) # 1
          <5>1. PICK n1 \in Nat : n1 = Len(wire[c])
            BY <3>3
          <5>2. n1 >= 1 /\ n1 # 1
            BY <3>3, <4>2, <5>1
          <5>3. 1 \in 1..n1 - 1
            BY <5>2
          <5> QED  BY <2>1, <5>1, <5>3 DEF Chain, Follows
        <4> QED  BY <4>1, <4>2
      <3>5. n \in 1..Sent(c)
        BY <2>1, <3>1, <3>2, <3>3, <3>4 DEF Ahead, Chain
      <3>6. n - 1 \in Nat /\ n - 1 < Sent(c)
        BY <1>1, <3>5
      <3> QED  BY <1>2, <3>1, <3>6
    <2>4. CASE thread[c] \in {"closed", "spin"}
      BY <2>1, <2>4 DEF SocketOK, HalfSent
    <2> QED  BY <2>2, <2>3, <2>4 DEF TypeOK, ThreadStates, Working
  <1>4. CASE ~Framed
    <2>1. CallOK(c) /\ (wire[c] # <<>> \/ <<c, Sent(c)>> \in storage)
      BY <1>4 DEF OrderOK, CallOK, HalfSent, Sent
    <2>2. Upto(c, Sent(c) - 1) /\ Sent(c) >= 1
      BY <1>1, <2>1 DEF CallOK, StorageOK
    <2>3. Sent(c) - 1 \in Nat /\ Sent(c) - 1 < Sent(c)
      BY <1>1, <2>2
    <2> QED  BY <1>2, <2>2, <2>3
  <1> QED  BY <1>3, <1>4

(* Clients of the sockets and of ubus get their replies in the order of    *)
(* their messages, one for each message that the bus answers, none for a   *)
(* message whose last part has not come, and only errors for what is no    *)
(* request.                                                                *)
THEOREM RequestRepliesInOrder == Spec => []RepliesInOrder
  <1>1. IInv => RepliesInOrder
    <2>1. SUFFICES ASSUME IInv, NEW c \in Clients, NEW k \in DOMAIN replies[c], NEW n, n = replies[c][k].of
                   PROVE  /\ n \in 1..Len(script[c]) /\ Answered(c, n)
                          /\ n = Len(script[c]) => ~HalfSent(c)
                          /\ \A j \in 1..k - 1 : replies[c][j].of < n
                          /\ \A i \in 1..n - 1 : Answered(c, i) => \E j \in 1..k - 1 : replies[c][j].of = i
                          /\ script[c][n].form # "request" => replies[c][k].result = "error"
      BY DEF RepliesInOrder
    <2>2. TypeOK /\ OrderOK(c) /\ RepliesOK(c) /\ StorageOK
      BY <2>1 DEF IInv
    <2>3. n \in 1..Len(script[c]) /\ (script[c][n].form # "request" => replies[c][k].result = "error")
      BY <2>1, <2>2 DEF RepliesOK, ReplyOK, Sent, Form
    <2>4. HalfSent(c) => n < Len(script[c])
      BY <2>1, <2>2, NoneHalf DEF Sent
    <2>5. Ascending(c)
      BY <2>2 DEF OrderOK
    <2> QED  BY <2>1, <2>3, <2>4, <2>5 DEF Ascending
  <1> QED  BY <1>1, RequestsInvariant, PTL

(* A client hears of its change only after the notification went out, or   *)
(* on MQTT was given up after the last retry.                              *)
THEOREM RequestToldBeforeReply == Spec => []ToldBeforeReply
  <1>1. IInv => ToldBeforeReply
    BY DEF IInv, RepliesOK, ReplyOK, ToldOK, MissedOK, ToldBeforeReply
  <1> QED  BY <1>1, RequestsInvariant, PTL

(* Two notifications are never mixed on the client socket: only the holder *)
(* of notification_sender_lock has begun one.                              *)
THEOREM RequestForwardedWhole == Spec => []ForwardedWhole
  <1>1. IInv => ForwardedWhole
    BY DEF IInv, WritersOK, ForwardedWhole
  <1> QED  BY <1>1, RequestsInvariant, PTL

(* What RequestStorage keeps is the last message of its client, whose last *)
(* part is still missing.                                                  *)
THEOREM RequestStorageUnfinished == Spec => []StorageUnfinished
  <1>1. IInv => StorageUnfinished
    <2>1. SUFFICES ASSUME IInv, NEW id \in storage
                   PROVE  id[2] = Len(script[id[1]]) /\ job[id[1]].of # id[2]
      BY DEF StorageUnfinished
    <2>2. PICK c \in Clients : c = id[1] /\ id = <<c, Sent(c)>> /\ Sent(c) # 0 /\ id[2] = Sent(c)
      BY <2>1 DEF IInv, StorageOK, TypeOK
    <2>3. ~Framed /\ CallOK(c)
      BY <2>1 DEF IInv, StorageOK, OrderOK
    <2>4. job[c] # Idle => <<c, Sent(c)>> \notin storage
      BY <2>3 DEF CallOK
    <2>5. job[c] = Idle
      BY <2>2, <2>4
    <2> QED  BY <2>2, <2>5, IdleType DEF Sent
  <1> QED  BY <1>1, RequestsInvariant, PTL
=============================================================================
