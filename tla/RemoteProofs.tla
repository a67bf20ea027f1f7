---------------------------- MODULE RemoteProofs ----------------------------
(***************************************************************************)
(* Proofs about the DNS forwarders and remote access, for any number of    *)
(* threads, requests, forwarders and texts.                                *)
(*                                                                         *)
(* None of the three properties is inductive: what a thread has found out  *)
(* in an earlier step of its handler is part of the argument.  IInv adds   *)
(* what a thread may still have to do (ThreadsOK), what it may count on    *)
(* when it writes a file (WritersKnown), and what the settings it is about *)
(* to save were checked against (ChecksHold).                              *)
(***************************************************************************)
EXTENDS RemoteAccess, TLAPS

Writing == [at : {"open", "write", "write_unlinked"}, name : Names, text : Texts]
Todo ==
  {Idle} \cup Writing
  \cup [at : {"unlink"}, name : Names]
  \cup [at : {"resolver"}, name : AllNames \cup {""}]
  \cup [at : {"remote"}, enable : BOOLEAN]
  \cup [at : {"restart_resolver", "drop_ca", "broker"}]

ThreadsOK == thread \in [Threads -> Todo]

\* A thread that writes finds the file as it has left it, empty; unless the
\* file, or all of them, are known to be damaged.  Two threads that write
\* one file have damaged it.
Harmed(n) == "crash" \in damaged \/ n \in damaged
WritersKnown ==
  \A t \in Threads : thread[t].at = "write" =>
    /\ file[thread[t].name] = "empty" \/ Harmed(thread[t].name)
    /\ \A u \in Threads \ {t} :
         thread[u].at = "write" /\ thread[u].name = thread[t].name => Harmed(thread[t].name)

\* An update that found the authority ready still finds it when it saves,
\* or is known to overlap with delete_ca.
ChecksHold ==
  \A t \in Threads : thread[t].at = "remote" /\ thread[t].enable =>
    mqtt /\ (get_status = "ready" \/ "ca" \in damaged \/ "bus" \in damaged)

\* A thread that is about to restart the broker has saved, as have all that
\* came after it: on another bus remote access is off.
BrokerKnown ==
  \A t \in Threads : thread[t].at = "broker" /\ enabled => mqtt

\* Until a service runs what was saved, a thread has its restart to do.
RestartsDue ==
  "crash" \notin damaged =>
    /\ "resolver" \notin damaged =>
         resolver = custom \/ \E t \in Threads : thread[t].at = "restart_resolver"
    /\ "broker" \notin damaged =>
         broker = enabled \/ \E t \in Threads : thread[t].at = "broker"

IInv ==
  /\ TypeOK
  /\ ThreadsOK
  /\ ForwardersWhole
  /\ WritersKnown
  /\ EnabledHasCa
  /\ ChecksHold
  /\ BrokerKnown
  /\ RestartsDue

----------------------------------------------------------------------------
\* What the step a thread has come to says of its record.
LEMMA TodoFields ==
  ASSUME NEW r \in Todo
  PROVE  /\ r.at \in {"open", "write", "write_unlinked"} =>
              r \in Writing /\ r.name \in Names /\ r.text \in Texts
         /\ r.at = "unlink" => r.name \in Names
         /\ r.at = "resolver" => r.name \in AllNames \cup {""}
         /\ r.at = "remote" => r.enable \in BOOLEAN
  <1>1. CASE r = Idle
    BY <1>1 DEF Idle
  <1>2. CASE r \in Writing
    BY <1>2 DEF Writing
  <1>3. CASE r \in [at : {"unlink"}, name : Names]
    BY <1>3
  <1>4. CASE r \in [at : {"resolver"}, name : AllNames \cup {""}]
    BY <1>4
  <1>5. CASE r \in [at : {"remote"}, enable : BOOLEAN]
    BY <1>5
  <1>6. CASE r \in [at : {"restart_resolver", "drop_ca", "broker"}]
    BY <1>6
  <1> QED  BY <1>1, <1>2, <1>3, <1>4, <1>5, <1>6 DEF Todo

\* What a thread has to do after a step of writing.
LEMMA WritingGoesOn ==
  ASSUME NEW r \in Writing, NEW at \in {"write", "write_unlinked"}
  PROVE  /\ At(r, at) \in Todo
         /\ At(r, at).at = at
         /\ At(r, at).name = r.name
  BY DEF At, Todo, Writing

\* Each step leaves every thread with something it can go on with.
LEMMA ThreadsStep ==
  ASSUME IInv, Next
  PROVE  ThreadsOK'
  <1> USE DEF ThreadsOK
  <1>t. /\ thread \in [Threads -> Todo]
        /\ Idle \in Todo
    BY DEF IInv, Todo
  <1>v. file[Vendor] = "vendor"
    BY DEF IInv, ForwardersWhole
  <1>1. CASE GenCa \/ GenServer
    BY <1>1, <1>t DEF GenCa, GenServer
  <1>2. CASE Crash
    BY <1>2, <1>t DEF Crash
  <1>3. ASSUME NEW t \in Threads, DnsStep(t)
        PROVE  ThreadsOK'
    <2>1. ASSUME NEW n \in Names, NEW text \in Texts, add_forwarder(t, n, text)
          PROVE  ThreadsOK'
      <3>1. [at |-> "open", name |-> n, text |-> text] \in Todo
        BY DEF Todo, Writing
      <3> QED  BY <2>1, <3>1, <1>t DEF add_forwarder, Then
    <2>2. ASSUME NEW n \in AllNames, NEW text \in Texts, set_forwarder(t, n, text)
          PROVE  ThreadsOK'
      <3>1. Editable(n) => [at |-> "open", name |-> n, text |-> text] \in Todo
        BY <1>v DEF Todo, Writing, Editable, AllNames
      <3> QED  BY <2>2, <3>1, <1>t DEF set_forwarder, Then
    <2>3. CASE OpenForwarder(t)
      <3>1. thread[t] \in Writing
        BY <2>3, <1>t, TodoFields DEF OpenForwarder, Continue
      <3> QED  BY <2>3, <3>1, <1>t, WritingGoesOn DEF OpenForwarder, Then
    <2>4. CASE WriteForwarder(t) \/ WriteUnlinked(t)
      BY <2>4, <1>t DEF WriteForwarder, WriteUnlinked, Then
    <2>5. ASSUME NEW n \in AllNames, del_forwarder(t, n)
          PROVE  ThreadsOK'
      <3>1. Editable(n) => [at |-> "unlink", name |-> n] \in Todo
        BY <1>v DEF Todo, Editable, AllNames
      <3> QED  BY <2>5, <3>1, <1>t DEF del_forwarder, Then
    <2>6. CASE DeleteForwarder(t)
      <3>1. \A u \in Threads : thread[u].at = "write" =>
                 At(thread[u], "write_unlinked") \in Todo
        BY <1>t, TodoFields, WritingGoesOn
      <3> QED  BY <2>6, <3>1, <1>t DEF DeleteForwarder
    <2>7. CASE ListingFails(t)
      BY <2>7, <1>t DEF ListingFails
    <2>8. ASSUME NEW n \in AllNames \cup {""}, dns_update_settings(t, n)
          PROVE  ThreadsOK'
      <3>1. [at |-> "resolver", name |-> n] \in Todo
        BY DEF Todo
      <3> QED  BY <2>8, <3>1, <1>t DEF dns_update_settings, Then
    <2>9. CASE SaveForwarder(t)
      <3>1. [at |-> "restart_resolver"] \in Todo
        BY DEF Todo
      <3> QED  BY <2>9, <3>1, <1>t DEF SaveForwarder, Then
    <2>10. ASSUME NEW ok \in BOOLEAN, RestartResolver(t, ok)
           PROVE  ThreadsOK'
      BY <2>10, <1>t DEF RestartResolver, Then
    <2> QED  BY <1>3, <2>1, <2>2, <2>3, <2>4, <2>5, <2>6, <2>7, <2>8, <2>9, <2>10 DEF DnsStep
  <1>4. ASSUME NEW t \in Threads, generate_ca(t)
        PROVE  ThreadsOK'
    BY <1>4, <1>t DEF generate_ca
  <1>5. ASSUME NEW t \in Threads, delete_ca(t)
        PROVE  ThreadsOK'
    <2>1. [at |-> "drop_ca"] \in Todo
      BY DEF Todo
    <2> QED  BY <1>5, <2>1, <1>t DEF delete_ca, Then
  <1>6. ASSUME NEW t \in Threads, NEW ok \in BOOLEAN, DropCa(t, ok) \/ RestartBroker(t, ok)
        PROVE  ThreadsOK'
    BY <1>6, <1>t DEF DropCa, RestartBroker, Then
  <1>7. ASSUME NEW t \in Threads, NEW want \in BOOLEAN, remote_update_settings(t, want)
        PROVE  ThreadsOK'
    <2>1. MayEnable(want) \in BOOLEAN
      BY DEF MayEnable
    <2>2. [at |-> "remote", enable |-> MayEnable(want)] \in Todo
      BY <2>1 DEF Todo
    <2> QED  BY <1>7, <2>2, <1>t DEF remote_update_settings, Then
  <1>8. ASSUME NEW t \in Threads, SaveRemote(t)
        PROVE  ThreadsOK'
    <2>1. [at |-> "broker"] \in Todo
      BY DEF Todo
    <2> QED  BY <1>8, <2>1, <1>t DEF SaveRemote, Then
  <1> QED  BY <1>1, <1>2, <1>3, <1>4, <1>5, <1>6, <1>7, <1>8 DEF Next

----------------------------------------------------------------------------
\* The types of the files, the settings and the history.
LEMMA TypeStep ==
  ASSUME IInv, Next
  PROVE  TypeOK'
  <1> USE DEF TypeOK, DnsTypeOK
  <1>t. /\ TypeOK
        /\ thread \in [Threads -> Todo]
    BY DEF IInv, ThreadsOK
  <1>1. CASE GenCa \/ GenServer \/ Crash
    BY <1>1, <1>t DEF GenCa, GenServer, Crash, remoteVars, dnsVars, get_status
  <1>2. ASSUME NEW t \in Threads, DnsStep(t), UNCHANGED remoteVars
        PROVE  TypeOK'
    <2>1. CASE OpenForwarder(t)
      <3>1. thread[t].name \in Names
        BY <2>1, <1>t, TodoFields DEF OpenForwarder, Continue, Writing
      <3> QED  BY <2>1, <3>1, <1>2, <1>t DEF OpenForwarder, remoteVars, AllNames
    <2>2. CASE WriteForwarder(t)
      <3>1. thread[t].name \in Names /\ thread[t].text \in Texts
        BY <2>2, <1>t, TodoFields DEF WriteForwarder, Continue, Writing
      <3> QED  BY <2>2, <3>1, <1>2, <1>t DEF WriteForwarder, remoteVars, AllNames
    <2>3. CASE DeleteForwarder(t)
      <3>1. thread[t].name \in Names
        BY <2>3, <1>t, TodoFields DEF DeleteForwarder, Continue
      <3> QED  BY <2>3, <3>1, <1>2, <1>t DEF DeleteForwarder, remoteVars, AllNames
    <2>4. CASE SaveForwarder(t)
      <3>1. thread[t].name \in AllNames \cup {""}
        BY <2>4, <1>t, TodoFields DEF SaveForwarder, Continue
      <3> QED  BY <2>4, <3>1, <1>2, <1>t DEF SaveForwarder, remoteVars
    <2>5. ASSUME NEW ok \in BOOLEAN, RestartResolver(t, ok)
          PROVE  TypeOK'
      BY <2>5, <1>2, <1>t DEF RestartResolver, remoteVars
    <2>6. CASE UNCHANGED dnsVars
      BY <2>6, <1>2, <1>t DEF dnsVars, remoteVars
    <2> QED  BY <1>2, <2>1, <2>2, <2>3, <2>4, <2>5, <2>6
          DEF DnsStep, add_forwarder, set_forwarder, WriteUnlinked, del_forwarder, ListingFails,
              dns_update_settings, dnsVars
  <1>3. ASSUME NEW t \in Threads, generate_ca(t) \/ delete_ca(t)
        PROVE  TypeOK'
    BY <1>3, <1>t DEF generate_ca, delete_ca, dnsVars, remoteVars
  <1>4. ASSUME NEW t \in Threads, NEW ok \in BOOLEAN, DropCa(t, ok) \/ RestartBroker(t, ok)
        PROVE  TypeOK'
    BY <1>4, <1>t DEF DropCa, RestartBroker
  <1>5. ASSUME NEW t \in Threads, NEW want \in BOOLEAN, remote_update_settings(t, want)
        PROVE  TypeOK'
    BY <1>5, <1>t DEF remote_update_settings, dnsVars, remoteVars
  <1>6. ASSUME NEW t \in Threads, SaveRemote(t)
        PROVE  TypeOK'
    <2>1. thread[t].enable \in BOOLEAN
      BY <1>6, <1>t, TodoFields DEF SaveRemote, Continue
    <2> QED  BY <1>6, <2>1, <1>t DEF SaveRemote, dnsVars
  <1> QED  BY <1>1, <1>2, <1>3, <1>4, <1>5, <1>6 DEF Next

----------------------------------------------------------------------------
\* The files and their writers: only the four steps that open, write and
\* unlink a file change either, and a crash, which harms every file.
LEMMA FilesStep ==
  ASSUME IInv, Next
  PROVE  ForwardersWhole' /\ WritersKnown'
  <1>t. /\ TypeOK /\ DnsTypeOK
        /\ thread \in [Threads -> Todo]
        /\ ForwardersWhole /\ WritersKnown
    BY DEF IInv, ThreadsOK, TypeOK
  <1>a. Vendor \notin Names /\ Texts \cap Partial = {} /\ Vendor \in AllNames /\ Names \subseteq AllNames
    BY ForwardersAssumption DEF Vendor, Partial, AllNames
  <1>k. ASSUME file' = file, damaged \subseteq damaged',
               \A u \in Threads : thread'[u].at = "write" <=> thread[u].at = "write",
               \A u \in Threads : thread[u].at = "write" => thread'[u] = thread[u]
        PROVE  ForwardersWhole' /\ WritersKnown'
    BY <1>t, <1>k DEF ForwardersWhole, WritersKnown, Harmed
  <1>1. CASE GenCa \/ GenServer
    BY <1>1, <1>k DEF GenCa, GenServer, dnsVars
  <1>2. CASE Crash
    BY <1>2, <1>t DEF Crash, ForwardersWhole, WritersKnown, Harmed, Idle
  <1>3. ASSUME NEW t \in Threads, OpenForwarder(t)
        PROVE  ForwardersWhole' /\ WritersKnown'
    <2> DEFINE n == thread[t].name
    <2>1. /\ n \in Names /\ thread[t] \in Writing
          /\ file' = [file EXCEPT ![n] = "empty"]
          /\ thread' = [thread EXCEPT ![t] = At(thread[t], "write")]
          /\ damaged \subseteq damaged'
          /\ (\E u \in Threads \ {t} : thread[u].at \in {"open", "write"} /\ thread[u].name = n)
               => n \in damaged'
      BY <1>3, <1>t, TodoFields DEF OpenForwarder, Continue, Then
    <2>2. /\ thread'[t].at = "write" /\ thread'[t].name = n
          /\ \A u \in Threads \ {t} : thread'[u] = thread[u]
      BY <2>1, <1>t, WritingGoesOn
    <2>3. /\ file'[n] = "empty"
          /\ \A m \in AllNames \ {n} : file'[m] = file[m]
      BY <2>1, <1>t, <1>a DEF DnsTypeOK
    <2>4. ForwardersWhole'
      BY <2>1, <2>2, <2>3, <1>t, <1>a DEF ForwardersWhole, Partial
    <2>5. \A u \in Threads : thread[u].at = "write" => thread[u].name \in AllNames
      BY <1>t, <1>a, TodoFields
    <2>6. WritersKnown'
      BY <2>1, <2>2, <2>3, <2>5, <1>t DEF WritersKnown, Harmed
    <2> QED  BY <2>4, <2>6
  <1>4. ASSUME NEW t \in Threads, WriteForwarder(t)
        PROVE  ForwardersWhole' /\ WritersKnown'
    <2> DEFINE n == thread[t].name
    <2>1. /\ n \in Names /\ thread[t].at = "write" /\ thread[t].text \in Texts
          /\ thread' = [thread EXCEPT ![t] = Idle]
          /\ damaged' = damaged
      BY <1>4, <1>t, TodoFields DEF WriteForwarder, Continue, Then
    <2>2. /\ thread'[t].at = "idle"
          /\ \A u \in Threads \ {t} : thread'[u] = thread[u]
      BY <2>1, <1>t DEF Idle
    <2>3. /\ file'[n] = thread[t].text \/ (file'[n] = "mixed" /\ file[n] # "empty")
          /\ \A m \in AllNames \ {n} : file'[m] = file[m]
      BY <2>1, <1>4, <1>t, <1>a DEF WriteForwarder, DnsTypeOK
    <2>4. file'[n] \in Partial => Harmed(n)
      BY <2>1, <2>3, <1>t, <1>a DEF WritersKnown
    <2>5. ForwardersWhole'
      BY <2>1, <2>2, <2>3, <2>4, <1>t, <1>a DEF ForwardersWhole, Harmed
    <2>6. \A u \in Threads : thread[u].at = "write" => thread[u].name \in AllNames
      BY <1>t, <1>a, TodoFields
    <2>7. WritersKnown'
      BY <2>1, <2>2, <2>3, <2>6, <1>t DEF WritersKnown, Harmed
    <2> QED  BY <2>5, <2>7
  <1>5. ASSUME NEW t \in Threads, DeleteForwarder(t)
        PROVE  ForwardersWhole' /\ WritersKnown'
    <2> DEFINE n == thread[t].name
    <2>1. /\ n \in Names /\ thread[t].at = "unlink"
          /\ file' = [file EXCEPT ![n] = "absent"]
          /\ damaged' = damaged
      BY <1>5, <1>t, TodoFields DEF DeleteForwarder, Continue
    <2>2. \A u \in Threads : thread[u].at = "write" =>
            At(thread[u], "write_unlinked").at = "write_unlinked" /\ thread[u].name \in AllNames
      BY <1>t, <1>a, TodoFields, WritingGoesOn
    <2>3. \A u \in Threads :
            IF thread[u].at = "write" /\ thread[u].name # n
            THEN thread'[u] = thread[u]
            ELSE thread'[u].at # "write"
      BY <1>5, <2>1, <2>2 DEF DeleteForwarder, Idle
    <2>4. /\ file'[n] = "absent"
          /\ \A m \in AllNames \ {n} : file'[m] = file[m]
      BY <2>1, <1>t, <1>a DEF DnsTypeOK
    <2>5. ForwardersWhole'
      BY <2>1, <2>3, <2>4, <1>t, <1>a DEF ForwardersWhole, Partial
    <2>6. WritersKnown'
      BY <2>1, <2>2, <2>3, <2>4, <1>t DEF WritersKnown, Harmed
    <2> QED  BY <2>5, <2>6
  <1>6. ASSUME NEW t \in Threads, NEW next, next.at # "write", thread[t].at # "write",
               thread' = thread \/ thread' = [thread EXCEPT ![t] = next],
               file' = file, damaged \subseteq damaged'
        PROVE  ForwardersWhole' /\ WritersKnown'
    BY <1>6, <1>k, <1>t
  <1>i. Idle.at = "idle"
    BY DEF Idle
  <1>7. ASSUME NEW t \in Threads, NewRequest(t), UNCHANGED dnsVars,
               NEW next, next.at # "write",
               thread' = thread \/ thread' = [thread EXCEPT ![t] = next]
        PROVE  ForwardersWhole' /\ WritersKnown'
    BY <1>7, <1>6, <1>i DEF NewRequest, dnsVars
  <1>8. ASSUME NEW t \in Threads, DnsStep(t)
        PROVE  ForwardersWhole' /\ WritersKnown'
    <2>1. ASSUME NEW n, NEW text, add_forwarder(t, n, text) \/ set_forwarder(t, n, text)
          PROVE  ForwardersWhole' /\ WritersKnown'
      <3>1. [at |-> "open", name |-> n, text |-> text].at # "write"
        OBVIOUS
      <3> QED  BY <2>1, <3>1, <1>7, <1>i DEF add_forwarder, set_forwarder, Then
    <2>2. ASSUME NEW n, del_forwarder(t, n) \/ dns_update_settings(t, n)
          PROVE  ForwardersWhole' /\ WritersKnown'
      <3>1. /\ [at |-> "unlink", name |-> n].at # "write"
            /\ [at |-> "resolver", name |-> n].at # "write"
        OBVIOUS
      <3> QED  BY <2>2, <3>1, <1>7 DEF del_forwarder, dns_update_settings, Then
    <2>3. CASE WriteUnlinked(t)
      BY <2>3, <1>6, <1>i DEF WriteUnlinked, Continue, Then, dnsVars
    <2>4. CASE ListingFails(t)
      BY <2>4, <1>7, <1>i DEF ListingFails
    <2>5. CASE SaveForwarder(t)
      <3>1. [at |-> "restart_resolver"].at # "write"
        OBVIOUS
      <3> QED  BY <2>5, <3>1, <1>6 DEF SaveForwarder, Continue, Then
    <2>6. ASSUME NEW ok \in BOOLEAN, RestartResolver(t, ok)
          PROVE  ForwardersWhole' /\ WritersKnown'
      BY <2>6, <1>6, <1>i DEF RestartResolver, Continue, Then
    <2> QED  BY <1>8, <1>3, <1>4, <1>5, <2>1, <2>2, <2>3, <2>4, <2>5, <2>6 DEF DnsStep
  <1>9. ASSUME NEW t \in Threads, generate_ca(t) \/ delete_ca(t)
        PROVE  ForwardersWhole' /\ WritersKnown'
    <2>1. [at |-> "drop_ca"].at # "write"
      OBVIOUS
    <2> QED  BY <1>9, <2>1, <1>7 DEF generate_ca, delete_ca, Then
  <1>10. ASSUME NEW t \in Threads, NEW ok \in BOOLEAN, DropCa(t, ok) \/ RestartBroker(t, ok)
         PROVE  ForwardersWhole' /\ WritersKnown'
    BY <1>10, <1>6, <1>i DEF DropCa, RestartBroker, Continue, Then
  <1>11. ASSUME NEW t \in Threads, NEW want \in BOOLEAN, remote_update_settings(t, want)
         PROVE  ForwardersWhole' /\ WritersKnown'
    <2>1. [at |-> "remote", enable |-> MayEnable(want)].at # "write"
      OBVIOUS
    <2> QED  BY <1>11, <2>1, <1>7 DEF remote_update_settings, Then
  <1>12. ASSUME NEW t \in Threads, SaveRemote(t)
         PROVE  ForwardersWhole' /\ WritersKnown'
    <2>1. [at |-> "broker"].at # "write"
      OBVIOUS
    <2> QED  BY <1>12, <2>1, <1>6 DEF SaveRemote, Continue, Then, dnsVars
  <1> QED  BY <1>1, <1>2, <1>8, <1>9, <1>10, <1>11, <1>12 DEF Next

----------------------------------------------------------------------------
\* The authority: it goes only by delete_ca, which takes note of a setting
\* or an update that it overtakes.
LEMMA AuthorityStep ==
  ASSUME IInv, Next
  PROVE  EnabledHasCa' /\ ChecksHold'
  <1> DEFINE Backed == get_status = "ready" \/ "ca" \in damaged \/ "bus" \in damaged
  <1>t. /\ TypeOK /\ thread \in [Threads -> Todo]
        /\ enabled => Backed
        /\ \A t \in Threads : thread[t].at = "remote" /\ thread[t].enable => mqtt /\ Backed
    BY DEF IInv, ThreadsOK, EnabledHasCa, ChecksHold
  <1>g. /\ enabled' => Backed'
        /\ \A t \in Threads : thread'[t].at = "remote" /\ thread'[t].enable => mqtt' /\ Backed'
        => EnabledHasCa' /\ ChecksHold'
    BY DEF EnabledHasCa, ChecksHold
  <1>k. ASSUME Backed => Backed', enabled' = enabled, mqtt' = mqtt,
               \A u \in Threads : thread'[u].at = "remote" => thread'[u] = thread[u]
        PROVE  EnabledHasCa' /\ ChecksHold'
    <2> HIDE DEF Backed
    <2> QED  BY <1>k, <1>g, <1>t
  <1>s. ASSUME UNCHANGED <<ca, server>>, damaged \subseteq damaged'
        PROVE  Backed => Backed'
    BY <1>s DEF get_status
  <1>i. Idle.at = "idle"
    BY DEF Idle
  <1>1. CASE GenCa \/ GenServer
    <2>1. Backed => Backed'
      BY <1>1, <1>t DEF GenCa, GenServer, get_status, dnsVars, TypeOK
    <2> QED  BY <1>1, <2>1, <1>k DEF GenCa, GenServer
  <1>2. CASE Crash
    <2>1. (Backed => Backed') /\ \A u \in Threads : thread'[u].at # "remote"
      BY <1>2, <1>s, <1>i DEF Crash
    <2> HIDE DEF Backed
    <2> QED  BY <1>2, <2>1, <1>g, <1>t DEF Crash
  <1>3. ASSUME NEW t \in Threads, DnsStep(t), UNCHANGED remoteVars
        PROVE  EnabledHasCa' /\ ChecksHold'
    <2>1. damaged \subseteq damaged'
      BY <1>3 DEF DnsStep, add_forwarder, set_forwarder, OpenForwarder, WriteForwarder, WriteUnlinked,
        del_forwarder, DeleteForwarder, ListingFails, dns_update_settings, SaveForwarder,
        RestartResolver, dnsVars
    <2>2. \A u \in Threads : thread'[u].at = "remote" => thread'[u] = thread[u]
      <3>1. ASSUME NEW next, next.at # "remote", thread' = thread \/ thread' = [thread EXCEPT ![t] = next]
            PROVE  \A u \in Threads : thread'[u].at = "remote" => thread'[u] = thread[u]
        BY <3>1, <1>t
      <3>2. /\ At(thread[t], "write").at # "remote"
            /\ \A u \in Threads : At(thread[u], "write_unlinked").at # "remote"
            /\ [at |-> "restart_resolver"].at # "remote"
            /\ \A n : [at |-> "unlink", name |-> n].at # "remote"
            /\ \A n : [at |-> "resolver", name |-> n].at # "remote"
            /\ \A n, x : [at |-> "open", name |-> n, text |-> x].at # "remote"
        BY DEF At
      <3>3. CASE DeleteForwarder(t)
        BY <3>2, <3>3, <1>i DEF DeleteForwarder
      <3>4. CASE OpenForwarder(t) \/ WriteForwarder(t) \/ WriteUnlinked(t) \/ ListingFails(t)
                   \/ SaveForwarder(t)
        BY <3>1, <3>2, <3>4, <1>i
           DEF OpenForwarder, WriteForwarder, WriteUnlinked, ListingFails, SaveForwarder, Then
      <3>5. ASSUME NEW n, NEW x, add_forwarder(t, n, x) \/ set_forwarder(t, n, x)
            PROVE  \A u \in Threads : thread'[u].at = "remote" => thread'[u] = thread[u]
        <4>1. \/ thread' = thread \/ thread' = [thread EXCEPT ![t] = Idle]
              \/ thread' = [thread EXCEPT ![t] = [at |-> "open", name |-> n, text |-> x]]
          BY <3>5 DEF add_forwarder, set_forwarder, Then
        <4> QED  BY <4>1, <3>1, <3>2, <1>i
      <3>6. ASSUME NEW n, del_forwarder(t, n) \/ dns_update_settings(t, n)
            PROVE  \A u \in Threads : thread'[u].at = "remote" => thread'[u] = thread[u]
        BY <3>1, <3>2, <3>6 DEF del_forwarder, dns_update_settings, Then
      <3>7. ASSUME NEW ok, RestartResolver(t, ok)
            PROVE  \A u \in Threads : thread'[u].at = "remote" => thread'[u] = thread[u]
        BY <3>1, <3>7, <1>i DEF RestartResolver, Then
      <3> QED  BY <1>3, <3>3, <3>4, <3>5, <3>6, <3>7 DEF DnsStep
    <2> QED  BY <1>3, <2>1, <2>2, <1>k, <1>s DEF remoteVars
  <1>4. ASSUME NEW t \in Threads, generate_ca(t)
        PROVE  EnabledHasCa' /\ ChecksHold'
    <2>1. Backed => Backed'
      BY <1>4, <1>t DEF generate_ca, get_status, dnsVars, TypeOK
    <2> QED  BY <1>4, <2>1, <1>k DEF generate_ca
  <1>5. ASSUME NEW t \in Threads, delete_ca(t)
        PROVE  EnabledHasCa' /\ ChecksHold'
    <2>1. [at |-> "drop_ca"].at # "remote"
      OBVIOUS
    <2> QED  BY <1>5, <2>1, <1>t, <1>k, <1>s DEF delete_ca, Then, dnsVars, remoteVars
  <1>6. ASSUME NEW t \in Threads, NEW ok \in BOOLEAN, DropCa(t, ok)
        PROVE  EnabledHasCa' /\ ChecksHold'
    <2>1. /\ mqtt' = mqtt /\ enabled' = enabled
          /\ thread' = [thread EXCEPT ![t] = Idle]
          /\ damaged \subseteq damaged'
      BY <1>6 DEF DropCa, Then
    <2>2. \A u \in Threads : thread'[u].at = "remote" => u # t /\ thread'[u] = thread[u]
      BY <2>1, <1>t, <1>i
    <2>3. CASE ~ok
      <3>1. UNCHANGED <<ca, server>>
        BY <1>6, <2>3, <1>t DEF DropCa, TypeOK
      <3> QED  BY <2>1, <2>2, <3>1, <1>k, <1>s
    <2>4. CASE ok
      <3>1. /\ enabled => "ca" \in damaged' \/ "bus" \in damaged'
            /\ (\E u \in Threads \ {t} : thread[u].at = "remote" /\ thread[u].enable) => "ca" \in damaged'
        BY <1>6, <2>4 DEF DropCa, get_settings_enabled
      <3> QED  BY <2>1, <2>2, <3>1, <1>g, <1>t
    <2> QED  BY <2>3, <2>4
  <1>7. ASSUME NEW t \in Threads, NEW want \in BOOLEAN, remote_update_settings(t, want)
        PROVE  EnabledHasCa' /\ ChecksHold'
    <2> DEFINE next == [at |-> "remote", enable |-> MayEnable(want)]
    <2>1. Backed' = Backed /\ UNCHANGED <<enabled, mqtt>> /\ thread' = [thread EXCEPT ![t] = next]
      BY <1>7 DEF remote_update_settings, Then, dnsVars, remoteVars, get_status
    <2>2. next.enable = MayEnable(want)
      OBVIOUS
    <2>3. MayEnable(want) => mqtt /\ Backed
      BY DEF MayEnable
    <2> HIDE DEF Backed, next
    <2>4. \A u \in Threads : thread'[u].at = "remote" /\ thread'[u].enable => mqtt' /\ Backed'
      BY <2>1, <2>2, <2>3, <1>t
    <2> QED  BY <2>1, <2>4, <1>t, <1>g
  <1>8. ASSUME NEW t \in Threads, SaveRemote(t)
        PROVE  EnabledHasCa' /\ ChecksHold'
    <2>1. /\ Backed' = Backed /\ mqtt' = mqtt /\ enabled' = thread[t].enable /\ thread[t].at = "remote"
          /\ thread' = [thread EXCEPT ![t] = [at |-> "broker"]]
      BY <1>8 DEF SaveRemote, Then, Continue, dnsVars, get_status
    <2>2. [at |-> "broker"].at # "remote"
      OBVIOUS
    <2> HIDE DEF Backed
    <2>3. \A u \in Threads : thread'[u].at = "remote" => thread'[u] = thread[u]
      BY <2>1, <2>2, <1>t
    <2> QED  BY <2>1, <2>3, <1>t, <1>g
  <1>9. ASSUME NEW t \in Threads, NEW ok \in BOOLEAN, RestartBroker(t, ok)
        PROVE  EnabledHasCa' /\ ChecksHold'
    BY <1>9, <1>t, <1>k, <1>s, <1>i DEF RestartBroker, Then
  <1> QED  BY <1>1, <1>2, <1>3, <1>4, <1>5, <1>6, <1>7, <1>8, <1>9 DEF Next

----------------------------------------------------------------------------
\* The broker is only on the way to a restart after a transaction that kept
\* remote access off on another bus.
LEMMA BrokerStep ==
  ASSUME IInv, Next
  PROVE  BrokerKnown'
  <1>t. /\ thread \in [Threads -> Todo]
        /\ \A t \in Threads : thread[t].at = "broker" /\ enabled => mqtt
        /\ \A t \in Threads : thread[t].at = "remote" /\ thread[t].enable => mqtt
        /\ Idle.at # "broker"
    BY DEF IInv, ThreadsOK, BrokerKnown, ChecksHold, Idle
  <1>k. ASSUME UNCHANGED <<enabled, mqtt>>,
               \A u \in Threads : thread'[u].at = "broker" => thread[u].at = "broker"
        PROVE  BrokerKnown'
    BY <1>k, <1>t DEF BrokerKnown
  <1>u. ASSUME NEW t \in Threads, NEW next, next.at # "broker",
               thread' = thread \/ thread' = [thread EXCEPT ![t] = next]
        PROVE  \A u \in Threads : thread'[u].at = "broker" => thread[u].at = "broker"
    BY <1>u, <1>t
  <1>1. CASE GenCa \/ GenServer
    BY <1>1, <1>k DEF GenCa, GenServer
  <1>2. CASE Crash
    BY <1>2, <1>t DEF Crash, BrokerKnown
  <1>3. ASSUME NEW t \in Threads, DnsStep(t), UNCHANGED remoteVars
        PROVE  BrokerKnown'
    <2>1. /\ At(thread[t], "write").at # "broker"
          /\ \A u \in Threads : At(thread[u], "write_unlinked").at # "broker"
          /\ [at |-> "restart_resolver"].at # "broker"
          /\ \A n : [at |-> "unlink", name |-> n].at # "broker"
          /\ \A n : [at |-> "resolver", name |-> n].at # "broker"
          /\ \A n, x : [at |-> "open", name |-> n, text |-> x].at # "broker"
      BY DEF At
    <2>2. CASE DeleteForwarder(t)
      BY <2>1, <2>2, <1>3, <1>t, <1>k DEF DeleteForwarder, remoteVars
    <2>3. CASE OpenForwarder(t) \/ WriteForwarder(t) \/ WriteUnlinked(t) \/ ListingFails(t)
                 \/ SaveForwarder(t)
      <3>1. \E next : next.at # "broker" /\ (thread' = thread \/ thread' = [thread EXCEPT ![t] = next])
        BY <2>1, <2>3, <1>t
           DEF OpenForwarder, WriteForwarder, WriteUnlinked, ListingFails, SaveForwarder, Then
      <3> QED  BY <3>1, <1>3, <1>u, <1>k DEF remoteVars
    <2>4. ASSUME NEW n, NEW x, add_forwarder(t, n, x) \/ set_forwarder(t, n, x)
          PROVE  BrokerKnown'
      <3>1. \/ thread' = thread \/ thread' = [thread EXCEPT ![t] = Idle]
            \/ thread' = [thread EXCEPT ![t] = [at |-> "open", name |-> n, text |-> x]]
        BY <2>4 DEF add_forwarder, set_forwarder, Then
      <3> QED  BY <3>1, <2>1, <1>3, <1>t, <1>u, <1>k DEF remoteVars
    <2>5. ASSUME NEW n, del_forwarder(t, n) \/ dns_update_settings(t, n)
          PROVE  BrokerKnown'
      <3>1. \E next : next.at # "broker" /\ (thread' = thread \/ thread' = [thread EXCEPT ![t] = next])
        BY <2>1, <2>5, <1>t DEF del_forwarder, dns_update_settings, Then
      <3> QED  BY <3>1, <1>3, <1>u, <1>k DEF remoteVars
    <2>6. ASSUME NEW ok, RestartResolver(t, ok)
          PROVE  BrokerKnown'
      BY <2>6, <1>3, <1>t, <1>u, <1>k DEF RestartResolver, Then, remoteVars
    <2> QED  BY <1>3, <2>2, <2>3, <2>4, <2>5, <2>6 DEF DnsStep
  <1>4. ASSUME NEW t \in Threads, generate_ca(t) \/ delete_ca(t)
        PROVE  BrokerKnown'
    <2>1. [at |-> "drop_ca"].at # "broker"
      OBVIOUS
    <2>2. UNCHANGED <<enabled, mqtt>>
          /\ (thread' = thread \/ thread' = [thread EXCEPT ![t] = [at |-> "drop_ca"]])
      BY <1>4 DEF generate_ca, delete_ca, Then, remoteVars
    <2> QED  BY <2>1, <2>2, <1>u, <1>k
  <1>5. ASSUME NEW t \in Threads, NEW ok \in BOOLEAN, DropCa(t, ok) \/ RestartBroker(t, ok)
        PROVE  BrokerKnown'
    BY <1>5, <1>t, <1>u, <1>k DEF DropCa, RestartBroker, Then
  <1>6. ASSUME NEW t \in Threads, NEW want \in BOOLEAN, remote_update_settings(t, want)
        PROVE  BrokerKnown'
    <2>1. \A x : [at |-> "remote", enable |-> x].at # "broker"
      OBVIOUS
    <2> QED  BY <1>6, <2>1, <1>u, <1>k DEF remote_update_settings, Then, remoteVars
  <1>7. ASSUME NEW t \in Threads, SaveRemote(t)
        PROVE  BrokerKnown'
    <2>1. enabled' = thread[t].enable /\ thread[t].at = "remote" /\ mqtt' = mqtt
      BY <1>7 DEF SaveRemote, Continue
    <2> QED  BY <2>1, <1>t DEF BrokerKnown
  <1> QED  BY <1>1, <1>2, <1>3, <1>4, <1>5, <1>6, <1>7 DEF Next

----------------------------------------------------------------------------
\* The services: whoever saves has the restart to do, and a restart reads
\* what is saved at that moment.
LEMMA RestartsStep ==
  ASSUME IInv, Next
  PROVE  RestartsDue'
  <1>t. RestartsDue /\ thread \in [Threads -> Todo]
    BY DEF IInv, ThreadsOK
  <1> DEFINE Due == {"restart_resolver", "broker"}
  <1>k. ASSUME UNCHANGED <<custom, resolver, enabled, broker>>, damaged \subseteq damaged',
               \A u \in Threads : thread[u].at \in Due => thread'[u] = thread[u]
        PROVE  RestartsDue'
    BY <1>k, <1>t DEF RestartsDue
  <1>l. ASSUME NEW t \in Threads, thread[t].at \notin Due,
               thread' = thread \/ \E next : thread' = [thread EXCEPT ![t] = next]
        PROVE  \A u \in Threads : thread[u].at \in Due => thread'[u] = thread[u]
    BY <1>l, <1>t
  <1>i. Idle.at \notin Due
    BY DEF Idle
  <1> HIDE DEF Due
  <1>1. CASE GenCa \/ GenServer
    BY <1>1, <1>k DEF GenCa, GenServer, dnsVars
  <1>2. CASE Crash
    BY <1>2 DEF Crash, RestartsDue
  <1>3. ASSUME NEW t \in Threads, NewRequest(t), UNCHANGED <<dnsVars, enabled, broker>>,
               thread' = thread \/ \E next : thread' = [thread EXCEPT ![t] = next]
        PROVE  RestartsDue'
    BY <1>3, <1>k, <1>l, <1>i DEF NewRequest, dnsVars
  <1>4. ASSUME NEW t \in Threads, DnsStep(t), UNCHANGED remoteVars
        PROVE  RestartsDue'
    <2>1. CASE OpenForwarder(t) \/ WriteForwarder(t) \/ WriteUnlinked(t)
      <3>1. thread[t].at \notin Due
        BY <2>1 DEF OpenForwarder, WriteForwarder, WriteUnlinked, Continue, Due
      <3>2. \E next : thread' = [thread EXCEPT ![t] = next]
        BY <2>1 DEF OpenForwarder, WriteForwarder, WriteUnlinked, Then
      <3>3. UNCHANGED <<custom, resolver, enabled, broker>> /\ damaged \subseteq damaged'
        BY <2>1, <1>4 DEF OpenForwarder, WriteForwarder, WriteUnlinked, dnsVars, remoteVars
      <3> QED  BY <3>1, <3>2, <3>3, <1>k, <1>l
    <2>2. CASE DeleteForwarder(t)
      <3>1. \A u \in Threads : thread[u].at \in Due => thread'[u] = thread[u]
        BY <2>2 DEF DeleteForwarder, Continue, Due
      <3> QED  BY <2>2, <3>1, <1>4, <1>k DEF DeleteForwarder, remoteVars
    <2>3. CASE SaveForwarder(t)
      <3>1. thread'[t].at = "restart_resolver"
        BY <2>3, <1>t DEF SaveForwarder, Then
      <3>2. \A u \in Threads : thread[u].at = "broker" => thread'[u] = thread[u]
        BY <2>3, <1>t DEF SaveForwarder, Continue, Then
      <3> QED  BY <2>3, <3>1, <3>2, <1>4, <1>t DEF SaveForwarder, RestartsDue, remoteVars
    <2>4. ASSUME NEW ok \in BOOLEAN, RestartResolver(t, ok)
          PROVE  RestartsDue'
      <3>1. \A u \in Threads : thread[u].at = "broker" => thread'[u] = thread[u]
        BY <2>4, <1>t DEF RestartResolver, Continue, Then
      <3> QED  BY <2>4, <3>1, <1>4, <1>t DEF RestartResolver, RestartsDue, remoteVars
    <2>5. ASSUME NEW n, NEW x, add_forwarder(t, n, x) \/ set_forwarder(t, n, x)
          PROVE  RestartsDue'
      <3>1. thread' = thread \/ \E next : thread' = [thread EXCEPT ![t] = next]
        BY <2>5 DEF add_forwarder, set_forwarder, Then
      <3> QED  BY <2>5, <3>1, <1>4, <1>3 DEF add_forwarder, set_forwarder, remoteVars
    <2>6. ASSUME NEW n, del_forwarder(t, n) \/ dns_update_settings(t, n)
          PROVE  RestartsDue'
      <3>1. thread' = thread \/ \E next : thread' = [thread EXCEPT ![t] = next]
        BY <2>6 DEF del_forwarder, dns_update_settings, Then
      <3> QED  BY <2>6, <3>1, <1>4, <1>3 DEF del_forwarder, dns_update_settings, remoteVars
    <2>7. CASE ListingFails(t)
      BY <2>7, <1>4, <1>3 DEF ListingFails, remoteVars
    <2> QED  BY <1>4, <2>1, <2>2, <2>3, <2>4, <2>5, <2>6, <2>7 DEF DnsStep
  <1>5. ASSUME NEW t \in Threads, generate_ca(t)
        PROVE  RestartsDue'
    BY <1>5, <1>3 DEF generate_ca
  <1>6. ASSUME NEW t \in Threads, delete_ca(t)
        PROVE  RestartsDue'
    <2>1. thread' = thread \/ \E next : thread' = [thread EXCEPT ![t] = next]
      BY <1>6 DEF delete_ca, Then
    <2> QED  BY <1>6, <2>1, <1>3 DEF delete_ca, remoteVars
  <1>7. ASSUME NEW t \in Threads, NEW ok \in BOOLEAN, DropCa(t, ok)
        PROVE  RestartsDue'
    <2>1. thread[t].at \notin Due /\ \E next : thread' = [thread EXCEPT ![t] = next]
      BY <1>7 DEF DropCa, Continue, Then, Due
    <2> QED  BY <1>7, <2>1, <1>k, <1>l DEF DropCa
  <1>8. ASSUME NEW t \in Threads, NEW want \in BOOLEAN, remote_update_settings(t, want)
        PROVE  RestartsDue'
    <2>1. \E next : thread' = [thread EXCEPT ![t] = next]
      BY <1>8 DEF remote_update_settings, Then
    <2> QED  BY <1>8, <2>1, <1>3 DEF remote_update_settings, remoteVars
  <1>9. ASSUME NEW t \in Threads, SaveRemote(t)
        PROVE  RestartsDue'
    <2>1. thread'[t].at = "broker"
      BY <1>9, <1>t DEF SaveRemote, Then
    <2>2. \A u \in Threads : thread[u].at = "restart_resolver" => thread'[u] = thread[u]
      BY <1>9, <1>t DEF SaveRemote, Continue, Then
    <2> QED  BY <1>9, <2>1, <2>2, <1>t DEF SaveRemote, RestartsDue, dnsVars
  <1>10. ASSUME NEW t \in Threads, NEW ok \in BOOLEAN, RestartBroker(t, ok)
         PROVE  RestartsDue'
    <2>1. \A u \in Threads : thread[u].at = "restart_resolver" => thread'[u] = thread[u]
      BY <1>10, <1>t DEF RestartBroker, Continue, Then
    <2>2. ok => broker' = enabled'
      <3>1. enabled => mqtt
        BY <1>10 DEF IInv, BrokerKnown, RestartBroker, Continue
      <3> QED  BY <1>10, <3>1 DEF IInv, TypeOK, RestartBroker
    <2> QED  BY <1>10, <2>1, <2>2, <1>t DEF RestartBroker, RestartsDue
  <1> QED  BY <1>1, <1>2, <1>4, <1>5, <1>6, <1>7, <1>8, <1>9, <1>10 DEF Next

----------------------------------------------------------------------------
\* IInv is an invariant of the DNS and remote access settings.
THEOREM RemoteInvariant == Spec => []IInv
  <1>1. Init => IInv
    <2> SUFFICES ASSUME Init PROVE IInv
      OBVIOUS
    <2>0. Idle \in Todo /\ Idle.at = "idle"
      BY DEF Todo, Idle
    <2>1. ThreadsOK /\ \A t \in Threads : thread[t].at = "idle"
      BY <2>0 DEF Init, ThreadsInit, ThreadsOK
    <2>2. TypeOK
      BY DEF Init, DnsInit, TypeOK, DnsTypeOK, AllNames
    <2>3. ForwardersWhole
      BY ForwardersAssumption DEF Init, DnsInit, ForwardersWhole, AllNames, Vendor, Partial
    <2>4. WritersKnown /\ ChecksHold /\ BrokerKnown
      BY <2>1 DEF WritersKnown, ChecksHold, BrokerKnown
    <2>5. EnabledHasCa /\ RestartsDue
      BY DEF Init, DnsInit, EnabledHasCa, RestartsDue
    <2> QED  BY <2>1, <2>2, <2>3, <2>4, <2>5 DEF IInv
  <1>2. IInv /\ [Next]_vars => IInv'
    <2> SUFFICES ASSUME IInv, [Next]_vars PROVE IInv'
      OBVIOUS
    <2>1. CASE Next
      BY <2>1, ThreadsStep, TypeStep, FilesStep, AuthorityStep, BrokerStep, RestartsStep DEF IInv
    <2>2. CASE UNCHANGED vars
      <3>1. TypeOK' /\ ThreadsOK'
        BY <2>2 DEF vars, dnsVars, remoteVars, IInv, TypeOK, DnsTypeOK, ThreadsOK
      <3>2. ForwardersWhole' /\ WritersKnown'
        BY <2>2 DEF vars, dnsVars, IInv, ForwardersWhole, WritersKnown, Harmed
      <3>3. EnabledHasCa' /\ ChecksHold' /\ BrokerKnown' /\ RestartsDue'
        BY <2>2 DEF vars, dnsVars, remoteVars, IInv, EnabledHasCa, ChecksHold, BrokerKnown, get_status,
               RestartsDue
      <3> QED  BY <3>1, <3>2, <3>3 DEF IInv
    <2> QED  BY <2>1, <2>2
  <1> QED  BY <1>1, <1>2, PTL DEF Spec

\* The files, the settings and the authority only take the values that the
\* code of the two modules gives them.
THEOREM RemoteTypes == Spec => []TypeOK
  <1>1. IInv => TypeOK
    BY DEF IInv
  <1> QED  BY <1>1, RemoteInvariant, PTL

\* A forwarder file is incomplete only while it is written, after a crash or
\* after overlapping writes, and the system's own file is never written.
THEOREM RemoteForwardersWhole == Spec => []ForwardersWhole
  <1>1. IInv => ForwardersWhole
    BY DEF IInv
  <1> QED  BY <1>1, RemoteInvariant, PTL

\* Remote access is on only on the MQTT bus and with a certificate authority,
\* unless delete_ca overlapped with an update of the settings.
THEOREM RemoteEnabledHasCa == Spec => []EnabledHasCa
  <1>1. IInv => EnabledHasCa
    BY DEF IInv
  <1> QED  BY <1>1, RemoteInvariant, PTL

\* With all requests over and no restart failed, the resolver and the broker
\* run the settings that were saved last.
THEOREM RemoteServicesRunSaved == Spec => []ServicesRunSaved
  <1>1. IInv => ServicesRunSaved
    <2> SUFFICES ASSUME RestartsDue, Quiet PROVE ServicesRunSaved
      BY DEF IInv, ServicesRunSaved
    <2>0. Idle.at = "idle"
      BY DEF Idle
    <2>1. \A t \in Threads : thread[t].at = "idle"
      BY <2>0 DEF Quiet
    <2> QED  BY <2>1 DEF RestartsDue, ServicesRunSaved
  <1> QED  BY <1>1, RemoteInvariant, PTL
=============================================================================
