----------------------------- MODULE Forwarders -----------------------------
(***************************************************************************)
(* The DNS settings: the forwarder files under /etc/resolver/dns_servers   *)
(* and the resolver options that name one of them.                         *)
(*                                                                         *)
(* Writers of the files take file_lock as readers, so they exclude nobody: *)
(* open(..., "w") empties a file in one step and the text arrives in a     *)
(* later one.                                                              *)
(***************************************************************************)
EXTENDS RequestThreads

CONSTANTS
  Names,    \* names of forwarders that users add (a hash of the first text)
  Texts     \* texts a user may store

\* A hash is no name of the system's own files, and what an unfinished write
\* leaves behind is no text of a forwarder.
ASSUME ForwardersAssumption ==
  /\ "vendor" \notin Names
  /\ Texts \cap {"vendor", "empty", "mixed", "absent"} = {}

VARIABLES
  file,     \* file of each forwarder: a text, "empty", "mixed" or "absent"
  custom,   \* option forward_custom of the saved settings, "" for none
  resolver, \* forward_custom that the running resolver was started with
  damaged   \* history: what overlapping writers, crashes and failures touched

dnsVars == <<file, custom, resolver, damaged>>

Vendor == "vendor"      \* a forwarder that came with the system, not editable
AllNames == Names \cup {Vendor}
Partial == {"empty", "mixed"}

DnsInit ==
  /\ file = [n \in AllNames |-> IF n = Vendor THEN "vendor" ELSE "absent"]
  /\ custom = ""
  /\ resolver = ""
  /\ damaged = {}

----------------------------------------------------------------------------
\* get_available_forwarders(): the files are listed, then read one by one

path_exists(n) == file[n] # "absent"

\* An empty file has no description, and a listed file may be gone when it
\* is opened: the handler raises.
ListRaises(t) ==
  (\E n \in AllNames : file[n] = "empty") \/ OtherIsAt(t, {"unlink"})
ListReads == \A n \in AllNames : file[n] # "empty"

\* only the name decides, and any name may be edited
EditableAny(n) == path_exists(n)
Editable(n) == path_exists(n) /\ file[n] # "vendor"

----------------------------------------------------------------------------
\* add_forwarder and set_forwarder

add_forwarder(t, n, text) ==
  /\ NewRequest(t)
  /\ Then(t, IF path_exists(n) THEN Idle ELSE [at |-> "open", name |-> n, text |-> text])
  /\ UNCHANGED dnsVars

set_forwarder(t, n, text) ==
  /\ NewRequest(t)
  /\ IF path_exists(n) /\ ListReads /\ Editable(n)
     THEN Then(t, [at |-> "open", name |-> n, text |-> text])
     ELSE UNCHANGED thread
  /\ UNCHANGED dnsVars

\* what is left of a write: its place in the code changes, its values stay
At(r, at) == [at |-> at, name |-> r.name, text |-> r.text]

\* open(path, "w")
OpenForwarder(t) ==
  /\ Continue(t, "open")
  /\ file' = [file EXCEPT ![thread[t].name] = "empty"]
  /\ damaged' = IF \E u \in Threads \ {t} :
                     thread[u].at \in {"open", "write"} /\ thread[u].name = thread[t].name
                THEN damaged \cup {thread[t].name} ELSE damaged
  /\ Then(t, At(thread[t], "write"))
  /\ UNCHANGED <<custom, resolver>>

\* write() and close(): over a text that another writer has put there, the
\* longer one shows through
WriteForwarder(t) ==
  /\ Continue(t, "write")
  /\ \E text \in {thread[t].text} \cup
                 (IF file[thread[t].name] \in {"empty", thread[t].text} THEN {} ELSE {"mixed"}) :
       file' = [file EXCEPT ![thread[t].name] = text]
  /\ Then(t, Idle)
  /\ UNCHANGED <<custom, resolver, damaged>>

\* the open file was unlinked: the text goes nowhere
WriteUnlinked(t) ==
  /\ Continue(t, "write_unlinked")
  /\ Then(t, Idle)
  /\ UNCHANGED dnsVars

----------------------------------------------------------------------------
\* del_forwarder: whether the forwarder is in use is not looked at

del_forwarder(t, n) ==
  /\ NewRequest(t)
  /\ IF path_exists(n) /\ ListReads /\ Editable(n)
     THEN Then(t, [at |-> "unlink", name |-> n])
     ELSE UNCHANGED thread
  /\ UNCHANGED dnsVars

\* unlink() raises when another request was faster
DeleteForwarder(t) ==
  /\ Continue(t, "unlink")
  /\ file' = [file EXCEPT ![thread[t].name] = "absent"]
  /\ thread' = [u \in Threads |->
       IF u = t THEN Idle
       ELSE IF thread[u].at = "write" /\ thread[u].name = thread[t].name
            THEN At(thread[u], "write_unlinked")
       ELSE thread[u]]
  /\ UNCHANGED <<custom, resolver, damaged>>

\* A listing meets an empty file or one that has just gone.
ListingFails(t) ==
  /\ NewRequest(t)
  /\ ListRaises(t)
  /\ UNCHANGED <<thread, dnsVars>>

----------------------------------------------------------------------------
\* update_settings

dns_update_settings(t, n) ==
  /\ NewRequest(t)
  /\ IF n = "" \/ (ListReads /\ path_exists(n))
     THEN Then(t, [at |-> "resolver", name |-> n])
     ELSE UNCHANGED thread
  /\ UNCHANGED dnsVars

\* the resolver is restarted before the transaction is committed
SaveForwarderRestarting(t) ==
  /\ Continue(t, "resolver")
  /\ custom' = thread[t].name
  /\ resolver' = custom
  /\ Then(t, Idle)
  /\ UNCHANGED <<file, damaged>>

\* the transaction
SaveForwarder(t) ==
  /\ Continue(t, "resolver")
  /\ custom' = thread[t].name
  /\ Then(t, [at |-> "restart_resolver"])
  /\ UNCHANGED <<file, resolver, damaged>>

\* services.restart("resolver") under services_lock; a failure raises
RestartResolver(t, ok) ==
  /\ Continue(t, "restart_resolver")
  /\ resolver' = IF ok THEN custom ELSE resolver
  /\ damaged' = IF ok THEN damaged ELSE damaged \cup {"resolver"}
  /\ Then(t, Idle)
  /\ UNCHANGED <<file, custom>>

DnsStep(t) ==
  \/ \E n \in Names, text \in Texts : add_forwarder(t, n, text)
  \/ \E n \in AllNames, text \in Texts : set_forwarder(t, n, text)
  \/ OpenForwarder(t)
  \/ WriteForwarder(t)
  \/ WriteUnlinked(t)
  \/ \E n \in AllNames : del_forwarder(t, n)
  \/ DeleteForwarder(t)
  \/ ListingFails(t)
  \/ \E n \in AllNames \cup {""} : dns_update_settings(t, n)
  \/ SaveForwarder(t)
  \/ \E ok \in BOOLEAN : RestartResolver(t, ok)

----------------------------------------------------------------------------
DnsTypeOK ==
  /\ file \in [AllNames -> Texts \cup {"vendor", "empty", "mixed", "absent"}]
  /\ custom \in AllNames \cup {""}
  /\ damaged \subseteq AllNames \cup {"resolver", "broker", "crash", "ca", "bus"}

\* A forwarder file is incomplete only while a request writes it, and stays
\* so only after a crash in the middle of a write or after two requests wrote
\* it at the same time; one incomplete file makes every listing raise, with
\* it get_settings and update_settings.  What came with the system is never
\* written.
ForwardersWhole ==
  /\ file[Vendor] = "vendor"
  /\ \A n \in Names : file[n] \in Partial =>
       \/ "crash" \in damaged \/ n \in damaged
       \/ \E t \in Threads : thread[t].at = "write" /\ thread[t].name = n
=============================================================================
