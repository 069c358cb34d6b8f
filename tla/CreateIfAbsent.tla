---------------------------- MODULE CreateIfAbsent ----------------------------
(***************************************************************************)
(* What `tanzu apps workload create` promises, stated over the cluster     *)
(* alone: each invocation ends once, and it reports that it created a      *)
(* workload only if, in one atomic step, it stored its workload under a    *)
(* namespace/name that was free.  The existence check, the prompts, the    *)
(* push of local source and the wait of the real command are not visible   *)
(* here; the controller and other users act on the store as they do in    *)
(* WorkloadCreate.                                                          *)
(***************************************************************************)
CONSTANTS
    Clients,      \* invocations of the command
    Keys,         \* namespace/name keys
    Other,        \* any actor that is not one of Clients
    NoWorkload    \* no workload stored under a key

VARIABLES
    wl,           \* the workload stored under each key: creator and Ready
    created,      \* invocations that reported "Created workload"
    finished      \* invocations that have done their create or given up

avars == <<wl, created, finished>>

Workload == [creator: Clients \cup {Other}, ready: {"Unknown", "True", "False"}]

Init ==
    /\ wl = [k \in Keys |-> NoWorkload]
    /\ created = {}
    /\ finished = {}

\* The invocation stores its workload under a free key and reports it.
CreateAt(c, k) ==
    /\ c \notin finished
    /\ wl[k] = NoWorkload
    /\ wl' = [wl EXCEPT ![k] = [creator |-> c, ready |-> "Unknown"]]
    /\ created' = created \cup {c}
    /\ finished' = finished \cup {c}

\* The invocation ends without creating anything.
GiveUp(c) ==
    /\ c \notin finished
    /\ finished' = finished \cup {c}
    /\ UNCHANGED <<wl, created>>

Invocation(c) == GiveUp(c) \/ \E k \in Keys: CreateAt(c, k)

\* The controller sets the Ready condition of a stored workload.
Reconcile(k) ==
    /\ wl[k] # NoWorkload
    /\ wl[k].ready = "Unknown"
    /\ \E r \in {"True", "False"}: wl' = [wl EXCEPT ![k].ready = r]
    /\ UNCHANGED <<created, finished>>

\* Another user deletes a workload, or creates one under a free key.
Delete(k) ==
    /\ wl[k] # NoWorkload
    /\ wl' = [wl EXCEPT ![k] = NoWorkload]
    /\ UNCHANGED <<created, finished>>

OtherCreates(k) ==
    /\ wl[k] = NoWorkload
    /\ wl' = [wl EXCEPT ![k] = [creator |-> Other, ready |-> "Unknown"]]
    /\ UNCHANGED <<created, finished>>

Next ==
    \/ \E c \in Clients: Invocation(c)
    \/ \E k \in Keys: Reconcile(k) \/ Delete(k) \/ OtherCreates(k)

SafetySpec == Init /\ [][Next]_avars

\* Every invocation ends: it is a process that keeps running.
Spec == SafetySpec /\ \A c \in Clients: WF_avars(Invocation(c))

=============================================================================
