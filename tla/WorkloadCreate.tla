--------------------------- MODULE WorkloadCreate ---------------------------
(***************************************************************************)
(* `tanzu apps workload create` (pkg/commands/workload_create.go, Exec and *)
(* the WorkloadOptions helpers it calls in workload.go), run by several    *)
(* users at once against one cluster and one image registry.               *)
(*                                                                         *)
(* Each client is one invocation of the command.  Its Exec is cut into the *)
(* segments between the calls it makes to the cluster or the registry, as  *)
(* those are the points where other actors interleave:                     *)
(*   load  -> ExecLoadAndGet       (file/stdin, c.Get, namespace lookup)   *)
(*   prepare -> ExecApplyAndValidate (ApplyOptionsToWorkload, Validate,    *)
(*                                    dry run)                             *)
(*   publish -> PublishLocalSource   (prompt, imgpkg push of --local-path) *)
(*   create  -> Create               (prompt, c.Create)                    *)
(*   wait    -> WaitUntilCondition | TailWorker | RaceDeadline (wait.Race) *)
(* The environment is the Cartographer controller setting the Ready        *)
(* condition, other users creating and deleting workloads, and other users *)
(* pushing to the same source-image tag.                                   *)
(*                                                                         *)
(* Data is abstracted to what the properties tell apart: a workload is the *)
(* client that created it, its source image and its Ready condition; the   *)
(* source a client publishes is identified with the client itself, and an  *)
(* image digest with the content it was computed from.                     *)
(***************************************************************************)
EXTENDS Naturals, FiniteSets

CONSTANTS
    Clients,      \* concurrent invocations of the create command
    Namespaces,   \* namespaces of the cluster, existing or not
    LiveNamespaces, \* the namespaces that exist
    Names,        \* workload names
    Tags,         \* source-image repositories:tags (--source-image)
    Other,        \* any actor that is not one of Clients
    NoWorkload,   \* no workload stored under a name
    NoTag,        \* --source-image not given
    NoNamespace,  \* the input file's workload has no namespace
    NoOne,        \* the client has not observed a Ready workload
    \* the invocations the model enumerates: values of the flags
    Inputs,       \* SUBSET {"flags", "file", "stdin"}: --file absent, a path, "-"
    LocalKinds,   \* SUBSET {"none", "dir", "zip", "unsupported"}: --local-path
    YesFlags,     \* SUBSET BOOLEAN: --yes
    DryRunFlags,  \* SUBSET BOOLEAN: --dry-run
    WaitFlags,    \* SUBSET BOOLEAN: --wait
    TailFlags,    \* SUBSET BOOLEAN: --tail or --tail-timestamp
    Failures      \* BOOLEAN: I/O and API calls may fail

ASSUME ConstantsAssumption ==
    /\ Other \notin Clients
    /\ NoOne \notin Clients \cup {Other}
    /\ NoTag \notin Tags
    /\ NoNamespace \notin Namespaces
    /\ LiveNamespaces \subseteq Namespaces
    /\ Inputs \subseteq {"flags", "file", "stdin"}
    /\ LocalKinds \subseteq {"none", "dir", "zip", "unsupported"}
    /\ YesFlags \subseteq BOOLEAN
    /\ DryRunFlags \subseteq BOOLEAN
    /\ WaitFlags \subseteq BOOLEAN
    /\ TailFlags \subseteq BOOLEAN
    /\ Failures \in BOOLEAN

VARIABLES
    opts,     \* the flags of each invocation, fixed at start
    pc,       \* where each invocation is in Exec
    out,      \* what each invocation has reported so far
    img,      \* the source image of the workload object in memory
    store,    \* the cluster: workload stored under each name
    reg,      \* the registry: whose source each tag currently holds
    claims,   \* history: clients that printed "Created workload" for a
              \* name since that name was last deleted
    said,     \* history: clients that printed "Created workload"
    readyOf   \* history: creator of the workload whose Ready=True a
              \* client's watch returned on

vars == <<opts, pc, out, img, store, reg, claims, readyOf, said>>

-----------------------------------------------------------------------------
(* Values *)

\* The flags of an invocation, and the namespace of the workload in its
\* input file (none without --file).  ns is --namespace or its default;
\* nsChanged says whether --namespace was given.
Options == {o \in [input: Inputs, name: Names, yes: YesFlags, dryRun: DryRunFlags,
                   local: LocalKinds, tag: Tags \cup {NoTag}, wait: WaitFlags,
                   tail: TailFlags, ns: Namespaces, nsChanged: BOOLEAN,
                   fileNs: Namespaces \cup {NoNamespace}] :
                o.input = "flags" => o.fileNs = NoNamespace}

\* Workloads are stored under namespace/name.
Keys == Namespaces \X Names

\* Source images: none (git source), a mutable tag, or an immutable digest
\* named by the content it was computed from.
GitImage == [kind |-> "git", ref |-> NoTag]
TagImage(t) == [kind |-> "tag", ref |-> t]
Digest(c) == [kind |-> "digest", ref |-> c]
Image == {GitImage} \cup {TagImage(t) : t \in Tags} \cup {Digest(c) : c \in Clients}

ReadyStatus == {"Unknown", "True", "False"}
Workload == [creator: Clients \cup {Other}, img: Image, ready: ReadyStatus]

Pcs == {"load", "prepare", "publish", "create", "wait", "done"}
Outcomes == {"none", "error", "nsmissing", "exists", "invalid", "dryrun", "skipped",
             "created", "ready", "notready", "timeout"}

\* NoWorkload is neither a workload nor the view of one that CreateIfAbsent
\* keeps.
ASSUME NoWorkloadAssumption ==
    NoWorkload \notin Workload \cup [creator: Clients \cup {Other}, ready: ReadyStatus]

\* What a tag or a digest resolves to in the registry.
Resolve(i) == IF i.kind = "digest" THEN i.ref ELSE reg[i.ref]

-----------------------------------------------------------------------------
(* Client steps *)

\* Exec returns: the command ends with outcome o.
Finish(c, o) ==
    /\ pc' = [pc EXCEPT ![c] = "done"]
    /\ out' = [out EXCEPT ![c] = o]

\* Exec: the workload's namespace is the one of the input file, unless the
\* file has none or --namespace is given.
WorkloadNs(c) ==
    IF opts[c].fileNs = NoNamespace \/ opts[c].nsChanged THEN opts[c].ns
                                                        ELSE opts[c].fileNs

\* The namespace/name that Exec gets, creates and watches.
Key(c) == <<WorkloadNs(c), opts[c].name>>

\* validateNamespace(opts.Namespace): loadNamespace gets the --namespace
\* (not the workload's); only NotFound makes it fail.
validateNamespace(c) == opts[c].ns \in LiveNamespaces

\* Exec up to the existence check: LoadInputWorkload when --file is given,
\* c.Get of the workload, validateNamespace when it is not found, and the
\* "already exists" check.  A failed load and a Get error other than
\* NotFound both end the command with that error.
ExecLoadAndGet(c) ==
    LET k == Key(c) IN
    /\ pc[c] = "load"
    /\ \/ /\ Failures
          /\ Finish(c, "error")
       \/ /\ store[k] = NoWorkload
          /\ ~validateNamespace(c)
          /\ Finish(c, "nsmissing")
       \/ /\ store[k] # NoWorkload
          /\ Finish(c, "exists")
       \/ /\ store[k] = NoWorkload
          \* an error of loadNamespace other than NotFound is swallowed
          /\ validateNamespace(c) \/ Failures
          /\ pc' = [pc EXCEPT ![c] = "prepare"]
          /\ UNCHANGED out
    /\ UNCHANGED <<opts, img, store, reg, claims, readyOf, said>>

\* A local path requires a source image (Exec's flag-interaction check).
MissingSourceImage(c) == opts[c].local # "none" /\ opts[c].tag = NoTag

\* Mutant: the `opts.SourceImage != ""` guard is dropped and an empty
\* --source-image is merged into the workload.
ApplyOptionsToWorkloadUnguarded(c) == TagImage(opts[c].tag)

\* The source of the workload after ApplyOptionsToWorkload: --source-image,
\* when given, replaces any git source; the other options merged there
\* (labels, params, env, maven, image...) do not bear on the properties.
ApplyOptionsToWorkload(c) ==
    IF opts[c].tag = NoTag THEN GitImage ELSE TagImage(opts[c].tag)

\* ApplyOptionsToWorkload (--source-image is merged into the workload),
\* workload.Validate() together with the local-path check, and the dry-run
\* exit.  What Validate rejects depends on the workload's content, which is
\* abstracted away: it may reject any workload when Failures is allowed.
ExecApplyAndValidate(c) ==
    /\ pc[c] = "prepare"
    /\ img' = [img EXCEPT ![c] = ApplyOptionsToWorkload(c)]
    /\ \/ /\ MissingSourceImage(c) \/ Failures
          /\ Finish(c, "invalid")
       \/ /\ ~MissingSourceImage(c)
          /\ opts[c].dryRun
          /\ Finish(c, "dryrun")
       \/ /\ ~MissingSourceImage(c)
          /\ ~opts[c].dryRun
          /\ pc' = [pc EXCEPT ![c] = "publish"]
          /\ UNCHANGED out
    /\ UNCHANGED <<opts, store, reg, claims, readyOf, said>>

\* checkToPublishLocalSource asks "Publish source ...?" unless --yes; the
\* user may then decline, or the prompt fail, and the command is skipped.
checkToPublishLocalSource(c) == ~opts[c].yes

\* Mutant: the push succeeds but the workload keeps the tagged image
\* instead of the digest the push returned.
PublishLocalSourceUnpinned(c) ==
    LET t == img[c].ref IN
    /\ pc[c] = "publish"
    /\ \/ /\ opts[c].local = "none"
          /\ pc' = [pc EXCEPT ![c] = "create"]
          /\ UNCHANGED <<out, img, reg>>
       \/ /\ opts[c].local # "none"
          /\ checkToPublishLocalSource(c)
          /\ Finish(c, "skipped")
          /\ UNCHANGED <<img, reg>>
       \/ /\ opts[c].local = "unsupported"
          /\ Finish(c, "error")
          /\ UNCHANGED <<img, reg>>
       \/ /\ opts[c].local \in {"dir", "zip"}
          /\ Failures
          /\ Finish(c, "error")
          /\ UNCHANGED <<img, reg>>
       \/ /\ opts[c].local \in {"dir", "zip"}
          /\ reg' = [reg EXCEPT ![t] = c]
          /\ pc' = [pc EXCEPT ![c] = "create"]
          /\ UNCHANGED <<out, img>>
    /\ UNCHANGED <<opts, store, claims, readyOf, said>>

\* PublishLocalSource with currentWorkload = nil: nothing to do without a
\* local path; otherwise the confirmation prompt unless --yes (declining
\* ends the command without error), the directory or zip check, the push
\* of the tagged image, and the workload's image pinned to the digest the
\* push returned.  Extraction and push failures end the command.
PublishLocalSource(c) ==
    LET t == img[c].ref IN
    /\ pc[c] = "publish"
    /\ \/ /\ opts[c].local = "none"
          /\ pc' = [pc EXCEPT ![c] = "create"]
          /\ UNCHANGED <<out, img, reg>>
       \/ /\ opts[c].local # "none"
          /\ checkToPublishLocalSource(c)
          /\ Finish(c, "skipped")
          /\ UNCHANGED <<img, reg>>
       \/ /\ opts[c].local = "unsupported"
          /\ Finish(c, "error")
          /\ UNCHANGED <<img, reg>>
       \/ /\ opts[c].local \in {"dir", "zip"}
          /\ Failures
          /\ Finish(c, "error")
          /\ UNCHANGED <<img, reg>>
       \/ /\ opts[c].local \in {"dir", "zip"}
          /\ reg' = [reg EXCEPT ![t] = c]
          /\ img' = [img EXCEPT ![c] = Digest(c)]
          /\ pc' = [pc EXCEPT ![c] = "create"]
          /\ UNCHANGED out
    /\ UNCHANGED <<opts, store, claims, readyOf, said>>

\* WorkloadOptions.Create without --yes skips the workload when it was read
\* from stdin, and otherwise asks "create this workload?", which the user
\* may decline: the create can be skipped exactly when --yes is not given.
MayDeclineCreate(c) == ~opts[c].yes

\* ... and it can go ahead with --yes, or on a prompt answered yes, which
\* input read from stdin rules out.
MayConfirmCreate(c) == opts[c].yes \/ opts[c].input # "stdin"

\* Mutant: an AlreadyExists error from c.Create is taken for success, as
\* if the earlier c.Get had settled that the name is free.
CreateIgnoringAlreadyExists(c) ==
    LET k == Key(c) IN
    /\ pc[c] = "create"
    /\ \/ /\ MayDeclineCreate(c)
          /\ Finish(c, "skipped")
          /\ UNCHANGED <<store, claims, said>>
       \/ /\ MayConfirmCreate(c)
          /\ Failures \/ k[1] \notin LiveNamespaces
          /\ Finish(c, "error")
          /\ UNCHANGED <<store, claims, said>>
       \/ /\ MayConfirmCreate(c)
          /\ k[1] \in LiveNamespaces
          /\ store' = IF store[k] = NoWorkload
                       THEN [store EXCEPT ![k] = [creator |-> c, img |-> img[c],
                                                  ready |-> "Unknown"]]
                       ELSE store
          /\ claims' = [claims EXCEPT ![k] = @ \cup {c}]
          /\ said' = said \cup {c}
          /\ pc' = [pc EXCEPT ![c] = IF opts[c].wait \/ opts[c].tail
                                     THEN "wait" ELSE "done"]
          /\ out' = [out EXCEPT ![c] = "created"]
    /\ UNCHANGED <<opts, img, reg, readyOf>>

\* WorkloadOptions.Create and the rest of Exec up to the wait: skipped
\* without confirmation, c.Create (AlreadyExists, a missing namespace or
\* another error ends the command), then "Created workload" and, with --wait or --tail, the wait.
Create(c) ==
    LET k == Key(c) IN
    /\ pc[c] = "create"
    /\ \/ /\ MayDeclineCreate(c)
          /\ Finish(c, "skipped")
          /\ UNCHANGED <<store, claims, said>>
       \/ /\ MayConfirmCreate(c)
          /\ store[k] # NoWorkload
          /\ Finish(c, "error")
          /\ UNCHANGED <<store, claims, said>>
       \/ /\ MayConfirmCreate(c)
          /\ Failures \/ k[1] \notin LiveNamespaces
          /\ Finish(c, "error")
          /\ UNCHANGED <<store, claims, said>>
       \/ /\ MayConfirmCreate(c)
          /\ k[1] \in LiveNamespaces
          /\ store[k] = NoWorkload
          /\ store' = [store EXCEPT ![k] = [creator |-> c, img |-> img[c],
                                            ready |-> "Unknown"]]
          /\ claims' = [claims EXCEPT ![k] = @ \cup {c}]
          /\ said' = said \cup {c}
          /\ pc' = [pc EXCEPT ![c] = IF opts[c].wait \/ opts[c].tail
                                     THEN "wait" ELSE "done"]
          /\ out' = [out EXCEPT ![c] = "created"]
    /\ UNCHANGED <<opts, img, reg, readyOf>>

\* The UntilCondition worker of wait.Race: the watch on the workload's
\* namespace/name returns when its Ready condition is True (nil: "is
\* ready") or False (an error); a watch error also ends the race.
WaitUntilCondition(c) ==
    LET k == Key(c) IN
    /\ pc[c] = "wait"
    /\ \/ /\ store[k] # NoWorkload
          /\ store[k].ready # "Unknown"
          /\ Finish(c, IF store[k].ready = "True" THEN "ready" ELSE "notready")
          /\ readyOf' = [readyOf EXCEPT ![c] = IF store[k].ready = "True"
                                               THEN store[k].creator ELSE NoOne]
       \/ /\ Failures
          /\ Finish(c, "error")
          /\ UNCHANGED readyOf
    /\ UNCHANGED <<opts, img, store, reg, claims, said>>

\* The logs.Tail worker, started with --tail: whatever it returns first
\* is the result of the race; nil is reported as "is ready".
TailWorker(c) ==
    /\ pc[c] = "wait"
    /\ opts[c].tail
    /\ \/ Finish(c, "ready")
       \/ /\ Failures
          /\ Finish(c, "error")
    /\ UNCHANGED <<opts, img, store, reg, claims, readyOf, said>>

\* Mutant: wait.Race is run without the --wait-timeout deadline.
RaceWithoutDeadline(c) ==
    /\ pc[c] = "wait"
    /\ FALSE
    /\ Finish(c, "timeout")
    /\ UNCHANGED <<opts, img, store, reg, claims, readyOf, said>>

\* The --wait-timeout deadline of wait.Race expires first.
RaceDeadline(c) ==
    /\ pc[c] = "wait"
    /\ Finish(c, "timeout")
    /\ UNCHANGED <<opts, img, store, reg, claims, readyOf, said>>

-----------------------------------------------------------------------------
(* Environment *)

\* The controller reconciles a workload and sets its Ready condition.
Reconcile(k) ==
    /\ store[k] # NoWorkload
    /\ store[k].ready = "Unknown"
    /\ \E r \in {"True", "False"}: store' = [store EXCEPT ![k].ready = r]
    /\ UNCHANGED <<opts, pc, out, img, reg, claims, readyOf, said>>

\* Another user deletes the workload.
OtherUserDeletes(k) ==
    /\ store[k] # NoWorkload
    /\ store' = [store EXCEPT ![k] = NoWorkload]
    /\ claims' = [claims EXCEPT ![k] = {}]
    /\ UNCHANGED <<opts, pc, out, img, reg, readyOf, said>>

\* Another user creates a workload of the same namespace/name.
OtherUserCreates(k) ==
    /\ k[1] \in LiveNamespaces
    /\ store[k] = NoWorkload
    /\ store' = [store EXCEPT ![k] = [creator |-> Other, img |-> GitImage,
                                      ready |-> "Unknown"]]
    /\ UNCHANGED <<opts, pc, out, img, reg, claims, readyOf, said>>

\* Another user pushes to the same source-image tag.
OtherUserPushes(t) ==
    /\ reg[t] # Other
    /\ reg' = [reg EXCEPT ![t] = Other]
    /\ UNCHANGED <<opts, pc, out, img, store, claims, readyOf, said>>

-----------------------------------------------------------------------------

Init ==
    /\ opts \in [Clients -> Options]
    /\ pc = [c \in Clients |-> "load"]
    /\ out = [c \in Clients |-> "none"]
    /\ img = [c \in Clients |-> GitImage]
    /\ store = [k \in Keys |-> NoWorkload]
    /\ reg = [t \in Tags |-> Other]
    /\ claims = [k \in Keys |-> {}]
    /\ said = {}
    /\ readyOf = [c \in Clients |-> NoOne]

Client(c) ==
    \/ ExecLoadAndGet(c)
    \/ ExecApplyAndValidate(c)
    \/ PublishLocalSource(c)
    \/ Create(c)
    \/ WaitUntilCondition(c)
    \/ TailWorker(c)
    \/ RaceDeadline(c)

Environment ==
    \/ \E k \in Keys: Reconcile(k) \/ OtherUserDeletes(k) \/ OtherUserCreates(k)
    \/ \E t \in Tags: OtherUserPushes(t)

Next == (\E c \in Clients: Client(c)) \/ Environment

\* Each invocation is a running process whose steps the Go runtime keeps
\* scheduling, and the wait has a deadline timer; the environment owes
\* nothing.
Fairness == \A c \in Clients: WF_vars(Client(c))

Spec == Init /\ [][Next]_vars /\ Fairness

-----------------------------------------------------------------------------
(* Properties *)

TypeOK ==
    /\ opts \in [Clients -> Options]
    /\ pc \in [Clients -> Pcs]
    /\ out \in [Clients -> Outcomes]
    /\ img \in [Clients -> Image]
    /\ store \in [Keys -> Workload \cup {NoWorkload}]
    /\ reg \in [Tags -> Clients \cup {Other}]
    /\ claims \in [Keys -> SUBSET Clients]
    /\ said \in SUBSET Clients
    /\ readyOf \in [Clients -> Clients \cup {Other, NoOne}]

\* Two users racing `workload create` on one name: the existence check
\* (c.Get) and c.Create are separate calls.  Every client that printed
\* "Created workload" for a name since it was last deleted is the creator of
\* the workload now stored there, so at most one client believes it
\* created it.
CreatorsAgree ==
    \A k \in Keys:
        claims[k] # {} =>
            /\ store[k] # NoWorkload
            /\ claims[k] = {store[k].creator}

\* PublishLocalSource pushes to a shared tag, which anyone may push to
\* again before or after c.Create: a workload created from --local-path
\* runs the source its creator published, whatever has been pushed since.
SourceIntegrity ==
    \A k \in Keys:
        (store[k] # NoWorkload /\ store[k].creator \in Clients
            /\ opts[store[k].creator].local # "none")
            => Resolve(store[k].img) = store[k].creator

\* wait.Race returns whichever worker ends first and the deadline bounds
\* it: every invocation of the command terminates.
Termination == \A c \in Clients: <>(pc[c] = "done")

\* "Workload is ready" is printed only when the client's watch saw the
\* workload it created with Ready=True.
ReadyIsOwnWorkload ==
    \A c \in Clients: out[c] = "ready" => readyOf[c] = c

\* validateNamespace's "namespace not found" ends the command only when the
\* namespace the workload would be created in is missing (with --file, the
\* file's namespace, not --namespace).
NamespaceErrorIsAccurate ==
    \A c \in Clients: out[c] = "nsmissing" => WorkloadNs(c) \notin LiveNamespaces

-----------------------------------------------------------------------------
(* Refinement *)

\* The store as CreateIfAbsent sees it: a workload's creator and Ready.
AbstractStore ==
    [k \in Keys |-> IF store[k] = NoWorkload THEN NoWorkload
                    ELSE [creator |-> store[k].creator, ready |-> store[k].ready]]

Abs == INSTANCE CreateIfAbsent
        WITH wl <- AbstractStore,
             created <- said,
             finished <- {c \in Clients : pc[c] \in {"wait", "done"}}

\* The command behaves as an atomic create-if-absent: an invocation prints
\* "Created workload" only in the c.Create step that stored its workload
\* under a free namespace/name, although c.Get, the prompts, the push and
\* c.Create are separate steps that other users interleave with; and every
\* invocation gets past its create.
AbsSpec == Abs!Spec

\* The safety part of AbsSpec, without the clients' fairness.
AbsSafety == Abs!SafetySpec

=============================================================================
