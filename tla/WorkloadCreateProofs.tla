------------------------ MODULE WorkloadCreateProofs ------------------------
(***************************************************************************)
(* Proofs about WorkloadCreate for every set of clients, names, tags and   *)
(* flag values: type correctness, CreatorsAgree and SourceIntegrity.      *)
(***************************************************************************)
EXTENDS WorkloadCreate, TLAPS

\* The step relation without the fairness conjunct.
SafetySpec == Init /\ [][Next]_vars

\* The full specification, with the clients' fairness, implies its safety part.
LEMMA SpecIsSafety == Spec => SafetySpec
BY DEF Spec, SafetySpec

-----------------------------------------------------------------------------
(* Type correctness *)

\* The fields of an invocation's flags that the actions read.
LEMMA OptionsFields ==
    ASSUME NEW o \in Options
    PROVE  /\ o.name \in Names /\ o.tag \in Tags \cup {NoTag}
           /\ o.ns \in Namespaces /\ o.fileNs \in Namespaces \cup {NoNamespace}
BY DEF Options

\* Exec gets, creates and watches a namespace/name of the cluster.
LEMMA KeyInKeys ==
    ASSUME NEW c \in Clients, opts \in [Clients -> Options]
    PROVE  Key(c) \in Keys
BY OptionsFields DEF Key, WorkloadNs, Keys

\* A client's exit keeps pc and out in their types.
LEMMA FinishType ==
    ASSUME NEW c \in Clients, NEW o \in Outcomes,
           pc \in [Clients -> Pcs], out \in [Clients -> Outcomes],
           Finish(c, o)
    PROVE  pc' \in [Clients -> Pcs] /\ out' \in [Clients -> Outcomes]
BY DEF Finish, Pcs

\* Every step keeps each variable in its type: the flags are never changed,
\* pc and out move within their enumerations, a stored workload is always
\* a well-formed record or NoWorkload.
THEOREM TypeCorrect == Spec => []TypeOK
<1> USE ConstantsAssumption DEF TypeOK, Image, Workload, Pcs, Outcomes,
        GitImage, TagImage, Digest, ReadyStatus, ApplyOptionsToWorkload
<1>1. Init => TypeOK
  BY DEF Init
<1>2. TypeOK /\ [Next]_vars => TypeOK'
  <2> SUFFICES ASSUME TypeOK, [Next]_vars PROVE TypeOK'
    OBVIOUS
  <2>1. ASSUME NEW c \in Clients, ExecLoadAndGet(c) PROVE TypeOK'
    <3>1. pc' \in [Clients -> Pcs] /\ out' \in [Clients -> Outcomes]
      BY <2>1, FinishType DEF ExecLoadAndGet
    <3> QED BY <2>1, <3>1 DEF ExecLoadAndGet
  <2>2. ASSUME NEW c \in Clients, ExecApplyAndValidate(c) PROVE TypeOK'
    <3>1. pc' \in [Clients -> Pcs] /\ out' \in [Clients -> Outcomes]
      BY <2>2, FinishType DEF ExecApplyAndValidate
    <3>2. img' \in [Clients -> Image]
      <4>1. opts[c].tag \in Tags \/ opts[c].tag = NoTag
        BY OptionsFields
      <4>2. ApplyOptionsToWorkload(c) \in Image
        BY <4>1
      <4> QED BY <2>2, <4>2 DEF ExecApplyAndValidate
    <3> QED BY <2>2, <3>1, <3>2 DEF ExecApplyAndValidate
  <2>3. ASSUME NEW c \in Clients, PublishLocalSource(c) PROVE TypeOK'
    <3>1. pc' \in [Clients -> Pcs] /\ out' \in [Clients -> Outcomes]
      <4>1. \/ Finish(c, "skipped") \/ Finish(c, "error")
            \/ pc' = [pc EXCEPT ![c] = "create"] /\ out' = out
        BY <2>3 DEF PublishLocalSource
      <4> QED BY <4>1, FinishType
    <3>2. reg' \in [Tags -> Clients \cup {Other}]
      BY <2>3 DEF PublishLocalSource
    <3>3. img' \in [Clients -> Image]
      BY <2>3 DEF PublishLocalSource
    <3> QED BY <2>3, <3>1, <3>2, <3>3 DEF PublishLocalSource
  <2>4. ASSUME NEW c \in Clients, Create(c) PROVE TypeOK'
    <3>1. pc' \in [Clients -> Pcs] /\ out' \in [Clients -> Outcomes]
      BY <2>4, FinishType DEF Create
    <3>2. store' \in [Keys -> Workload \cup {NoWorkload}]
      <4>1. [creator |-> c, img |-> img[c], ready |-> "Unknown"] \in Workload
        OBVIOUS
      <4> QED BY <2>4, <4>1 DEF Create
    <3>3. claims' \in [Keys -> SUBSET Clients]
      BY <2>4 DEF Create
    <3> QED BY <2>4, <3>1, <3>2, <3>3 DEF Create
  <2>5. ASSUME NEW c \in Clients, WaitUntilCondition(c) PROVE TypeOK'
    <3>1. pc' \in [Clients -> Pcs] /\ out' \in [Clients -> Outcomes]
      BY <2>5, FinishType DEF WaitUntilCondition
    <3>2. Key(c) \in Keys
      BY KeyInKeys
    <3> QED BY <2>5, <3>1, <3>2 DEF WaitUntilCondition
  <2>6. ASSUME NEW c \in Clients, TailWorker(c) PROVE TypeOK'
    <3>1. pc' \in [Clients -> Pcs] /\ out' \in [Clients -> Outcomes]
      BY <2>6, FinishType DEF TailWorker
    <3> QED BY <2>6, <3>1 DEF TailWorker
  <2>7. ASSUME NEW c \in Clients, RaceDeadline(c) PROVE TypeOK'
    <3>1. pc' \in [Clients -> Pcs] /\ out' \in [Clients -> Outcomes]
      BY <2>7, FinishType DEF RaceDeadline
    <3> QED BY <2>7, <3>1 DEF RaceDeadline
  <2>8. ASSUME NEW k \in Keys, Reconcile(k) PROVE TypeOK'
    <3>1. store[k] \in Workload
      BY <2>8 DEF Reconcile
    <3>2. PICK r \in {"True", "False"}: store' = [store EXCEPT ![k].ready = r]
      BY <2>8 DEF Reconcile
    <3>3. [store[k] EXCEPT !.ready = r] \in Workload
      BY <3>1
    <3>4. store' \in [Keys -> Workload \cup {NoWorkload}]
      BY <3>2, <3>3
    <3> QED BY <2>8, <3>4 DEF Reconcile
  <2>9. ASSUME NEW k \in Keys, OtherUserDeletes(k) PROVE TypeOK'
    BY <2>9 DEF OtherUserDeletes
  <2>10. ASSUME NEW k \in Keys, OtherUserCreates(k) PROVE TypeOK'
    BY <2>10 DEF OtherUserCreates
  <2>11. ASSUME NEW t \in Tags, OtherUserPushes(t) PROVE TypeOK'
    BY <2>11 DEF OtherUserPushes
  <2>12. CASE UNCHANGED vars
    BY <2>12 DEF vars
  <2> QED
    BY <2>1, <2>2, <2>3, <2>4, <2>5, <2>6, <2>7, <2>8, <2>9, <2>10, <2>11, <2>12
       DEF Next, Client, Environment
<1> QED BY <1>1, <1>2, SpecIsSafety, PTL DEF SafetySpec

-----------------------------------------------------------------------------
(* CreatorsAgree *)

\* CreatorsAgree is inductive on its own, given the types: c.Create adds
\* its client to the claims of a name only when the name is free (so the
\* claims were empty), and every delete empties them.
THEOREM CreatorsAgreeHolds == Spec => []CreatorsAgree
<1> USE DEF CreatorsAgree
<1>1. Init => CreatorsAgree
  BY DEF Init
<1>2. TypeOK /\ CreatorsAgree /\ [Next]_vars => CreatorsAgree'
  <2> SUFFICES ASSUME TypeOK, CreatorsAgree, [Next]_vars PROVE CreatorsAgree'
    OBVIOUS
  <2>1. CASE UNCHANGED <<store, claims>>
    BY <2>1
  <2>2. ASSUME NEW c \in Clients, Create(c) PROVE CreatorsAgree'
    <3> DEFINE k == Key(c)
    <3>1. CASE UNCHANGED <<store, claims>>
      BY <3>1
    <3>2. CASE /\ store[k] = NoWorkload
               /\ store' = [store EXCEPT ![k] = [creator |-> c, img |-> img[c],
                                                 ready |-> "Unknown"]]
               /\ claims' = [claims EXCEPT ![k] = @ \cup {c}]
      <4>1. k \in Keys /\ claims[k] = {}
        BY <3>2, KeyInKeys DEF TypeOK
      <4>2. [creator |-> c, img |-> img[c], ready |-> "Unknown"] # NoWorkload
        BY NoWorkloadAssumption DEF TypeOK, Workload, Image, GitImage,
           TagImage, Digest, ReadyStatus
      <4> QED BY <3>2, <4>1, <4>2 DEF TypeOK
    <3> QED BY <2>2, <3>1, <3>2 DEF Create
  <2>3. ASSUME NEW k \in Keys, Reconcile(k) PROVE CreatorsAgree'
    <3>1. PICK r \in {"True", "False"}: store' = [store EXCEPT ![k].ready = r]
      BY <2>3 DEF Reconcile
    <3>2. store[k] \in Workload
      BY <2>3 DEF Reconcile, TypeOK
    <3>3. [store[k] EXCEPT !.ready = r] \in Workload
      BY <3>2 DEF Workload, ReadyStatus
    <3>4. [store[k] EXCEPT !.ready = r] # NoWorkload
         /\ [store[k] EXCEPT !.ready = r].creator = store[k].creator
      BY <3>2, <3>3, NoWorkloadAssumption DEF Workload
    <3> QED BY <2>3, <3>1, <3>4 DEF Reconcile, TypeOK
  <2>4. ASSUME NEW k \in Keys, OtherUserDeletes(k) PROVE CreatorsAgree'
    BY <2>4 DEF OtherUserDeletes, TypeOK
  <2>5. ASSUME NEW k \in Keys, OtherUserCreates(k) PROVE CreatorsAgree'
    BY <2>5 DEF OtherUserCreates, TypeOK
  <2> QED
    BY <2>1, <2>2, <2>3, <2>4, <2>5
       DEF Next, Client, Environment, vars, ExecLoadAndGet, ExecApplyAndValidate,
           PublishLocalSource, WaitUntilCondition, TailWorker, RaceDeadline,
           OtherUserPushes
<1> QED BY <1>1, <1>2, TypeCorrect, SpecIsSafety, PTL DEF SafetySpec

-----------------------------------------------------------------------------
(* SourceIntegrity *)

\* SourceIntegrity is not inductive: it says nothing of the client between
\* the push and c.Create, whose in-memory workload must already hold the
\* digest.  The strengthening pins both the stored workload and the one
\* about to be created to the creator's digest.
PinnedStored ==
    \A k \in Keys:
        (store[k] # NoWorkload /\ store[k].creator \in Clients
            /\ opts[store[k].creator].local # "none")
            => store[k].img = Digest(store[k].creator)

PinnedInFlight ==
    \A c \in Clients:
        (pc[c] = "create" /\ opts[c].local # "none") => img[c] = Digest(c)

SourceInv == PinnedStored /\ PinnedInFlight

\* A pinned stored workload resolves to its creator: a digest names its
\* content, whatever the tag it was pushed to holds now.
LEMMA SourceInvImpliesIntegrity == SourceInv => SourceIntegrity
<1> SUFFICES ASSUME SourceInv, NEW k \in Keys,
                    store[k] # NoWorkload, store[k].creator \in Clients,
                    opts[store[k].creator].local # "none"
             PROVE  Resolve(store[k].img) = store[k].creator
  BY DEF SourceIntegrity
<1>1. store[k].img = Digest(store[k].creator)
  BY DEF SourceInv, PinnedStored
<1>2. \A x : Resolve(Digest(x)) = x
  BY DEF Resolve, Digest
<1> QED BY <1>1, <1>2

\* No step unpins a workload: PublishLocalSource pins the in-memory image
\* before c.Create stores it, and other actors only move tags.
LEMMA SourceInvInductive == TypeOK /\ SourceInv /\ [Next]_vars => SourceInv'
<1> SUFFICES ASSUME TypeOK, SourceInv, [Next]_vars PROVE SourceInv'
  OBVIOUS
<1> USE DEF SourceInv
<1>1. ASSUME NEW c \in Clients, ExecLoadAndGet(c) PROVE SourceInv'
  BY <1>1 DEF ExecLoadAndGet, Finish, PinnedStored, PinnedInFlight, TypeOK
<1>2. ASSUME NEW c \in Clients, ExecApplyAndValidate(c) PROVE SourceInv'
  BY <1>2 DEF ExecApplyAndValidate, Finish, PinnedStored, PinnedInFlight, TypeOK
<1>3. ASSUME NEW c \in Clients, PublishLocalSource(c) PROVE SourceInv'
  BY <1>3 DEF PublishLocalSource, Finish, PinnedStored, PinnedInFlight, TypeOK
<1>4. ASSUME NEW c \in Clients, Create(c) PROVE SourceInv'
  <2> DEFINE km == Key(c)
         w == [creator |-> c, img |-> img[c], ready |-> "Unknown"]
  <2>0. opts' = opts /\ img' = img /\ pc[c] = "create"
    BY <1>4 DEF Create
  <2>1. PinnedInFlight'
    BY <1>4 DEF Create, Finish, PinnedInFlight, TypeOK
  <2>2. ASSUME UNCHANGED store PROVE PinnedStored'
    <3>1. PinnedStored
      BY DEF SourceInv
    <3> QED BY <2>0, <2>2, <3>1 DEF PinnedStored
  <2>3. ASSUME store' = [store EXCEPT ![km] = w] PROVE PinnedStored'
    <3>1. km \in Keys
      BY KeyInKeys DEF TypeOK
    <3>2. opts[c].local # "none" => w.img = Digest(c)
      BY <2>0 DEF PinnedInFlight
    <3>3. ASSUME NEW m \in Keys,
                 store'[m] # NoWorkload, store'[m].creator \in Clients,
                 opts'[store'[m].creator].local # "none"
          PROVE  store'[m].img = Digest(store'[m].creator)
      <4>1. CASE m = km
        <5>1. store'[m] = w
          BY <2>3, <3>1, <4>1 DEF TypeOK
        <5>2. w.creator = c /\ w.img = img[c]
          OBVIOUS
        <5> QED BY <2>0, <3>2, <3>3, <5>1, <5>2
      <4>2. CASE m # km
        BY <2>0, <2>3, <3>3, <4>2 DEF PinnedStored, TypeOK
      <4> QED BY <4>1, <4>2
    <3> QED BY <3>3 DEF PinnedStored
  <2> QED BY <1>4, <2>1, <2>2, <2>3 DEF Create, SourceInv
<1>5. ASSUME NEW c \in Clients, WaitUntilCondition(c) PROVE SourceInv'
  BY <1>5 DEF WaitUntilCondition, Finish, PinnedStored, PinnedInFlight, TypeOK
<1>6. ASSUME NEW c \in Clients, TailWorker(c) PROVE SourceInv'
  BY <1>6 DEF TailWorker, Finish, PinnedStored, PinnedInFlight, TypeOK
<1>7. ASSUME NEW c \in Clients, RaceDeadline(c) PROVE SourceInv'
  BY <1>7 DEF RaceDeadline, Finish, PinnedStored, PinnedInFlight, TypeOK
<1>8. ASSUME NEW k \in Keys, Reconcile(k) PROVE SourceInv'
  <2>1. PICK r \in {"True", "False"}: store' = [store EXCEPT ![k].ready = r]
    BY <1>8 DEF Reconcile
  <2>2. store[k] \in Workload
    BY <1>8 DEF Reconcile, TypeOK
  <2>3. /\ [store[k] EXCEPT !.ready = r] # NoWorkload
        /\ [store[k] EXCEPT !.ready = r].creator = store[k].creator
        /\ [store[k] EXCEPT !.ready = r].img = store[k].img
    BY <2>2, NoWorkloadAssumption DEF Workload, ReadyStatus
  <2> QED BY <1>8, <2>1, <2>3 DEF Reconcile, PinnedStored, PinnedInFlight, TypeOK
<1>9. ASSUME NEW k \in Keys, OtherUserDeletes(k) PROVE SourceInv'
  BY <1>9 DEF OtherUserDeletes, PinnedStored, PinnedInFlight, TypeOK
<1>10. ASSUME NEW k \in Keys, OtherUserCreates(k) PROVE SourceInv'
  BY <1>10, ConstantsAssumption DEF OtherUserCreates, PinnedStored, PinnedInFlight, TypeOK
<1>11. ASSUME NEW t \in Tags, OtherUserPushes(t) PROVE SourceInv'
  BY <1>11 DEF OtherUserPushes, PinnedStored, PinnedInFlight
<1>12. CASE UNCHANGED vars
  BY <1>12 DEF vars, PinnedStored, PinnedInFlight
<1> QED
  BY <1>1, <1>2, <1>3, <1>4, <1>5, <1>6, <1>7, <1>8, <1>9, <1>10, <1>11, <1>12
     DEF Next, Client, Environment

\* A workload created from --local-path runs its creator's source, for any
\* number of clients, names and tags.
THEOREM SourceIntegrityHolds == Spec => []SourceIntegrity
<1>1. Init => SourceInv
  BY DEF Init, SourceInv, PinnedStored, PinnedInFlight
<1> QED BY <1>1, SourceInvInductive, SourceInvImpliesIntegrity, TypeCorrect,
           SpecIsSafety, PTL DEF SafetySpec

-----------------------------------------------------------------------------
(* Refinement of CreateIfAbsent *)

\* Invocations past their create, as CreateIfAbsent's finished.
Finished == {c \in Clients : pc[c] \in {"wait", "done"}}

\* A client step that leaves the store and the reports alone and moves a
\* client within the steps before its create, or within the wait, is
\* invisible to CreateIfAbsent.
LEMMA ClientStutter ==
    ASSUME NEW c \in Clients, NEW x,
           pc \in [Clients -> Pcs],
           pc' = [pc EXCEPT ![c] = x],
           (pc[c] \in {"wait", "done"}) <=> (x \in {"wait", "done"}),
           UNCHANGED <<store, said>>
    PROVE  UNCHANGED Abs!avars
<1>1. Finished' = Finished
  BY DEF Finished
<1>2. AbstractStore' = AbstractStore
  BY DEF AbstractStore
<1> QED BY <1>1, <1>2 DEF Abs!avars, Finished

\* An exit before the create is CreateIfAbsent's GiveUp.
LEMMA FinishIsGiveUp ==
    ASSUME NEW c \in Clients, NEW o,
           pc \in [Clients -> Pcs],
           pc[c] \notin {"wait", "done"},
           Finish(c, o),
           UNCHANGED <<store, said>>
    PROVE  Abs!GiveUp(c)
<1>1. Finished' = Finished \cup {c}
  BY DEF Finished, Finish
<1>2. AbstractStore' = AbstractStore
  BY DEF AbstractStore
<1>3. c \notin Finished
  BY DEF Finished
<1> QED BY <1>1, <1>2, <1>3 DEF Abs!GiveUp, Finished

\* A step of a client before its create is GiveUp when the client exits and
\* a stutter otherwise.
LEMMA PreCreateStep ==
    ASSUME NEW c \in Clients,
           pc \in [Clients -> Pcs],
           pc[c] \notin {"wait", "done"},
           UNCHANGED <<store, said>>,
           \/ \E o \in Outcomes : Finish(c, o)
           \/ \E x \in {"load", "prepare", "publish", "create"} :
                 pc' = [pc EXCEPT ![c] = x]
    PROVE  [Abs!Next]_Abs!avars
<1>1. CASE \E o \in Outcomes : Finish(c, o)
  <2>1. Abs!GiveUp(c)
    BY <1>1, FinishIsGiveUp
  <2> QED BY <2>1 DEF Abs!Next, Abs!Invocation
<1>2. CASE \E x \in {"load", "prepare", "publish", "create"} :
              pc' = [pc EXCEPT ![c] = x]
  BY <1>2, ClientStutter
<1> QED BY <1>1, <1>2

\* A step of a client in its wait is a stutter.
LEMMA WaitStep ==
    ASSUME NEW c \in Clients, NEW o,
           pc \in [Clients -> Pcs],
           pc[c] = "wait",
           Finish(c, o),
           UNCHANGED <<store, said>>
    PROVE  UNCHANGED Abs!avars
BY ClientStutter DEF Finish

\* c.Create storing the workload under the free key is CreateAt.
LEMMA CreateStoresIsCreateAt ==
    ASSUME TypeOK, NEW c \in Clients, pc[c] = "create",
           NEW k \in Keys, k = Key(c),
           store[k] = NoWorkload,
           store' = [store EXCEPT ![k] = [creator |-> c, img |-> img[c],
                                          ready |-> "Unknown"]],
           said' = said \cup {c},
           pc' = [pc EXCEPT ![c] = IF opts[c].wait \/ opts[c].tail
                                   THEN "wait" ELSE "done"]
    PROVE  Abs!CreateAt(c, k)
<1> DEFINE w == [creator |-> c, img |-> img[c], ready |-> "Unknown"]
<1>2. w # NoWorkload
  BY NoWorkloadAssumption DEF TypeOK, Workload, Image, GitImage, TagImage,
     Digest, ReadyStatus
<1>3. AbstractStore' = [AbstractStore EXCEPT ![k] = [creator |-> c, ready |-> "Unknown"]]
  BY <1>2 DEF AbstractStore, TypeOK
<1>4. AbstractStore[k] = NoWorkload
  BY DEF AbstractStore
<1>5. c \notin Finished /\ Finished' = Finished \cup {c}
  BY DEF Finished, TypeOK
<1> QED BY <1>3, <1>4, <1>5 DEF Abs!CreateAt, Finished

\* Every step of the command and its environment is a step of
\* CreateIfAbsent or leaves its state alone.
LEMMA RefinementStep == TypeOK /\ [Next]_vars => [Abs!Next]_Abs!avars
<1> SUFFICES ASSUME TypeOK, [Next]_vars PROVE [Abs!Next]_Abs!avars
  OBVIOUS
<1> USE DEF TypeOK
<1>1. ASSUME NEW c \in Clients, ExecLoadAndGet(c) PROVE [Abs!Next]_Abs!avars
  BY <1>1, PreCreateStep DEF ExecLoadAndGet, Outcomes
<1>2. ASSUME NEW c \in Clients, ExecApplyAndValidate(c) PROVE [Abs!Next]_Abs!avars
  BY <1>2, PreCreateStep DEF ExecApplyAndValidate, Outcomes
<1>3. ASSUME NEW c \in Clients, PublishLocalSource(c) PROVE [Abs!Next]_Abs!avars
  BY <1>3, PreCreateStep DEF PublishLocalSource, Outcomes
<1>4. ASSUME NEW c \in Clients, Create(c) PROVE [Abs!Next]_Abs!avars
  <2>0. pc[c] = "create"
    BY <1>4 DEF Create
  <2>1. CASE (Finish(c, "skipped") \/ Finish(c, "error")) /\ UNCHANGED <<store, claims, said>>
    BY <2>0, <2>1, PreCreateStep DEF Outcomes
  <2>2. CASE /\ store[Key(c)] = NoWorkload
             /\ store' = [store EXCEPT ![Key(c)] = [creator |-> c, img |-> img[c],
                                                    ready |-> "Unknown"]]
             /\ said' = said \cup {c}
             /\ pc' = [pc EXCEPT ![c] = IF opts[c].wait \/ opts[c].tail
                                        THEN "wait" ELSE "done"]
    <3>1. PICK k \in Keys : k = Key(c)
      BY KeyInKeys
    <3>2. Abs!CreateAt(c, k)
      BY <2>0, <2>2, <3>1, CreateStoresIsCreateAt
    <3>3. \E kk \in Keys : Abs!CreateAt(c, kk)
      BY <3>2
    <3>4. Abs!Invocation(c)
      BY <3>3 DEF Abs!Invocation
    <3> QED BY <3>4 DEF Abs!Next
  <2> QED BY <1>4, <2>1, <2>2 DEF Create
<1>5. ASSUME NEW c \in Clients, WaitUntilCondition(c) PROVE [Abs!Next]_Abs!avars
  BY <1>5, WaitStep DEF WaitUntilCondition
<1>6. ASSUME NEW c \in Clients, TailWorker(c) PROVE [Abs!Next]_Abs!avars
  BY <1>6, WaitStep DEF TailWorker
<1>7. ASSUME NEW c \in Clients, RaceDeadline(c) PROVE [Abs!Next]_Abs!avars
  BY <1>7, WaitStep DEF RaceDeadline
<1>8. ASSUME NEW k \in Keys, Reconcile(k) PROVE [Abs!Next]_Abs!avars
  <2>1. PICK r \in {"True", "False"}: store' = [store EXCEPT ![k].ready = r]
    BY <1>8 DEF Reconcile
  <2>2. store[k] \in Workload
    BY <1>8 DEF Reconcile
  <2>3. [store[k] EXCEPT !.ready = r] # NoWorkload
    BY <2>2, NoWorkloadAssumption DEF Workload, ReadyStatus
  <2>4. store'[k].creator = store[k].creator /\ store'[k].ready = r
    BY <2>1, <2>2 DEF Workload
  <2>5. AbstractStore'[k] = [AbstractStore[k] EXCEPT !.ready = r]
    BY <2>1, <2>3, <2>4, <1>8 DEF AbstractStore, Reconcile
  <2>6. \A j \in Keys \ {k} : AbstractStore'[j] = AbstractStore[j]
    BY <2>1 DEF AbstractStore
  <2>7. AbstractStore' = [AbstractStore EXCEPT ![k].ready = r]
    BY <2>5, <2>6 DEF AbstractStore
  <2>8. AbstractStore[k] # NoWorkload /\ AbstractStore[k].ready = "Unknown"
    BY <1>8, <2>2, NoWorkloadAssumption DEF Reconcile, AbstractStore, Workload
  <2>9. Finished' = Finished
    BY <1>8 DEF Reconcile, Finished
  <2>10. Abs!Reconcile(k)
    BY <1>8, <2>7, <2>8, <2>9 DEF Abs!Reconcile, Reconcile, Finished
  <2> QED BY <2>10 DEF Abs!Next
<1>9. ASSUME NEW k \in Keys, OtherUserDeletes(k) PROVE [Abs!Next]_Abs!avars
  <2>1. AbstractStore' = [AbstractStore EXCEPT ![k] = NoWorkload]
    BY <1>9 DEF OtherUserDeletes, AbstractStore
  <2>2. AbstractStore[k] # NoWorkload
    BY <1>9, NoWorkloadAssumption DEF OtherUserDeletes, AbstractStore, Workload
  <2>3. Abs!Delete(k)
    BY <1>9, <2>1, <2>2 DEF Abs!Delete, OtherUserDeletes, Finished
  <2> QED BY <2>3 DEF Abs!Next
<1>10. ASSUME NEW k \in Keys, OtherUserCreates(k) PROVE [Abs!Next]_Abs!avars
  <2>1. [creator |-> Other, img |-> GitImage, ready |-> "Unknown"] # NoWorkload
    BY NoWorkloadAssumption DEF Workload, Image, GitImage, ReadyStatus
  <2>2. AbstractStore' = [AbstractStore EXCEPT ![k] = [creator |-> Other, ready |-> "Unknown"]]
    BY <1>10, <2>1 DEF OtherUserCreates, AbstractStore
  <2>3. AbstractStore[k] = NoWorkload
    BY <1>10 DEF OtherUserCreates, AbstractStore
  <2>4. Abs!OtherCreates(k)
    BY <1>10, <2>2, <2>3 DEF Abs!OtherCreates, OtherUserCreates, Finished
  <2> QED BY <2>4 DEF Abs!Next
<1>11. ASSUME NEW t \in Tags, OtherUserPushes(t) PROVE [Abs!Next]_Abs!avars
  BY <1>11 DEF OtherUserPushes, Abs!avars, AbstractStore
<1>12. CASE UNCHANGED vars
  BY <1>12 DEF vars, Abs!avars, AbstractStore
<1> QED
  BY <1>1, <1>2, <1>3, <1>4, <1>5, <1>6, <1>7, <1>8, <1>9, <1>10, <1>11, <1>12
     DEF Next, Client, Environment

\* The create command implements CreateIfAbsent's safety: whatever the
\* interleaving of c.Get, the prompts, the push and c.Create with other
\* users, an invocation reports "Created workload" only at the step that
\* stored its workload under a free namespace/name, and only once.
THEOREM Refinement == Spec => AbsSafety
<1>1. Init => Abs!Init
  BY DEF Init, Abs!Init, AbstractStore
<1> QED BY <1>1, RefinementStep, TypeCorrect, SpecIsSafety, PTL
           DEF SafetySpec, AbsSafety, Abs!SafetySpec

=============================================================================
