# TLA+ models of `tanzu apps workload create`

This directory holds the formal models of the apps CLI plugin's workload
create path, the TLC runs that check them, and the TLAPS proofs about them.
The source under study is `src/pkg/commands/workload_create.go` (the command)
and `src/unnamed/part_001` (`pkg/commands/workload.go`, the `WorkloadOptions`
helpers).

## 1. Inventory

### Parts of the system

| Part | Source | State it touches | Operations |
|---|---|---|---|
| Create command | `workload_create.go` `Exec` 56–169 | the cluster (workloads, namespaces), the terminal | load input, get, check the namespace, check existence, merge options, validate, dry run, publish source, create, wait/tail |
| Option merge | `workload.go` `ApplyOptionsToWorkload` 202–390 | the in-memory workload | merge labels, annotations, params, git, source image, maven, env, resources |
| Local source publish | `workload.go` `PublishLocalSource` 395–449, `checkToPublishLocalSource` 451–463, `loadExcludedPaths` 465–497 | the image registry | prompt, extract a zip, push to a tag, pin the workload to the returned digest |
| Create helper | `workload.go` `Create` 573–619 | the cluster | diff, prompt (refused for stdin without `--yes`), `c.Create` |
| Update helper | `workload.go` `Update` 515–571 | the cluster | diff, prompt, `c.Update`, conflict reporting (used by apply/update, which are not under `src/`) |
| Namespace check | `workload.go` `loadNamespace`/`validateNamespace` 499–513 | reads the cluster | NotFound means missing; any other error is swallowed |
| Options | `DefineFlags` 639–686, `DefineEnvVars` 688–702, `Validate` 140–186 | flags | flag binding and syntax checks |

Several actors interact through the cluster and the registry:
- several invocations of the command, possibly by different users;
- the Cartographer controller, which reconciles a workload and sets its
  `Ready` condition;
- other users, who create and delete workloads of the same name;
- other pushers, who push to the same source-image tag.

Inside one invocation, the wait is a race (`wait.Race`) between two workers
and the `--wait-timeout` deadline:
- the readiness watch (`wait.UntilCondition`);
- with `--tail`, the log tailer (`logs.Tail`).

### Hard behaviours

- **Check-then-act.** `c.Get` and `c.Create` are separate calls (lines 74 and
  `workload.go:613`).
- **Shared tag.** The local source is pushed to a shared, mutable tag and
  then pinned to the digest (`workload.go:436–440`).
- **First worker wins.** `wait.Race` takes the first worker to return,
  whichever it is (line 157).
- **Watch by name.** The watch is keyed by namespace/name only (line 142).
- **Deadline.** The deadline races a late answer (lines 157–160).
- **Failures.** Every API and I/O call can fail, and each failure ends the
  command at a different point.

### Properties per component

| Property | What it says |
|---|---|
| `CreatorsAgree` | At most one client believes it created a given name. |
| `SourceIntegrity` | A workload from `--local-path` runs its creator's source. |
| `Termination` | Every invocation ends. |
| `ReadyIsOwnWorkload` | "is ready" is printed only after this invocation's workload became Ready. |
| `NamespaceErrorIsAccurate` | "namespace not found" is reported only when the workload's namespace is missing. |
| `AbsSpec` | The command, with its environment, implements the abstract `CreateIfAbsent` specification. |
| `AbsSafety` | The safety part of `AbsSpec`, without the fairness. |

## 2. Modules

### `WorkloadCreate.tla`

Each client is one invocation. Its `Exec` is cut at the calls to the cluster
or the registry, because those are the points where other actors interleave.

| pc | Action | Code |
|---|---|---|
| `load` | `ExecLoadAndGet` | `Exec` 56–91 with `validateNamespace` |
| `prepare` | `ExecApplyAndValidate` | `Exec` 93–112 with `ApplyOptionsToWorkload`, `workload.Validate()` (a failure, as its verdict depends on content) and `MissingSourceImage` |
| `publish` | `PublishLocalSource` | `workload.go` 395–449 with `checkToPublishLocalSource` |
| `create` | `Create` | `workload.go` 573–619 with `MayDeclineCreate`/`MayConfirmCreate`, then `Exec` 121–133 |
| `wait` | `WaitUntilCondition` / `TailWorker` / `RaceDeadline` | the three ways `wait.Race` (line 157) can end |

`Finish` stands for each `return` of `Exec` and records the outcome in `out`.

The environment actions are:
- `Reconcile`: the controller sets Ready to True or False;
- `OtherUserDeletes` and `OtherUserCreates`;
- `OtherUserPushes`: a push to a tag.

#### Data abstraction

- **Workload.** A workload is a record of its creator, its source image and
  its Ready status.
- **Source image.** An image is one of:
  - `GitImage`: no source image;
  - `TagImage(t)`;
  - `Digest(c)`.

  A digest is named by the content it was computed from. Since each client
  publishes its own source, `Digest(c)` resolves to `c` for ever, while a
  tag resolves to whoever pushed it last (`reg`).
- **Flags.** Each invocation's flags are one record, `opts`, drawn in `Init`.
  `opts.tag` stands for the source image of the workload after the input
  file and `--source-image` are merged.
- **Failures.** A failure is a nondeterministic branch, enabled when the
  constant `Failures` is TRUE.
- **Namespaces.** A workload is stored under a key `<<namespace, name>>`
  (`Keys`). `opts.ns` is the `--namespace` flag (or its default),
  `opts.nsChanged` whether it was given, and `opts.fileNs` the namespace of
  the `--file` workload (`NoNamespace` when it has none). `WorkloadNs`
  translates lines 68–70: the file's namespace wins unless it is empty or the
  flag was given. `LiveNamespaces` are the namespaces that exist.
  `validateNamespace` checks `opts.ns`, as line 79 does; `loadNamespace`
  swallowing other errors (`workload.go:501`) is the disjunct
  `validateNamespace(c) \/ Failures`.

#### History variables

These three variables are observations only; no action reads them in a guard.

- `claims[k]`: the clients that printed "Created workload" for `k` since it
  was last deleted.
- `said`: the clients that printed "Created workload" at all.
- `readyOf[c]`: the creator of the workload on which `c`'s watch saw
  Ready=True.

### `CreateIfAbsent.tla`

The abstract specification of what the command promises, over the cluster
alone: `wl[k]` (creator and Ready), `created`, `finished`. An invocation
either stores its workload under a free key and reports it in one step
(`CreateAt`) or gives up (`GiveUp`); the controller and other users act as
`Reconcile`, `Delete` and `OtherCreates`. `Spec` adds weak fairness on each
invocation.

`WorkloadCreate` implements it under the refinement mapping
`Abs == INSTANCE CreateIfAbsent WITH wl <- AbstractStore, created <- said,
finished <- {c : pc[c] \in {"wait","done"}}`: `AbstractStore` forgets the
image, and an invocation counts as finished once it is past `c.Create`. Every
client step before `Create` and every wait step is a stutter, an early
`return` is `GiveUp`, a successful `c.Create` is `CreateAt`, and the
environment actions map to their namesakes. `AbsSpec == Abs!Spec` (with
the clients' fairness) is checked in `race`, and `AbsSafety ==
Abs!SafetySpec` in `single_client`.

### `MCWorkloadCreate.tla` and the `.cfg` files

`MCWorkloadCreate.tla` names the flag sets the runs choose from.

### `WorkloadCreateProofs.tla`

This module holds the TLAPS proofs.

## 3. Runs

| Run | Cfg | Bounds | Checks | Result |
|---|---|---|---|---|
| `single_client` | `MCSingleClient.cfg` | 1 client, 1 name, 1 tag, namespaces ns1 (exists) and ns2 (missing); every input kind, local-path kind, namespace choice and flag value; failures on | `TypeOK`, `CreatorsAgree`, `SourceIntegrity`, `AbsSafety` | pass (112,888 states) |
| `race` | `MCRace.cfg` | 2 clients, 1 namespace, 1 name, 1 tag; `--yes`; local path none/dir; wait on/off; no failures | `CreatorsAgree`, `SourceIntegrity`, `AbsSpec`, `Termination` | pass (109,168 states) |
| `ready_tail` | `MCReadyTail.cfg` | 1 client, `--wait --tail` | `ReadyIsOwnWorkload` | violation: the tailer returns first |
| `ready_recreated` | `MCReadyRecreated.cfg` | 1 client, no tail | `ReadyIsOwnWorkload` | violation: delete and re-create by another user, then Ready=True |
| `ns_missing` | `MCNamespace.cfg` | 1 client, `--file`, ns1 missing, ns2 exists | `NamespaceErrorIsAccurate` | violation: the file's workload is in ns2, the default `--namespace` ns1 is missing |

**Why these bounds are enough.**
- One name and one tag make every client contend for the same key. That
  contention is where the races are.
- Two clients are the smallest number with which the Get/Create race and the
  push race can happen.
- The environment can repeat its actions without bound: delete/create cycles
  and repeated pushes all occur in the runs.
- Flags that only select branches are enumerated in `single_client`. Between
  them, the two passing runs fire every action and every disjunct.

**Fairness.** Each client is weakly fair (`WF_vars(Client(c))`):
- a running process keeps being scheduled;
- when neither worker ends, the `wait.Race` deadline timer fires.

The environment has no fairness, because the controller may never reconcile.
Termination is checked only in `race`. In `single_client` it would hold
trivially, because a watch error can always end the wait.

**Mutants.** Each property of a passing run is broken by a plausible bug in
the code it is about:
- `ApplyOptionsToWorkloadUnguarded` drops the `SourceImage != ""` guard;
- `CreateIgnoringAlreadyExists` treats AlreadyExists as success;
- `PublishLocalSourceUnpinned` keeps the tag instead of the digest;
- `RaceWithoutDeadline` removes the deadline.

`TypeOK` is checked only in `single_client`, which enumerates every flag
combination with failures on; `TypeCorrect` proves it for all constants.

`CreateIgnoringAlreadyExists` also breaks `AbsSpec` and `AbsSafety`: the second creator's
report is not a `CreateAt` of a free key.

**Findings.** The two violation runs are real defects:
1. **Tailer reported as readiness.** With `--tail`, a log tail that ends
   with nil is reported as readiness (`workload_create.go:166`).
2. **Watch matches by name only.** The watch cannot tell the workload it
   created from another one re-created under the same name
   (`workload_create.go:142`).
3. **Namespace checked from the flag.** After NotFound, `validateNamespace`
   is called with `opts.Namespace`, not the workload's namespace
   (`workload_create.go:79`). A `--file` workload in an existing namespace is
   rejected as "namespace not found" when the default namespace is missing.

## 4. Proofs (`WorkloadCreateProofs.tla`)

The proofs hold for all sets of clients, names, tags and flag values, under:
- `ConstantsAssumption`: the model values are distinct, and each flag set
  lies in its domain;
- `NoWorkloadAssumption`: `NoWorkload` is neither a workload record nor an
  abstract `[creator, ready]` record.

| Theorem | What it proves | How |
|---|---|---|
| `TypeCorrect` | `Spec => []TypeOK` | One step per action, with the lemma `FinishType` for the exits. |
| `CreatorsAgreeHolds` | `Spec => []CreatorsAgree` | Inductive together with `TypeOK`. `Create` adds a claim only when the name is free, so the claims were empty. A delete empties them. |
| `SourceIntegrityHolds` | `Spec => []SourceIntegrity` | Through the strengthening `SourceInv == PinnedStored /\ PinnedInFlight`. |
| `Refinement` | `Spec => AbsSafety` | The refinement mapping, one step per action (below). |

`SourceIntegrity` alone is not inductive. Between the push and `c.Create`, a
client's in-memory workload is not in the store, yet it must already hold the
digest. `PinnedInFlight` states exactly that. The proof then has three parts:
- `SourceInvImpliesIntegrity`: `SourceInv` implies `SourceIntegrity`;
- `SourceInvInductive`: one step per action;
- `SourceIntegrityHolds` combines them with `PTL`.

`Refinement` proves `Spec => AbsSafety`, the safety part of the
refinement. `Init` maps to `Abs!Init`, and `RefinementStep` shows
`TypeOK /\ [Next]_vars => [Abs!Next]_Abs!avars`, one step per action, on
the lemmas:
- `PreCreateStep`: a client step before `Create` either stutters or, when it
  returns, is `GiveUp`;
- `FinishIsGiveUp`, `ClientStutter`, `WaitStep`;
- `CreateStoresIsCreateAt`: a successful create is `CreateAt` of `Key(c)`.
`TypeOK` is the only invariant it needs, through `TypeCorrect`.

**Only model-checked.** The following stay with TLC:
- `Termination` and the fairness part of `AbsSpec`: they are liveness under
  fairness, which TLAPS cannot handle here;
- the two violations;
- the coverage of flag combinations.

## 5. Not modelled, and the plan

### Not modelled

- **Options.** The other option merges (labels, params, env, maven,
  resources) are abstracted away: they do not affect control flow.
- **Pure I/O.** Option syntax validation, flag binding, file loading and
  printing are not modelled. A file load is only a step that may fail.
- **Namespace lifetime.** Which namespaces exist is a constant; namespaces
  are not created or deleted during a run. `logs.Tail(opts.Namespace)`
  (line 153) uses the flag's namespace, but the tail's output is not
  observed, only whether it returns.
- **CI workflow.** The CI workflow YAML is not modelled.

### Plan for later sittings

1. `WorkloadUpdate`: `WorkloadOptions.Update` with optimistic concurrency
   (a stale `currentWorkload`, conflicts) and a lost-update property. The
   apply/update callers are not under `src/`, so they will be modelled from
   the spec.
2. `ApplyOptions`: the merge order of `ApplyOptionsToWorkload` as a pure
   function:
   - idempotence;
   - `--git-*` against `--source-image` against `--image` precedence;
   - maven and params-yaml.

   Checked against a reference over bounded inputs.
3. More theorems: `ReadyIsOwnWorkload` under a fixed code (watch by UID,
   tail not counted as readiness).
