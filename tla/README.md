# TLA+ models of the BOSHDeployment reconciler

This directory holds TLA+ specifications of two parts of the BOSHDeployment
controllers: the reconciler in `src/unnamed/part_000`
(`ReconcileBOSHDeployment`), and the BPM controller's set-up and event filter
in `src/pkg/kube/controllers/boshdeployment/bpm_controller.go` (`AddBPM`).
It also holds the TLC configurations that model-check them, and TLAPS
proofs of the main safety properties and of a refinement.

## The system

`Reconcile` is called by the controller-runtime workqueue for one
BOSHDeployment key at a time. The controller is built with default options,
so it runs one worker, and the workqueue never hands the same key to two
workers. One pass makes these calls in order:

1. `client.Get` of the deployment (line 92). The client is
   `mgr.GetClient()` (line 61), which reads the informer's cache. The cache
   may lag the API server.
   - NotFound: return without requeue.
   - Any other error: return it, and the key is requeued with backoff.
2. The meltdown check (line 106). Inside the window that starts at
   `status.lastReconcile`, the pass returns `RequeueAfter` and does nothing
   else.
3. `resolveManifest`, then `listLinkInfos`.
4. `createManifestWithOps`: CreateOrUpdate of the with-ops manifest secret,
   owned by the deployment.
5. `converter.Variables`, then `createQuarksSecrets`. For each variable this
   does a CreateOrUpdate of a QuarksSecret owned by the manifest secret. When
   the result is "updated", it also does a status update that resets
   `status.generated`.
6. Two `createQuarksJob` calls: the variable-interpolation job, then the
   instance-group-manifest job.
7. A status update of `lastReconcile` on the instance fetched in step 1.
   The API server rejects it with a conflict when that instance's
   resourceVersion is no longer the latest. On error this is logged and the
   pass returns success without requeue.

Each step returns its error to the workqueue, which re-queues the key. Other
actors change the same objects concurrently:

- the user edits or deletes the deployment;
- the informer stores each new version in its cache and then hands the event
  to the watch, which queues the key for a create, a delete or a spec change
  but not for a status-only change;
- the Kubernetes garbage collector deletes objects whose owner is gone;
- the QuarksSecret controller generates a secret whose `status.generated` is
  false.

`listLinkInfos` is the one non-trivial algorithm. For each provider the
manifest consumes but does not define, it looks for a secret annotated for
this deployment and rejects duplicates. It then joins the typed links to
services by the services' provider annotation, lists each service's pods and
builds job instances from them. All providers still missing are reported
together.

### The BPM controller

`AddBPM` creates a controller (`controller.New`, line 35). It then watches
Secrets (`c.Watch`, line 58) through a `predicate.Funcs` (lines 41-52):

- a create passes when the Secret is versioned and its name marks it as a
  BPM information secret;
- an update passes when the new object (`ObjectNew`) meets the same test;
- deletes and generic events never pass.

`isVersionedSecret` rejects a nil label map, a missing kind label and any
other kind. The controller-runtime machinery it plugs into is outside this
repository, and the controller depends on it:

- the informer lists existing Secrets when the watch starts and emits a
  create for each;
- it updates its cache before it calls the handlers;
- the workqueue holds a key at most once, and re-queues a key that was added
  while a worker held it;
- one worker reconciles, and a failed reconcile is added back.

The BPM reconciler itself is not in the repository.

## Modules

| Module | Models | State | Actions |
|---|---|---|---|
| `Reconciler` | `Reconcile`, `resolveManifest`, `createManifestWithOps`, `createQuarksJob`, `createQuarksSecrets`, and the environment | `bdpl` (exists, generation, inside meltdown window); `cache` (the informer's copy of `bdpl`), `synced` (the cache holds the latest version), `current` (the running pass's instance is still the latest version, so its status write will not conflict), `windowWrites` (history: successful status writes since the window last ended); `queued`/`delayed` (workqueue, RequeueAfter timer); `pc`, `snap` (generation of the instance fetched), `next` (loop index), `failures`; the derived objects `mansec`, `qsec[v]`, `dmJob`, `igmJob`, each with the generation it was rendered from and its owner reference | `Fetch` (four outcomes), `ResolveManifest`, `ListLinks`, `ManifestSecret`, `ConvertVariables`, `CreateQuarksSecret` (three outcomes), `DesiredManifestJob`, `InstanceGroupJob`, `UpdateStatus`; environment: `EditDeployment`, `DeleteDeployment`, `CacheSync`, `WindowExpires`, `RequeueTimer`, `CollectGarbage`, `GenerateQuarksSecret` |
| `LinkResolver` | `listLinkInfos`, `getServiceRecords`, `listPodsFromSelector` | the listings (chosen in Init, then fixed); loop indexes; `found` (missingProviders[n] = true); `infos`; `qlinks` (quarksLinks); `svcRecords`; `pending` (map keys not yet visited); `result` | one action per List call and per loop iteration; `PodStep` picks any unvisited key (Go map order) |
| `BPMWatch` | `AddBPM`, its predicate, `isVersionedSecret`, `isBPMInfoSecret`; the informer and workqueue it relies on | `setup` (progress of `AddBPM`); `cluster`, `rev` (Secrets in the API server and their resourceVersions); `inflight` (watch events not yet delivered); `cache`; `queue`, `dirty`, `processing` (the workqueue); `seen` (resourceVersion each reconcile read); `failures` | `NewController`, `Watch` (each may fail); `Deliver` (cache update, then predicate and enqueue); `Get`, `Process` (the worker; a reconcile may fail); environment: `CreateSecret`, `UpdateSecret`, `DeleteSecret` |
| `DeploymentObjects` | what the reconciler promises about derived objects, without passes, errors or retries | `exists`, `gen` of the deployment; `main` (manifest secret and the two jobs) and `specs` (QuarksSecrets): the generation each was rendered from, 0 if absent | `Edit`, `Delete`, `RenderMain`, `RenderSpec`, `RemoveMain`, `RemoveSpec` |
| `ReconcilerProofs` | TLAPS proofs about `Reconciler` | | |
| `RefinementProofs` | TLAPS proof that `Reconciler` implements `DeploymentObjects` | | |
| `LinkResolverProofs` | TLAPS proofs about `LinkResolver` | | |
| `LinkReferenceProofs` | TLAPS proof that `LinkResolver` meets its reference | | |
| `MCReconciler`, `MCLinkResolver`, `MCBPMWatch` | TLC instances | | |

### Abstractions

- **Data.** A manifest, a secret and a job are reduced to the deployment
  generation they were rendered from. The properties are about which
  generation each object reflects, so this is all they need to tell apart.
- **CreateOrUpdate.** `Applied` and `QSecApplied` model it. An absent object
  is created with an owner reference. An existing one gets the new content
  and keeps its stored owner references. The mutate functions are outside
  `src/`, so their behaviour comes from the spec.
- **Errors.** Every API call may fail. A failure is "transient" and is
  bounded by `MaxFail`, so that liveness can be checked. This bound stands
  for the eventual success of retries with backoff.
- **Timing.** Meltdown timing is a Boolean `inWindow`. The user edits
  nondeterministically, up to `MaxGen`.
- **Informer cache.** `Fetch` reads `cache`, not `bdpl`. `CacheSync`
  copies `bdpl` into the cache and queues the key when existence or
  generation changed, in that order, as the informer does. A pass that
  proceeds records in `current` whether the version it read is still the
  latest. `UpdateStatus` succeeds only then; otherwise it is a conflict (or
  NotFound). A status write or an edit makes every running pass's instance
  stale. The cache and the watch registration belong to controller-runtime
  and to code outside `src/`, so `CacheSync` is written from their
  contract.
- **Link resolution inside `Reconciler`.** It is only success or failure
  there. `LinkResolver` checks it separately on bounded inputs. Listings are
  independent inputs, so any combination of concurrent changes between the
  three List calls is covered.

- **BPM events.** A Secret is its existence, its kind label (nil map,
  missing, versioned, other) and its resourceVersion. A name is one of two
  model values, one of which contains the BPM information marker. This
  stands for `strings.Contains`.
- **Informer and workqueue.** They are written from controller-runtime's and
  client-go's documented behaviour.
  - Events reach the handlers in order.
  - A watch in place reports every change.
  - The workqueue is its `queue`/`dirty`/`processing` triple.

### Refinement

`DeploymentObjects` is the abstract specification. The deployment can be
edited (its generation grows) or deleted. Any derived object may be
re-rendered from a generation g when all of these hold:

- g is no older than the object's own generation;
- g is no newer than the deployment's;
- the result keeps the dependency order `Ordered`.

The manifest secret and the jobs may be removed once the deployment is
gone. The QuarksSecrets may be removed once the manifest secret is gone.
There are no passes, errors, retries, meltdown windows or status fields.

`Reconciler` maps onto it through `Abs`: each object maps to the generation
it was rendered from, or to 0 when it is absent (`absMain`, `absSpecs`).
Under this mapping:

- a successful CreateOrUpdate is a `RenderMain` or `RenderSpec` from `snap`;
- a garbage collection is a `RemoveMain` or `RemoveSpec`;
- edit and deletion are `Edit` and `Delete`;
- every other step is a stutter.

## Runs

All Reconciler runs use `MCReconciler` with MaxGen = 3, NumVars = 2 and
MaxFail = 2. These bounds give:

- two edits, so one can land during a pass and one during a meltdown window;
- two QuarksSecrets, so `createQuarksSecrets` can stop between them;
- two failures, so a pass can abort at two different steps.

The state space is 270,155 states. Safety runs take seconds and liveness
runs under a minute.

`CHECK_DEADLOCK FALSE` is set because a quiet deployment with nothing queued
is a real resting state of the controller.

| Run | Checks | Result |
|---|---|---|
| `reconcile_safety` | `TypeOK`, `OneStampPerWindow` (Status().Update succeeds at most once between two ends of the meltdown window, whatever the cache lag), `PipelineOrder` (the IGM job is never newer than the DM job, which is never newer than the manifest secret or any QuarksSecret spec) | pass |
| `reconcile_no_rollback` | `NoRollback`: no write replaces an object with an older rendering | pass |
| `reconcile_convergence` | `Convergence`: eventually always, an existing deployment has all derived objects in sync | pass |
| `reconcile_cleanup` | `Cleanup`: eventually always, a deleted deployment has no derived objects, including ones created by a pass in flight after the deletion | pass |
| `regen_lost` | `QuarksSecretsRegenerated`: every QuarksSecret is eventually generated from its current spec | **violation** (finding below) |
| `meltdown_stale_cache` | `MeltdownContainment`: no step after the meltdown check runs while the deployment is inside its window (spec section 6) | **violation** (finding below) |
| `reconcile_refinement` | `ImplementsDeploymentObjects`: `Reconciler` implements `DeploymentObjects` under `Abs` | pass |
| `link_resolver` | `TypeOK`, `ResolverMatchesReference`, `LinkInfosSound`, `LinksBackedByService` | pass |
| `bpm_watch` | `BPMSecretsReconciled`: once `AddBPM` has succeeded, every versioned BPM secret is eventually reconciled at its latest resourceVersion | pass |

`bpm_watch` uses two Secrets, one with a BPM information name and one
without, and three label states: nil, versioned and other. It also uses up
to three resourceVersions and one failed reconcile. The following all occur:

- a Secret existing before the watch;
- one created after it;
- one relabelled into and out of the versioned kind;
- a change made while the worker holds the key;
- a failed reconcile re-queued beside a new event;
- a deletion;
- a failure of `controller.New` or of `c.Watch`.

This gives 208,529 states in about 20 s. A fourth resourceVersion or label
multiplies the state space without adding a new kind of interleaving.
`CHECK_DEADLOCK FALSE` is set: once the Secrets stop changing, the
controller idles.

`link_resolver` uses two providers, two secret names, two service names, up
to `MaxList` = 2 secrets and two services, and pod lists of up to two pods, one of
them without an IP. Records the code never reads are collapsed to one per
name. This gives 540,783 states. Duplicates, a missing provider beside a
found one, both map orders of two links, an empty pod list and a pod without
an IP all occur.

`ResolverMatchesReference` compares the result with `Reference`, a
definition over the whole listings that is not loop by loop. The reference
says:

- the first bad secret in listing order decides the secret error;
- then the first duplicated service;
- then any pod failure of any served link;
- then all unfound providers together;
- otherwise the expected link infos and quarks links.

Two loop invariants hold in every state of the call, not only in its
result:

- `LinkInfosSound`: no two link infos name the same provider, and the keys
  of quarksLinks are exactly the secrets of the typed infos.
- `LinksBackedByService`: a quarks link with an address was joined to a
  service of this deployment whose provider annotation names the link's
  secret. Its instances are that service's pods, numbered from 0.

`JobInstance` indexes are naturals and a link's instances are a sequence of
any length, as in the code. `LinkAssumption` requires the empty pod list to
be among `PodLists`, since a selector may match no pod.

Every property has a mutant in `PROJECT.json`: a plausible bug in a mapped
definition that TLC shows breaks it. Examples:

- a status write that does not conflict on a stale instance;
- a stale or lagging read of the deployment;
- no owner reference on a created object;
- duplicate detection dropped;
- instance indexes starting at 1;
- a service recorded under the next loop index (off by one);
- the update predicate judged on the old object.

## Finding: a QuarksSecret can keep a value generated from an old spec

`createQuarksSecrets` calls CreateOrUpdate on the QuarksSecret (line 427).
When the result is "updated", it resets `status.generated` with a separate
status update (lines 434-438). The failing sequence is:

1. The status update fails: a conflict, a timeout or an operator restart.
2. `Reconcile` returns the error, and the key is retried.
3. The retry's CreateOrUpdate finds the spec already current and reports
   "unchanged".
4. The reset is never made.

The QuarksSecret controller therefore never regenerates the secret. Its
value stays generated from the old spec for good, even though every later
pass succeeds. `regen_lost` shows the trace:

- edit;
- spec update succeeds, status reset fails;
- retry reports "unchanged";
- `generated` stays TRUE with `genFrom` older than `spec`.

Fairness has no bearing on this outcome.

## Finding: a pass can run inside the meltdown window

The spec (section 6) says that after a reconcile at time T no mutating
operation on the deployment's derived objects happens before T + W. The
code checks the window (line 106) against `Status.LastReconcile` of the
instance read at line 92. That read goes through `mgr.GetClient()`
(line 61), i.e. the informer cache, which can lag the status write of
line 183. `meltdown_stale_cache` shows the trace:

1. A pass succeeds, and its status write opens a window. The informer has
   not yet delivered it.
2. An edit arrives and is synced; the next fetch sees the window and
   returns `RequeueAfter`, arming the timer.
3. A second edit arrives, and the window ends. A pass proceeds and its
   status write opens a new window, again not yet in the cache.
4. The timer from step 2 fires. The fetch reads the stale cached instance
   with the old `lastReconcile`, passes the check, and the whole pipeline
   of CreateOrUpdate calls runs inside the new window.

Only the final `Status().Update` of that pass is rejected, because the
stale instance's resourceVersion conflicts. `OneStampPerWindow` therefore
still holds: the window is stamped once, but it does not keep writes out.
An error retry queued before the informer catches up has the same effect.

## Fairness

`Reconcile`, `CacheSync`, `WindowExpires`, `RequeueTimer`, `CollectGarbage`
and `GenerateQuarksSecret` are weakly fair, for these reasons:

- the worker keeps processing queued keys;
- the informer keeps delivering watch events;
- wall-clock time passes;
- the RequeueAfter timer fires;
- the garbage collector and the QuarksSecret controller keep running.

The user's edits and deletion are not fair: the user may stop at any time.

In `BPMWatch`, weak fairness applies to:

- `NewController` and `Watch`: the manager runs `AddBPM` to its end;
- `Deliver`: the informer keeps delivering;
- `Get` and `Process`: the worker keeps taking keys.

Changes to Secrets are not fair.

`LinkResolver` has `WF_vars(Next)`, because it is a sequential function call
that returns.

## Proofs (TLAPS)

The proofs about `Reconciler` (`ReconcilerProofs`, `RefinementProofs`) use
only `ConstAssumption`: MaxGen ≥ 1, NumVars ∈ Nat,
MaxFail ∈ Nat. They hold for every value of the constants.

- `TypeCorrect`: `Spec => []TypeOK` for `Reconciler`.
  - `TypeOK` is not inductive on its own. `CreateQuarksSecret` indexes
    `qsec[next]`, so the proof uses `TypeInv`, which adds
    `pc = "CreateQuarksSecrets" => next \in QSecs`.
  - Shared lemmas cover the common shapes: `AbortTypeInv`,
    `AdvanceTypeInv`, `AppliedType` and `QSecAppliedType`.
- `OrderInvariant`: `Spec => []IInv`, where
  `IInv == TypeOK /\ CacheInv /\ OrderInv`. `CacheInv` relates the cache to
  the store:
  - a synced cache equals the store;
  - the cache is never newer than the store, and never in a window the
    store has left;
  - outside the window no status write has been counted;
  - a pass whose instance is still current runs outside the window.

  The last conjunct is what makes `OneStampPerWindow` inductive. A pass
  whose status write succeeds must still be current. It proceeded outside
  the window, and any status write since then made it stale. So the write
  comes from outside the window, and the counter goes from 0 to 1, never
  to 2. The proof of each part is split per action (`FetchCacheInv`,
  `UpdateStatusCacheInv`, `CacheSyncCacheInv`, ...; `CacheFrame` covers the
  pipeline steps, which leave the informer state alone). `OrderInv` is
  proved with one lemma per action (`<Action>Order`). Lemmas shared between
  them:
  - `IdleIInv`: a step that ends a pass and writes nothing;
  - `ShrinkIInv`: a step that only deletes objects or sets status;
  - `InPass`: inside a pass, `snap` bounds every object;
  - `AppliedFacts` and `QSecAppliedFacts`: what CreateOrUpdate writes.
  - `PipelineOrder` alone is not inductive. A pass that writes the manifest
    secret at generation g must know that no job is newer than g.
  - `OrderInv` adds that every object is no newer than the cached
    generation, and no newer than the pass's snapshot while a pass runs.
    The snapshot is no newer than the cached generation, which is no newer
    than the store's.
  - It also adds that each object already written by the pass carries the
    snapshot's generation: the manifest secret after step 4, QuarksSecrets
    below the loop index, all QuarksSecrets after the loop, and the DM job
    after step 6.
- `PipelineOrderHolds` and `WindowStampedOnce`: `Spec => []PipelineOrder` and
  `Spec => []OneStampPerWindow`, both from `OrderInvariant`.
  `MeltdownContainment` is false (see the finding), and no theorem states it.
- `NoRollbackHolds`: `Spec => [][NoRollbackStep]_vars`. This is an action
  property. It follows from `IInv` because every write uses `snap`, and
  `IInv` bounds every existing object by `snap`.
- `Refinement` (`RefinementProofs`): `Spec => ImplementsDeploymentObjects`,
  i.e. `Reconciler` implements `DeploymentObjects`.
  - `InitRefines`: the initial state maps to `Abs!Init`.
  - `NextRefines`: from `IInv`, `IInv'` and `SnapInv`, every step maps to
    an abstract step or a stutter. There is one lemma per writing action.
  - A write renders from `snap`. `IInv` gives that `snap` is no older than
    the object and no newer than the cached generation, hence than the
    deployment's. `PipelineOrder'` is the
    abstract `Ordered` of the mapped state (`OrderedNext`).
  - `SnapInv` (`pc # "Idle" => snap \in Gens`) is an extra inductive
    invariant. It is needed because the abstract render takes a generation
    of at least 1, since 0 means "absent".

- `LinkTypeCorrect`, `LinkInfosSoundHolds` and `LinksBackedHolds`
  (`LinkResolverProofs`): `Spec => []TypeOK`, `Spec => []LinkInfosSound` and
  `Spec => []LinksBackedByService` for `LinkResolver`. They hold for every
  set of providers, secrets, services and pod lists allowed by
  `LinkAssumption`, and for every listing length `MaxList` ∈ Nat. `Init`
  ranges over all listings of at most `MaxList` records, so the theorems
  cover listings of any finite length. Only TLC fixes `MaxList` = 2.
  - `TypeOK` is inductive as it stands. `TypeFrame` assembles `TypeOK'`
    from one fact per variable, and `KeepType` supplies the facts for the
    variables an action leaves alone. This keeps the record sets out of
    most obligations.
  - The two loop invariants need `LInv`. It adds three conjuncts:
    - `found` is the set of the infos' providers (`FoundIsInfos`). The
      duplicate check tests `found`, while the property speaks of the infos.
    - Every service record names a service of this deployment that claims
      the recorded provider (`RecordsBacked`). The pods loop reads the
      service back through the record.
    - A successful result is the infos and links built (`ResultIsState`).
  - `InstancesExpected` shows that the instances built from a pod list are
    the expected ones. `AppendPositions` states what `Append` does to the
    positions of a sequence.

- `ReferenceHolds` (`LinkReferenceProofs`): `Spec => []ResolverMatchesReference`.
  For every listing of any length `MaxList` and every set of missing
  providers, `listLinkInfos`
  returns what the whole-listing reference allows.
  - The reference's matched secrets are `Matches[Len(secrets)]`.
    `Matches` is a recursive function over the prefix length: entry m
    appends secret m to entry m - 1 when it matches. It is the `SelectSeq`
    of the prefix. TLC checked the two against each other on every state of
    `link_resolver`. The function form is the one the provers can unfold.
  - `MatchesDef` obtains the defining equation from the library's
    `NatInductiveDef`. `NatSetInduction` is first-order induction over the
    naturals for a set, derived from `WFMin` on `<`. `MatchesType` and
    `MatchesNone` are proved by it.
  - The inductive invariant `RInv` adds to `LInv` one conjunct per phase of
    the call:
    - the secrets loop, after i - 1 secrets: the infos are
      `InfoSeq(Matches[i - 1])`, none of those secrets is bad, and `found`
      is the set of their providers;
    - the services loop, after j - 1 services: none of them is a duplicate,
      and the records are keyed by exactly the providers they claim
      (`ProvidesOf`);
    - the pods loop: every visited link is the expected one, and no served,
      visited link has a failing pod.
    It also adds three small conjuncts:
    - the lists are read only when a provider is missing;
    - `quarksLinks` is a function;
    - the early states are empty.
  - With `RInv`, each error return is the first bad element in listing
    order: `FirstOfLeast`, `FirstBadSecret`, `FirstBadService`.
    `RecordIsBacking` shows that the recorded service is the only one
    backing a link. The final return is then `Expected`.
  - `InputsFrame` shows that the reference depends only on the inputs, and
    no step changes them.
  - TLC checked `RInv` on all 540,783 states of `link_resolver` before the
    proof.

The following stay with TLC only:

- **Liveness** (`Convergence`, `Cleanup`, `BPMSecretsReconciled`): TLAPS
  cannot handle fairness and ENABLED reasoning.
- **`BPMWatch`** has no proof. Its one property, `BPMSecretsReconciled`, is a
  liveness property. The workqueue's bookkeeping belongs to client-go, not
  to this repository, so no theorem is stated about it.

## Not modelled

- `NewDeploymentReconciler` only wires collaborators together.
- The BPM reconciler (`NewBPMReconciler`) is not in this repository. A
  reconcile is modelled only as reading the cached Secret, possibly failing.
- What the caller of `AddBPM` does with its error is outside `src/`.
- `role.yaml` is static RBAC configuration.
- `bin/test-unit` is a test script.
- The with-ops resolver, the job factory, the variable converter, the
  QuarksSecret controller and the garbage collector are outside `src/`.
  - The first three appear only as success or failure.
  - The last two are environment actions written from the spec.

## Plan for later work

- Compose `LinkResolver` into the `ListLinks` step.
- Model deployment re-creation under the same name, with a new UID, against
  owner references left by the old one.
