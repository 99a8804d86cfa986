------------------------------ MODULE Reconciler ------------------------------
(***************************************************************************)
(* ReconcileBOSHDeployment.Reconcile (src/unnamed/part_000) for a single   *)
(* BOSHDeployment key, together with the cluster objects it derives and    *)
(* the actors that change them concurrently: the user (edit, delete), the  *)
(* Kubernetes garbage collector, the QuarksSecret controller and the       *)
(* passage of time that ends a meltdown window.                            *)
(*                                                                         *)
(* client.Get is the manager's client (line 61), which reads the informer  *)
(* cache: a copy of the BOSHDeployment that follows the store in order but *)
(* may lag it.  Status().Update writes the store and is rejected when the  *)
(* resourceVersion of the instance it sends is no longer the latest.       *)
(*                                                                         *)
(* Data is abstracted to the deployment generation a derived object was    *)
(* rendered from: the manifest of generation g yields manifest secret,     *)
(* QuarksSecret specs and QuarksJobs "of generation g".  The link          *)
(* resolution step is abstracted to succeed or fail; LinkResolver models   *)
(* it in detail.                                                           *)
(***************************************************************************)
EXTENDS Naturals

CONSTANTS
    MaxGen,    \* bound on metadata.generation of the BOSHDeployment (user edits)
    NumVars,   \* number of explicit BOSH variables, i.e. of QuarksSecrets
    MaxFail    \* bound on transient failures (API errors, ctx timeout, conflicts)

ASSUME ConstAssumption ==
    /\ MaxGen \in Nat \ {0}
    /\ NumVars \in Nat
    /\ MaxFail \in Nat

QSecs == 1..NumVars
Gens  == 1..MaxGen

\* Steps of the Reconcile pipeline; "Idle" is "no Reconcile call running".
PCs == {"Idle", "ResolveManifest", "ListLinks", "ManifestSecret",
        "ConvertVariables", "CreateQuarksSecrets", "DesiredManifestJob",
        "InstanceGroupJob", "UpdateStatus"}

\* A derived Secret or QuarksJob: whether it exists, the generation it was
\* rendered from (0 when absent) and whether it carries an owner reference.
Object == [exists: BOOLEAN, gen: 0..MaxGen, owned: BOOLEAN]
Absent == [exists |-> FALSE, gen |-> 0, owned |-> FALSE]

\* A QuarksSecret: its spec (generation of the variable definition), the
\* status.generated flag and the spec its generated value was derived from.
QSec == [exists: BOOLEAN, spec: 0..MaxGen, generated: BOOLEAN,
         genFrom: 0..MaxGen, owned: BOOLEAN]
NoQSec == [exists |-> FALSE, spec |-> 0, generated |-> FALSE,
           genFrom |-> 0, owned |-> FALSE]

VARIABLES
    bdpl,      \* the BOSHDeployment in the store: exists, generation, inWindow
    cache,     \* the informer cache's copy of it, which client.Get returns
    synced,    \* the cache holds the latest version in the store
    current,   \* the instance the running call fetched is still the latest
    queued,    \* the work queue holds a request for this key
    delayed,   \* a RequeueAfter for this key is pending in the work queue
    pc,        \* step of the running Reconcile call
    snap,      \* generation of the instance fetched by the running call
    next,      \* loop index of createQuarksSecrets
    failures,  \* transient failures so far (bounded by MaxFail)
    mansec,    \* the "with-ops" manifest secret
    qsec,      \* the QuarksSecrets of the explicit variables
    dmJob,     \* the "variable interpolation" (desired manifest) QuarksJob
    igmJob,    \* the "instance group manifest" QuarksJob
    windowWrites \* history: lastReconcile writes since the window last ended

vars == <<bdpl, cache, synced, current, queued, delayed, pc, snap, next, failures,
          mansec, qsec, dmJob, igmJob, windowWrites>>
informer == <<cache, synced, current, windowWrites>>
derived == <<mansec, qsec, dmJob, igmJob>>

TypeOK ==
    /\ bdpl \in [exists: BOOLEAN, gen: Gens, inWindow: BOOLEAN]
    /\ cache \in [exists: BOOLEAN, gen: Gens, inWindow: BOOLEAN]
    /\ synced \in BOOLEAN
    /\ current \in BOOLEAN
    /\ windowWrites \in 0..2
    /\ queued \in BOOLEAN
    /\ delayed \in BOOLEAN
    /\ pc \in PCs
    /\ snap \in 0..MaxGen
    /\ next \in 1..(NumVars + 1)
    /\ failures \in 0..MaxFail
    /\ mansec \in Object
    /\ qsec \in [QSecs -> QSec]
    /\ dmJob \in Object
    /\ igmJob \in Object

\* A freshly created BOSHDeployment: the informer has delivered its create
\* event, which queued a request.
Init ==
    /\ bdpl = [exists |-> TRUE, gen |-> 1, inWindow |-> FALSE]
    /\ cache = bdpl
    /\ synced = TRUE
    /\ current = FALSE
    /\ windowWrites = 0
    /\ queued = TRUE
    /\ delayed = FALSE
    /\ pc = "Idle"
    /\ snap = 0
    /\ next = 1
    /\ failures = 0
    /\ mansec = Absent
    /\ qsec = [v \in QSecs |-> NoQSec]
    /\ dmJob = Absent
    /\ igmJob = Absent

-----------------------------------------------------------------------------
(* Helpers shared by the pipeline steps.                                   *)

\* A cluster call fails (API error, conflict, context deadline).
Transient == failures < MaxFail /\ failures' = failures + 1

\* Reconcile returns a non-nil error: the dispatcher re-queues with backoff.
Abort ==
    /\ pc' = "Idle"
    /\ queued' = TRUE
    /\ UNCHANGED <<bdpl, informer, delayed, snap, next, derived>>

\* A step that succeeds moves the pipeline on and writes nothing else.
Advance(to) ==
    /\ pc' = to
    /\ UNCHANGED <<bdpl, informer, queued, delayed, snap, next, failures, derived>>

\* setReference followed by controllerutil.CreateOrUpdate of an object of
\* generation g: created when absent, otherwise its content is replaced.
\* CreateOrUpdate keeps the owner references the stored object already has.
Applied(obj, g) ==
    [exists |-> TRUE, gen |-> g, owned |-> IF obj.exists THEN obj.owned ELSE TRUE]

-----------------------------------------------------------------------------
(* The Reconcile pipeline.                                                 *)

\* client.Get finds no deployment in the cache: it is gone, no requeue.
FetchNotFound ==
    /\ ~cache.exists
    /\ queued' = FALSE
    /\ UNCHANGED <<delayed, pc, snap, failures, current>>

\* client.Get fails otherwise: Reconcile returns the error, the key stays queued.
FetchError ==
    /\ cache.exists
    /\ Transient
    /\ UNCHANGED <<queued, delayed, pc, snap, current>>

FetchMeltdownDropped ==
    /\ cache.exists
    /\ cache.inWindow
    /\ queued' = FALSE
    /\ UNCHANGED <<delayed, pc, snap, failures, current>>

\* The cached lastReconcile is inside the meltdown window: return
\* RequeueAfter without any other work.
FetchMeltdown ==
    /\ cache.exists
    /\ cache.inWindow
    /\ queued' = FALSE
    /\ delayed' = TRUE
    /\ UNCHANGED <<pc, snap, failures, current>>

FetchProceedStale ==
    /\ cache.exists
    /\ ~cache.inWindow
    /\ queued' = FALSE
    /\ pc' = "ResolveManifest"
    /\ \E g \in 1..cache.gen : snap' = g
    /\ current' = synced
    /\ UNCHANGED <<delayed, failures>>

\* Outside the window as the cache sees it: the pipeline starts on the
\* cached instance, which is the latest one only if the cache is in sync.
FetchProceed ==
    /\ cache.exists
    /\ ~cache.inWindow
    /\ queued' = FALSE
    /\ pc' = "ResolveManifest"
    /\ snap' = cache.gen
    /\ current' = synced
    /\ UNCHANGED <<delayed, failures>>

\* The worker takes the request: client.Get and the meltdown check.
Fetch ==
    /\ pc = "Idle"
    /\ queued
    /\ FetchNotFound \/ FetchError \/ FetchMeltdown \/ FetchProceed
    /\ UNCHANGED <<bdpl, cache, synced, windowWrites, next, derived>>

\* resolveManifest: the with-ops resolver may fail.
ResolveManifest ==
    /\ pc = "ResolveManifest"
    /\ \/ Advance("ListLinks")
       \/ Transient /\ Abort

\* listLinkInfos: fails on listing errors and on unresolvable links.
ListLinks ==
    /\ pc = "ListLinks"
    /\ \/ Advance("ManifestSecret")
       \/ Transient /\ Abort

ManifestSecretNoOwner ==
    /\ pc = "ManifestSecret"
    /\ \/ /\ mansec' = [Applied(mansec, snap) EXCEPT !.owned = mansec.exists /\ mansec.owned]
          /\ pc' = "ConvertVariables"
          /\ UNCHANGED <<delayed, bdpl, informer, queued, snap, next, failures, qsec, dmJob, igmJob>>
       \/ Transient /\ Abort

\* createManifestWithOps: marshal, setReference, CreateOrUpdate.
ManifestSecret ==
    /\ pc = "ManifestSecret"
    /\ \/ /\ mansec' = Applied(mansec, snap)
          /\ pc' = "ConvertVariables"
          /\ UNCHANGED <<delayed, bdpl, informer, queued, snap, next, failures, qsec, dmJob, igmJob>>
       \/ Transient /\ Abort

ConvertVariablesFromZero ==
    /\ pc = "ConvertVariables"
    /\ \/ /\ pc' = IF NumVars = 0 THEN "DesiredManifestJob" ELSE "CreateQuarksSecrets"
          /\ next' = 0
          /\ UNCHANGED <<delayed, bdpl, informer, queued, snap, failures, derived>>
       \/ Transient /\ Abort

\* converter.Variables; createQuarksSecrets is skipped when there are none.
ConvertVariables ==
    /\ pc = "ConvertVariables"
    /\ \/ /\ pc' = IF NumVars = 0 THEN "DesiredManifestJob" ELSE "CreateQuarksSecrets"
          /\ next' = 1
          /\ UNCHANGED <<delayed, bdpl, informer, queued, snap, failures, derived>>
       \/ Transient /\ Abort

\* QuarksSecret v after CreateOrUpdate with the spec of generation g.
QSecApplied(q, g) ==
    IF q.exists THEN [q EXCEPT !.spec = g]
    ELSE [exists |-> TRUE, spec |-> g, generated |-> FALSE, genFrom |-> 0,
          owned |-> TRUE]

\* One iteration of createQuarksSecrets: setReference to the manifest
\* secret, CreateOrUpdate and, when the result is "updated", a status
\* update resetting status.generated.
CreateQuarksSecret ==
    /\ pc = "CreateQuarksSecrets"
    /\ LET q       == qsec[next]
           written == QSecApplied(q, snap)
           updated == q.exists /\ q.spec # snap
       IN \/ Transient /\ Abort                           \* CreateOrUpdate fails
          \/ /\ updated                                   \* status update fails
             /\ Transient
             /\ qsec' = [qsec EXCEPT ![next] = written]
             /\ pc' = "Idle"
             /\ queued' = TRUE
             /\ UNCHANGED <<delayed, bdpl, informer, snap, next, mansec, dmJob, igmJob>>
          \/ /\ qsec' = [qsec EXCEPT ![next] =
                            IF updated THEN [written EXCEPT !.generated = FALSE]
                            ELSE written]
             /\ pc' = IF next = NumVars THEN "DesiredManifestJob" ELSE pc
             /\ next' = next + 1
             /\ UNCHANGED <<delayed, bdpl, informer, queued, snap, failures, mansec, dmJob, igmJob>>

\* VariableInterpolationJob and createQuarksJob.
DesiredManifestJob ==
    /\ pc = "DesiredManifestJob"
    /\ \/ /\ dmJob' = Applied(dmJob, snap)
          /\ pc' = "InstanceGroupJob"
          /\ UNCHANGED <<delayed, bdpl, informer, queued, snap, next, failures, mansec, qsec, igmJob>>
       \/ Transient /\ Abort

InstanceGroupJobRefetched ==
    /\ pc = "InstanceGroupJob"
    /\ \/ /\ igmJob' = Applied(igmJob, cache.gen)
          /\ pc' = "UpdateStatus"
          /\ UNCHANGED <<delayed, bdpl, informer, queued, snap, next, failures, mansec, qsec, dmJob>>
       \/ Transient /\ Abort

\* InstanceGroupManifestJob and createQuarksJob.
InstanceGroupJob ==
    /\ pc = "InstanceGroupJob"
    /\ \/ /\ igmJob' = Applied(igmJob, snap)
          /\ pc' = "UpdateStatus"
          /\ UNCHANGED <<delayed, bdpl, informer, queued, snap, next, failures, mansec, qsec, dmJob>>
       \/ Transient /\ Abort

UpdateStatusUnconditional ==
    /\ pc = "UpdateStatus"
    /\ pc' = "Idle"
    /\ \/ /\ bdpl.exists
          /\ bdpl' = [bdpl EXCEPT !.inWindow = TRUE]
          /\ synced' = FALSE
          /\ windowWrites' = IF bdpl.inWindow THEN 2 ELSE 1
          /\ UNCHANGED failures
       \/ /\ ~bdpl.exists
          /\ UNCHANGED <<bdpl, synced, windowWrites, failures>>
       \/ Transient /\ UNCHANGED <<bdpl, synced, windowWrites>>
    /\ UNCHANGED <<cache, current, delayed, queued, snap, next, derived>>

\* Status().Update of lastReconcile with the instance fetched at the start:
\* it fails on NotFound, and on a conflict when that instance was not the
\* latest version (an edit since, or a stale cache).  Either way Reconcile
\* returns success without requeue.
UpdateStatus ==
    /\ pc = "UpdateStatus"
    /\ pc' = "Idle"
    /\ \/ /\ bdpl.exists
          /\ current
          /\ bdpl' = [bdpl EXCEPT !.inWindow = TRUE]
          /\ synced' = FALSE
          /\ windowWrites' = IF bdpl.inWindow THEN 2 ELSE 1
          /\ UNCHANGED failures
       \/ /\ ~bdpl.exists \/ ~current
          /\ UNCHANGED <<bdpl, synced, windowWrites, failures>>
       \/ Transient /\ UNCHANGED <<bdpl, synced, windowWrites>>
    /\ UNCHANGED <<cache, current, delayed, queued, snap, next, derived>>

Reconcile ==
    \/ Fetch \/ ResolveManifest \/ ListLinks \/ ManifestSecret
    \/ ConvertVariables \/ CreateQuarksSecret \/ DesiredManifestJob
    \/ InstanceGroupJob \/ UpdateStatus

-----------------------------------------------------------------------------
(* The environment.                                                        *)

\* The user edits the spec: the generation increases in the store.
EditDeployment ==
    /\ bdpl.exists
    /\ bdpl.gen < MaxGen
    /\ bdpl' = [bdpl EXCEPT !.gen = @ + 1]
    /\ synced' = FALSE
    /\ current' = FALSE
    /\ UNCHANGED <<cache, windowWrites, queued, delayed, pc, snap, next, failures, derived>>

\* The user deletes the deployment from the store.
DeleteDeployment ==
    /\ bdpl.exists
    /\ bdpl' = [bdpl EXCEPT !.exists = FALSE]
    /\ synced' = FALSE
    /\ current' = FALSE
    /\ UNCHANGED <<cache, windowWrites, queued, delayed, pc, snap, next, failures, derived>>

\* The informer receives the latest version, stores it in its cache and
\* then hands the event to the watch: a create, delete or spec change
\* queues a request; a status-only change does not.
CacheSync ==
    /\ ~synced
    /\ cache' = bdpl
    /\ synced' = TRUE
    /\ queued' = (queued \/ cache.exists # bdpl.exists \/ cache.gen # bdpl.gen)
    /\ UNCHANGED <<bdpl, current, windowWrites, delayed, pc, snap, next, failures, derived>>

\* Time passes beyond lastReconcile + MeltdownDuration.  A cached copy
\* without the latest lastReconcile holds an older one, already expired.
WindowExpires ==
    /\ bdpl.inWindow
    /\ bdpl' = [bdpl EXCEPT !.inWindow = FALSE]
    /\ cache' = [cache EXCEPT !.inWindow = FALSE]
    /\ windowWrites' = 0
    /\ UNCHANGED <<synced, current, queued, delayed, pc, snap, next, failures, derived>>

\* The RequeueAfter delay elapses: the request is queued again.
RequeueTimer ==
    /\ delayed
    /\ delayed' = FALSE
    /\ queued' = TRUE
    /\ UNCHANGED <<bdpl, informer, pc, snap, next, failures, derived>>

\* Garbage collection of objects whose owner is gone: the manifest secret
\* and the jobs are owned by the deployment, QuarksSecrets by the manifest
\* secret.
CollectGarbage ==
    /\ \/ /\ ~bdpl.exists /\ mansec.exists /\ mansec.owned
          /\ mansec' = Absent /\ UNCHANGED <<qsec, dmJob, igmJob>>
       \/ /\ ~bdpl.exists /\ dmJob.exists /\ dmJob.owned
          /\ dmJob' = Absent /\ UNCHANGED <<mansec, qsec, igmJob>>
       \/ /\ ~bdpl.exists /\ igmJob.exists /\ igmJob.owned
          /\ igmJob' = Absent /\ UNCHANGED <<mansec, qsec, dmJob>>
       \/ \E v \in QSecs :
             /\ ~mansec.exists /\ qsec[v].exists /\ qsec[v].owned
             /\ qsec' = [qsec EXCEPT ![v] = NoQSec]
             /\ UNCHANGED <<mansec, dmJob, igmJob>>
    /\ UNCHANGED <<delayed, bdpl, informer, queued, pc, snap, next, failures>>

\* The QuarksSecret controller generates a secret whose status says it is
\* not generated, from the spec it reads.
GenerateQuarksSecret ==
    /\ \E v \in QSecs :
          /\ qsec[v].exists
          /\ ~qsec[v].generated
          /\ qsec' = [qsec EXCEPT ![v].generated = TRUE, ![v].genFrom = qsec[v].spec]
    /\ UNCHANGED <<delayed, bdpl, informer, queued, pc, snap, next, failures, mansec, dmJob, igmJob>>

Environment ==
    \/ EditDeployment \/ DeleteDeployment \/ CacheSync \/ WindowExpires \/ RequeueTimer
    \/ CollectGarbage \/ GenerateQuarksSecret

Next == Reconcile \/ Environment

\* The worker keeps taking requests and running them, the informer keeps
\* receiving the watch stream, time passes, the garbage collector and the
\* QuarksSecret controller keep running.
Fairness ==
    /\ WF_vars(Reconcile)
    /\ WF_vars(CacheSync)
    /\ WF_vars(WindowExpires)
    /\ WF_vars(RequeueTimer)
    /\ WF_vars(CollectGarbage)
    /\ WF_vars(GenerateQuarksSecret)

Spec == Init /\ [][Next]_vars /\ Fairness

-----------------------------------------------------------------------------
(* Properties.                                                             *)

\* Meltdown containment as the spec states it (section 6): while the
\* lastReconcile in the store is inside the meltdown window, no Reconcile
\* call gets past the meltdown check of lines 106-109.
MeltdownContainment == pc # "Idle" => ~bdpl.inWindow

\* One status write per window (lines 106-109 and 180-186): however far the
\* informer cache lags, lastReconcile is written at most once between the
\* start and the end of a meltdown window, so the window is never extended
\* by a pass that started on a stale copy and the reconcile rate stays
\* bounded by it.
OneStampPerWindow == windowWrites <= 1

\* Dependency order of the derived objects (Reconcile lines 127-177): after
\* any sequence of edits and of passes aborted midway, the instance group
\* manifest job is never rendered from a newer generation than the desired
\* manifest job, and that job never from a newer generation than the
\* manifest secret or any QuarksSecret it interpolates.
PipelineOrder ==
    /\ igmJob.exists /\ dmJob.exists => igmJob.gen <= dmJob.gen
    /\ dmJob.exists /\ mansec.exists => dmJob.gen <= mansec.gen
    /\ \A v \in QSecs : dmJob.exists /\ qsec[v].exists => dmJob.gen <= qsec[v].spec

ObjectsUpTo(g) ==
    /\ mansec.gen <= g /\ dmJob.gen <= g /\ igmJob.gen <= g
    /\ \A v \in QSecs : qsec[v].spec <= g

\* Inductive strengthening of OneStampPerWindow: the cache never runs ahead
\* of the store, holds lastReconcile of the current window only if the
\* store does, and a pass holding the latest version started outside the
\* window, so its status write is the window's first.
CacheInv ==
    /\ OneStampPerWindow
    /\ synced => cache = bdpl
    /\ cache.gen <= bdpl.gen
    /\ cache.inWindow => bdpl.inWindow
    /\ ~bdpl.inWindow => windowWrites = 0
    /\ pc # "Idle" /\ current => ~bdpl.inWindow

\* Inductive strengthening of PipelineOrder: every derived object is
\* rendered from a generation no newer than the cached one, and the objects
\* a pass has already written carry the generation it fetched.
AfterManifestSecret ==
    {"ConvertVariables", "CreateQuarksSecrets", "DesiredManifestJob",
     "InstanceGroupJob", "UpdateStatus"}
AfterQuarksSecrets == {"DesiredManifestJob", "InstanceGroupJob", "UpdateStatus"}

OrderInv ==
    /\ PipelineOrder
    /\ ObjectsUpTo(cache.gen)
    /\ pc # "Idle" => snap <= cache.gen /\ ObjectsUpTo(snap)
    /\ pc \in AfterManifestSecret /\ mansec.exists => mansec.gen = snap
    /\ pc = "CreateQuarksSecrets" =>
          /\ next \in QSecs
          /\ \A v \in QSecs : v < next /\ qsec[v].exists => qsec[v].spec = snap
    /\ pc \in AfterQuarksSecrets =>
          \A v \in QSecs : qsec[v].exists => qsec[v].spec = snap
    /\ pc \in {"InstanceGroupJob", "UpdateStatus"} /\ dmJob.exists => dmJob.gen = snap

IInv == TypeOK /\ CacheInv /\ OrderInv

\* No rollback: a pass renders every object from the instance it fetched,
\* so a write never replaces a derived object (the manifest secret, a
\* QuarksSecret spec or a job) with one rendered from an older generation
\* than the one it already has, whatever edits and aborted passes came
\* before.
NoRollbackStep ==
    /\ mansec.exists /\ mansec'.exists => mansec.gen <= mansec'.gen
    /\ dmJob.exists /\ dmJob'.exists => dmJob.gen <= dmJob'.gen
    /\ igmJob.exists /\ igmJob'.exists => igmJob.gen <= igmJob'.gen
    /\ \A v \in QSecs : qsec[v].exists /\ qsec'[v].exists => qsec[v].spec <= qsec'[v].spec
NoRollback == [][NoRollbackStep]_vars

\* All derived objects reflect the current generation.
InSync ==
    /\ mansec.exists /\ mansec.gen = bdpl.gen
    /\ dmJob.exists /\ dmJob.gen = bdpl.gen
    /\ igmJob.exists /\ igmJob.gen = bdpl.gen
    /\ \A v \in QSecs : qsec[v].exists /\ qsec[v].spec = bdpl.gen

NoDerived ==
    /\ ~mansec.exists /\ ~dmJob.exists /\ ~igmJob.exists
    /\ \A v \in QSecs : ~qsec[v].exists

\* Convergence: edits made during a meltdown window, passes aborted by
\* transient errors, and status writes lost to conflicts never leave the
\* derived objects behind the deployment for good.
Convergence == <>[](bdpl.exists => InSync)

\* Cleanup: once the deployment is deleted, every derived object, including
\* those a pass in flight created after the deletion, is eventually gone.
Cleanup == <>[](~bdpl.exists => NoDerived)

\* Regeneration (createQuarksSecrets lines 432-440): every QuarksSecret is
\* eventually generated from its current spec, i.e. a changed variable spec
\* is never left with a value generated from the old one.
QuarksSecretsRegenerated ==
    <>[](\A v \in QSecs : qsec[v].exists =>
                            qsec[v].generated /\ qsec[v].genFrom = qsec[v].spec)

-----------------------------------------------------------------------------
(* Refinement: Reconciler implements DeploymentObjects.  A derived object  *)
(* maps to the generation it was rendered from, or 0 when it is absent;    *)
(* passes, the queue, the meltdown window and QuarksSecret status are      *)
(* invisible to the abstract specification.                                *)

Rendered(obj) == IF obj.exists THEN obj.gen ELSE 0

\* The manifest secret and the two jobs, and the QuarksSecret specs, as
\* DeploymentObjects sees them.
absMain == [k \in {"mansec", "dmJob", "igmJob"} |->
               CASE k = "mansec" -> Rendered(mansec)
                 [] k = "dmJob"  -> Rendered(dmJob)
                 [] k = "igmJob" -> Rendered(igmJob)]
absSpecs == [v \in QSecs |-> IF qsec[v].exists THEN qsec[v].spec ELSE 0]

Abs == INSTANCE DeploymentObjects WITH
    exists <- bdpl.exists, gen <- bdpl.gen, main <- absMain, specs <- absSpecs

\* Every behaviour of Reconcile and its environment is one of
\* DeploymentObjects: each CreateOrUpdate re-renders an object from a
\* generation between its own and the deployment's, keeping the order the
\* jobs depend on, and objects disappear only when their owner is gone.
ImplementsDeploymentObjects == Abs!Spec

=============================================================================
