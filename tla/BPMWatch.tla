------------------------------- MODULE BPMWatch -------------------------------
(***************************************************************************)
(* AddBPM (src/pkg/kube/controllers/boshdeployment/bpm_controller.go): the *)
(* set-up of the BPM controller and the event filter that decides which    *)
(* Secret events reach its workqueue, together with what that filter       *)
(* relies on: the informer that turns Secret changes into events and keeps *)
(* the cache the reconciler reads, and the deduplicating workqueue drained *)
(* by the controller's single worker.  The BPM reconciler is not in the    *)
(* repository: a reconcile reads the cached Secret and may fail.           *)
(***************************************************************************)
EXTENDS Naturals, Sequences, SequencesExt

CONSTANTS
    Secrets,         \* names of the Secrets in the namespace
    BPMNames,        \* the names containing DeploymentSecretBpmInformation
    MaxRev,          \* bound on resourceVersions, i.e. on Secret changes
    MaxFail,         \* bound on failed reconciles
    NilLabels,       \* a Secret whose label map is nil
    NoKey            \* the worker holds no key

ASSUME BPMAssumption ==
    /\ IsFiniteSet(Secrets)
    /\ BPMNames \subseteq Secrets
    /\ MaxRev \in Nat \ {0} /\ MaxFail \in Nat
    /\ NoKey \notin Secrets

\* The value of the versionedsecretstore.LabelSecretKind label.
Kinds == {"unset", "versionedSecret", "other"}
Labels == {NilLabels} \cup [kind: Kinds]

\* A Secret as the API server or the cache holds it; rev 0 never existed.
SecretState == [exists: BOOLEAN, labels: Labels, rev: 0..MaxRev]
Gone == [exists |-> FALSE, labels |-> NilLabels, rev |-> 0]

\* Informer notifications: creates and deletes carry the object, updates
\* the old and the new object.
Event == [type: {"create", "delete"}, key: Secrets, obj: SecretState]
         \cup [type: {"update"}, key: Secrets, old: SecretState, new: SecretState]

VARIABLES
    setup,       \* progress of AddBPM
    cluster,     \* Secrets in the API server
    rev,         \* last resourceVersion handed out
    inflight,    \* watch events not yet delivered to the handlers
    cache,       \* the informer's cache, read by the reconciler
    queue,       \* workqueue: keys waiting, in order
    dirty,       \* workqueue: keys added and not yet taken
    processing,  \* workqueue: key held by the worker
    seen,        \* resourceVersion of each Secret the last reconcile read
    failures     \* reconciles that returned an error

vars == <<setup, cluster, rev, inflight, cache, queue, dirty, processing, seen, failures>>
workqueue == <<queue, dirty, processing>>

TypeOK ==
    /\ setup \in {"Start", "Created", "Watching", "Failed"}
    /\ cluster \in [Secrets -> SecretState]
    /\ rev \in 0..MaxRev
    /\ inflight \in Seq(Event)
    /\ cache \in [Secrets -> SecretState]
    /\ queue \in Seq(Secrets)
    /\ dirty \subseteq Secrets
    /\ processing \in Secrets \cup {NoKey}
    /\ seen \in [Secrets -> 0..MaxRev]
    /\ failures \in 0..MaxFail

\* Before AddBPM runs, Secrets may already exist.
Init ==
    /\ setup = "Start"
    /\ \E ex \in SUBSET Secrets, lab \in [Secrets -> Labels] :
          /\ cluster = [s \in Secrets |-> IF s \in ex THEN [exists |-> TRUE, labels |-> lab[s], rev |-> 1]
                                          ELSE Gone]
          /\ rev = IF ex = {} THEN 0 ELSE 1
    /\ inflight = <<>>
    /\ cache = [s \in Secrets |-> Gone]
    /\ queue = <<>> /\ dirty = {} /\ processing = NoKey
    /\ seen = [s \in Secrets |-> 0]
    /\ failures = 0

-----------------------------------------------------------------------------
(* The event filter.                                                       *)

\* isVersionedSecret: the label map is not nil, has the kind label, and the
\* label's value is VersionSecretKind.
isVersionedSecret(sec) ==
    /\ sec.labels # NilLabels
    /\ sec.labels.kind # "unset"
    /\ sec.labels.kind = "versionedSecret"

\* isBPMInfoSecret: strings.Contains of the name and the BPM information
\* secret type.
isBPMInfoSecret(name) == name \in BPMNames

PassesOld(e) ==
    CASE e.type = "create" -> isVersionedSecret(e.obj) /\ isBPMInfoSecret(e.key)
      [] e.type = "update" -> isVersionedSecret(e.old) /\ isBPMInfoSecret(e.key)
      [] e.type = "delete" -> FALSE

\* The predicate.Funcs of AddBPM: creates and updates of versioned BPM
\* information secrets pass, judged on the new object; deletes never pass.
Passes(e) ==
    CASE e.type = "create" -> isVersionedSecret(e.obj) /\ isBPMInfoSecret(e.key)
      [] e.type = "update" -> isVersionedSecret(e.new) /\ isBPMInfoSecret(e.key)
      [] e.type = "delete" -> FALSE

-----------------------------------------------------------------------------
(* AddBPM.                                                                 *)

\* NewBPMReconciler and controller.New, which may fail.
NewController ==
    /\ setup = "Start"
    /\ setup' \in {"Created", "Failed"}
    /\ UNCHANGED <<cluster, rev, inflight, cache, workqueue, seen, failures>>

\* c.Watch on Secrets, which may fail.  Registering the handler lists the
\* Secrets: the cache is filled and a create event is emitted for each.
Watch ==
    /\ setup = "Created"
    /\ \/ /\ setup' = "Watching"
          /\ cache' = cluster
          /\ \E order \in SetToSeqs({s \in Secrets : cluster[s].exists}) :
                inflight' = [k \in DOMAIN order |->
                               [type |-> "create", key |-> order[k], obj |-> cluster[order[k]]]]
       \/ /\ setup' = "Failed"
          /\ UNCHANGED <<inflight, cache>>
    /\ UNCHANGED <<cluster, rev, workqueue, seen, failures>>

-----------------------------------------------------------------------------
(* The workqueue (client-go): a key is queued at most once, and a key      *)
(* added while the worker holds it is queued again when it is released.    *)

Add(s) ==
    IF s \in dirty THEN UNCHANGED <<queue, dirty>>
    ELSE /\ dirty' = dirty \cup {s}
         /\ queue' = IF processing = s THEN queue ELSE Append(queue, s)

\* The informer delivers the next event: the cache is updated, then the
\* handler enqueues the key if the predicate passes.
Deliver ==
    /\ inflight # <<>>
    /\ LET e == Head(inflight) IN
       /\ cache' = [cache EXCEPT ![e.key] = IF e.type = "update" THEN e.new
                                           ELSE IF e.type = "create" THEN e.obj ELSE Gone]
       /\ IF Passes(e) THEN Add(e.key) ELSE UNCHANGED <<queue, dirty>>
    /\ inflight' = Tail(inflight)
    /\ UNCHANGED <<setup, cluster, rev, processing, seen, failures>>

\* The worker takes the first key.
Get ==
    /\ setup = "Watching"
    /\ processing = NoKey
    /\ queue # <<>>
    /\ processing' = Head(queue)
    /\ queue' = Tail(queue)
    /\ dirty' = dirty \ {Head(queue)}
    /\ UNCHANGED <<setup, cluster, rev, inflight, cache, seen, failures>>

\* The reconcile reads the cached Secret; on an error the key is added back.
\* Done re-queues a key that was added while it was held.
Process ==
    /\ processing # NoKey
    /\ LET s == processing IN
       /\ seen' = [seen EXCEPT ![s] = cache[s].rev]
       /\ processing' = NoKey
       /\ \/ /\ UNCHANGED failures
             /\ IF s \in dirty THEN queue' = Append(queue, s) ELSE UNCHANGED queue
             /\ UNCHANGED dirty
          \/ /\ failures < MaxFail
             /\ failures' = failures + 1
             /\ dirty' = dirty \cup {s}
             /\ queue' = Append(queue, s)
    /\ UNCHANGED <<setup, cluster, rev, inflight, cache>>

-----------------------------------------------------------------------------
(* Changes to Secrets made by other controllers and users.  Each gets a    *)
(* new resourceVersion; a watch in place reports it.                       *)

Report(e) ==
    IF setup = "Watching" THEN inflight' = Append(inflight, e) ELSE UNCHANGED inflight

CreateSecret ==
    /\ rev < MaxRev
    /\ \E s \in Secrets, l \in Labels :
          /\ ~cluster[s].exists
          /\ cluster' = [cluster EXCEPT ![s] = [exists |-> TRUE, labels |-> l, rev |-> rev + 1]]
          /\ Report([type |-> "create", key |-> s, obj |-> cluster'[s]])
    /\ rev' = rev + 1
    /\ UNCHANGED <<setup, cache, workqueue, seen, failures>>

UpdateSecret ==
    /\ rev < MaxRev
    /\ \E s \in Secrets, l \in Labels :
          /\ cluster[s].exists
          /\ cluster' = [cluster EXCEPT ![s] = [exists |-> TRUE, labels |-> l, rev |-> rev + 1]]
          /\ Report([type |-> "update", key |-> s, old |-> cluster[s], new |-> cluster'[s]])
    /\ rev' = rev + 1
    /\ UNCHANGED <<setup, cache, workqueue, seen, failures>>

DeleteSecret ==
    /\ \E s \in Secrets :
          /\ cluster[s].exists
          /\ cluster' = [cluster EXCEPT ![s] = Gone]
          /\ Report([type |-> "delete", key |-> s, obj |-> cluster[s]])
    /\ UNCHANGED <<setup, rev, cache, workqueue, seen, failures>>

Next ==
    \/ NewController \/ Watch \/ Deliver \/ Get \/ Process
    \/ CreateSecret \/ UpdateSecret \/ DeleteSecret

\* The manager runs AddBPM to its end, the informer keeps delivering, and
\* the worker keeps taking keys from the FIFO queue.
Spec ==
    /\ Init /\ [][Next]_vars
    /\ WF_vars(NewController) /\ WF_vars(Watch)
    /\ WF_vars(Deliver) /\ WF_vars(Get) /\ WF_vars(Process)

-----------------------------------------------------------------------------
(* Properties.                                                             *)

\* The BPM secret s is current: if it is a versioned BPM information secret,
\* a reconcile has read it at its current resourceVersion.
Current(s) ==
    cluster[s].exists /\ isVersionedSecret(cluster[s]) /\ isBPMInfoSecret(s)
        => seen[s] = cluster[s].rev

\* Once AddBPM has succeeded, every versioned BPM information secret,
\* whether it existed before the watch, was created later, or became
\* versioned by an update, is eventually reconciled at its latest version:
\* the filter drops no event the BPM reconciler needs, and the workqueue's
\* deduplication loses no change made while a reconcile ran.
BPMSecretsReconciled == <>[](setup = "Failed" \/ \A s \in Secrets : Current(s))

=============================================================================
