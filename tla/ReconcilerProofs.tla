--------------------------- MODULE ReconcilerProofs ---------------------------
(***************************************************************************)
(* Proofs about the Reconcile pipeline of Reconciler, for every value of   *)
(* MaxGen, NumVars and MaxFail: type correctness, and that the derived     *)
(* objects keep their dependency order, no write rolls one back, and       *)
(* lastReconcile is written once per meltdown window however far the       *)
(* informer cache lags, via the inductive invariant IInv.                  *)
(***************************************************************************)
EXTENDS Reconciler, TLAPS

USE ConstAssumption

\* CreateOrUpdate of an object yields an object.
LEMMA AppliedType ==
    ASSUME NEW obj \in Object, NEW g \in 0..MaxGen
    PROVE  Applied(obj, g) \in Object
BY DEF Applied, Object

LEMMA QSecAppliedType ==
    ASSUME NEW q \in QSec, NEW g \in 0..MaxGen
    PROVE  QSecApplied(q, g) \in QSec
BY DEF QSecApplied, QSec

-----------------------------------------------------------------------------
(* Type correctness.                                                       *)

\* TypeOK together with the bound of the createQuarksSecrets loop index.
TypeInv ==
    /\ TypeOK
    /\ pc = "CreateQuarksSecrets" => next \in QSecs

LEMMA InitTypeInv == Init => TypeInv
<1> SUFFICES ASSUME Init PROVE TypeInv
    OBVIOUS
<1> USE DEF Init
<1>1. bdpl \in [exists: BOOLEAN, gen: Gens, inWindow: BOOLEAN]
      /\ cache \in [exists: BOOLEAN, gen: Gens, inWindow: BOOLEAN]
      BY DEF Gens
<1>2. Absent \in Object
      BY DEF Absent, Object
<1>3. qsec \in [QSecs -> QSec]
      BY DEF NoQSec, QSec
<1>4. pc \in PCs
      BY DEF PCs
<1>5. next \in 1..(NumVars + 1) /\ snap \in 0..MaxGen /\ failures \in 0..MaxFail
      /\ windowWrites \in 0..2
      OBVIOUS
<1>. QED BY <1>1, <1>2, <1>3, <1>4, <1>5, Zenon DEF TypeInv, TypeOK

\* A failed call that aborts the pass preserves TypeInv.
LEMMA AbortTypeInv ==
    ASSUME TypeInv, Transient, Abort
    PROVE  TypeInv'
<1> USE DEF TypeInv, TypeOK
<1>1. failures' \in 0..MaxFail
      BY DEF Transient
<1>2. pc' \in PCs /\ pc' # "CreateQuarksSecrets"
      BY DEF Abort, PCs
<1>3. queued' \in BOOLEAN
      BY DEF Abort
<1>. QED BY <1>1, <1>2, <1>3, Zenon DEF Abort, derived, informer

\* A successful step that only moves the pipeline preserves TypeInv.
LEMMA AdvanceTypeInv ==
    ASSUME TypeInv, NEW to \in PCs \ {"CreateQuarksSecrets"}, Advance(to)
    PROVE  TypeInv'
BY Zenon DEF TypeInv, TypeOK, Advance, derived, informer

LEMMA NextTypeInv == TypeInv /\ [Next]_vars => TypeInv'
<1> SUFFICES ASSUME TypeInv, [Next]_vars PROVE TypeInv'
    OBVIOUS
<1>1. CASE Fetch
      <2>1. CASE FetchNotFound
            BY <1>1, <2>1, Zenon DEF Fetch, FetchNotFound, TypeInv, TypeOK, derived
      <2>2. CASE FetchError
            <3>1. failures' \in 0..MaxFail
                  BY <2>2 DEF FetchError, Transient, TypeInv, TypeOK
            <3>. QED BY <1>1, <2>2, <3>1, Zenon DEF Fetch, FetchError, TypeInv, TypeOK, derived
      <2>3. CASE FetchMeltdown
            BY <1>1, <2>3, Zenon DEF Fetch, FetchMeltdown, TypeInv, TypeOK, derived
      <2>4. CASE FetchProceed
            <3>1. snap' \in 0..MaxGen /\ current' \in BOOLEAN
                  BY <2>4 DEF FetchProceed, TypeInv, TypeOK, Gens
            <3>2. pc' \in PCs /\ pc' # "CreateQuarksSecrets"
                  BY <2>4 DEF FetchProceed, PCs
            <3>. QED BY <1>1, <2>4, <3>1, <3>2, Zenon DEF Fetch, FetchProceed, TypeInv, TypeOK, derived
      <2>. QED BY <1>1, <2>1, <2>2, <2>3, <2>4 DEF Fetch
<1>2. CASE ResolveManifest
      BY <1>2, AbortTypeInv, AdvanceTypeInv DEF ResolveManifest, PCs
<1>3. CASE ListLinks
      BY <1>3, AbortTypeInv, AdvanceTypeInv DEF ListLinks, PCs
<1>4. CASE ManifestSecret
      <2>1. CASE /\ mansec' = Applied(mansec, snap)
                 /\ pc' = "ConvertVariables"
                 /\ UNCHANGED <<delayed, bdpl, informer, queued, snap, next, failures, qsec, dmJob, igmJob>>
            <3>1. mansec' \in Object
                  BY <2>1, AppliedType DEF TypeInv, TypeOK
            <3>. QED BY <2>1, <3>1, Zenon DEF TypeInv, TypeOK, PCs, informer
      <2>. QED BY <1>4, <2>1, AbortTypeInv DEF ManifestSecret
<1>5. CASE ConvertVariables
      <2>1. CASE /\ pc' = IF NumVars = 0 THEN "DesiredManifestJob" ELSE "CreateQuarksSecrets"
                 /\ next' = 1
                 /\ UNCHANGED <<delayed, bdpl, informer, queued, snap, failures, derived>>
            <3>1. pc' \in PCs /\ next' \in 1..(NumVars + 1)
                  BY <2>1 DEF PCs
            <3>2. pc' = "CreateQuarksSecrets" => next' \in QSecs
                  BY <2>1 DEF QSecs
            <3>. QED BY <2>1, <3>1, <3>2, Zenon DEF TypeInv, TypeOK, derived, informer
      <2>. QED BY <1>5, <2>1, AbortTypeInv DEF ConvertVariables
<1>6. CASE CreateQuarksSecret
      <2>1. pc = "CreateQuarksSecrets" /\ next \in QSecs
            BY <1>6 DEF CreateQuarksSecret, TypeInv
      <2>2. QSecApplied(qsec[next], snap) \in QSec
            BY <2>1, QSecAppliedType DEF TypeInv, TypeOK
      <2>3. [QSecApplied(qsec[next], snap) EXCEPT !.generated = FALSE] \in QSec
            BY <2>2 DEF QSec
      <2>4. CASE Transient /\ Abort
            BY <2>4, AbortTypeInv
      <2>5. CASE /\ qsec[next].exists /\ qsec[next].spec # snap
                 /\ Transient
                 /\ qsec' = [qsec EXCEPT ![next] = QSecApplied(qsec[next], snap)]
                 /\ pc' = "Idle"
                 /\ queued' = TRUE
                 /\ UNCHANGED <<delayed, bdpl, informer, snap, next, mansec, dmJob, igmJob>>
            <3>1. qsec' \in [QSecs -> QSec]
                  BY <2>1, <2>2, <2>5 DEF TypeInv, TypeOK
            <3>2. failures' \in 0..MaxFail
                  BY <2>5 DEF Transient, TypeInv, TypeOK
            <3>. QED BY <2>5, <3>1, <3>2, Zenon DEF TypeInv, TypeOK, PCs, informer
      <2>6. CASE /\ qsec' = [qsec EXCEPT ![next] =
                         IF qsec[next].exists /\ qsec[next].spec # snap
                         THEN [QSecApplied(qsec[next], snap) EXCEPT !.generated = FALSE]
                         ELSE QSecApplied(qsec[next], snap)]
                 /\ pc' = IF next = NumVars THEN "DesiredManifestJob" ELSE pc
                 /\ next' = next + 1
                 /\ UNCHANGED <<delayed, bdpl, informer, queued, snap, failures, mansec, dmJob, igmJob>>
            <3>1. qsec' \in [QSecs -> QSec]
                  BY <2>1, <2>2, <2>3, <2>6 DEF TypeInv, TypeOK
            <3>2. next' \in 1..(NumVars + 1) /\ pc' \in PCs
                  BY <2>1, <2>6 DEF QSecs, PCs
            <3>3. pc' = "CreateQuarksSecrets" => next' \in QSecs
                  BY <2>1, <2>6 DEF QSecs
            <3>. QED BY <2>6, <3>1, <3>2, <3>3, Zenon DEF TypeInv, TypeOK, informer
      <2>. QED BY <1>6, <2>4, <2>5, <2>6 DEF CreateQuarksSecret
<1>7. CASE DesiredManifestJob
      <2>1. CASE /\ dmJob' = Applied(dmJob, snap)
                 /\ pc' = "InstanceGroupJob"
                 /\ UNCHANGED <<delayed, bdpl, informer, queued, snap, next, failures, mansec, qsec, igmJob>>
            <3>1. dmJob' \in Object
                  BY <2>1, AppliedType DEF TypeInv, TypeOK
            <3>. QED BY <2>1, <3>1, Zenon DEF TypeInv, TypeOK, PCs, informer
      <2>. QED BY <1>7, <2>1, AbortTypeInv DEF DesiredManifestJob
<1>8. CASE InstanceGroupJob
      <2>1. CASE /\ igmJob' = Applied(igmJob, snap)
                 /\ pc' = "UpdateStatus"
                 /\ UNCHANGED <<delayed, bdpl, informer, queued, snap, next, failures, mansec, qsec, dmJob>>
            <3>1. igmJob' \in Object
                  BY <2>1, AppliedType DEF TypeInv, TypeOK
            <3>. QED BY <2>1, <3>1, Zenon DEF TypeInv, TypeOK, PCs, informer
      <2>. QED BY <1>8, <2>1, AbortTypeInv DEF InstanceGroupJob
<1>9. CASE UpdateStatus
      <2>1. bdpl' \in [exists: BOOLEAN, gen: Gens, inWindow: BOOLEAN]
            BY <1>9 DEF UpdateStatus, TypeInv, TypeOK
      <2>2. failures' \in 0..MaxFail
            BY <1>9 DEF UpdateStatus, Transient, TypeInv, TypeOK
      <2>3. pc' \in PCs /\ pc' # "CreateQuarksSecrets"
            BY <1>9 DEF UpdateStatus, PCs
      <2>4. synced' \in BOOLEAN
            BY <1>9, Zenon DEF UpdateStatus, TypeInv, TypeOK
      <2>5. windowWrites' \in 0..2
            BY <1>9 DEF UpdateStatus, Transient, TypeInv, TypeOK
      <2>. QED BY <1>9, <2>1, <2>2, <2>3, <2>4, <2>5, Zenon DEF UpdateStatus, TypeInv, TypeOK, derived
<1>10. CASE EditDeployment
      <2>1. bdpl' \in [exists: BOOLEAN, gen: Gens, inWindow: BOOLEAN]
            BY <1>10 DEF EditDeployment, TypeInv, TypeOK, Gens
      <2>. QED BY <1>10, <2>1, Zenon DEF EditDeployment, TypeInv, TypeOK, derived
<1>11. CASE DeleteDeployment
      <2>1. bdpl' \in [exists: BOOLEAN, gen: Gens, inWindow: BOOLEAN]
            BY <1>11 DEF DeleteDeployment, TypeInv, TypeOK
      <2>. QED BY <1>11, <2>1, Zenon DEF DeleteDeployment, TypeInv, TypeOK, derived
<1>12. CASE WindowExpires
      <2>1. bdpl' \in [exists: BOOLEAN, gen: Gens, inWindow: BOOLEAN]
            /\ cache' \in [exists: BOOLEAN, gen: Gens, inWindow: BOOLEAN]
            BY <1>12 DEF WindowExpires, TypeInv, TypeOK
      <2>2. windowWrites' \in 0..2
            BY <1>12 DEF WindowExpires
      <2>. QED BY <1>12, <2>1, <2>2, Zenon DEF WindowExpires, TypeInv, TypeOK, derived
<1>13. CASE RequeueTimer
      BY <1>13, Zenon DEF RequeueTimer, TypeInv, TypeOK, derived, informer
<1>14. CASE CollectGarbage
      <2>1. Absent \in Object /\ NoQSec \in QSec
            BY DEF Absent, Object, NoQSec, QSec
      <2>2. mansec' \in Object /\ dmJob' \in Object /\ igmJob' \in Object
            BY <1>14, <2>1 DEF CollectGarbage, TypeInv, TypeOK
      <2>3. qsec' \in [QSecs -> QSec]
            BY <1>14, <2>1 DEF CollectGarbage, TypeInv, TypeOK
      <2>. QED BY <1>14, <2>2, <2>3, Zenon DEF CollectGarbage, TypeInv, TypeOK, informer
<1>15. CASE GenerateQuarksSecret
      <2>1. PICK v \in QSecs :
                   qsec' = [qsec EXCEPT ![v].generated = TRUE, ![v].genFrom = qsec[v].spec]
            BY <1>15 DEF GenerateQuarksSecret
      <2>2. [qsec[v] EXCEPT !.generated = TRUE, !.genFrom = qsec[v].spec] \in QSec
            BY DEF TypeInv, TypeOK, QSec
      <2>3. qsec' \in [QSecs -> QSec]
            BY <2>1, <2>2 DEF TypeInv, TypeOK
      <2>. QED BY <1>15, <2>3, Zenon DEF GenerateQuarksSecret, TypeInv, TypeOK, informer
<1>16. CASE CacheSync
      <2>1. cache' \in [exists: BOOLEAN, gen: Gens, inWindow: BOOLEAN]
            BY <1>16 DEF CacheSync, TypeInv, TypeOK
      <2>2. queued' \in BOOLEAN
            BY <1>16 DEF CacheSync
      <2>. QED BY <1>16, <2>1, <2>2, Zenon DEF CacheSync, TypeInv, TypeOK, derived
<1>17. CASE UNCHANGED vars
      <2>1. /\ bdpl' = bdpl /\ queued' = queued /\ delayed' = delayed
            /\ pc' = pc /\ snap' = snap /\ next' = next /\ failures' = failures
            /\ mansec' = mansec /\ qsec' = qsec /\ dmJob' = dmJob /\ igmJob' = igmJob
            /\ cache' = cache /\ synced' = synced /\ current' = current
            /\ windowWrites' = windowWrites
            BY <1>17 DEF vars
      <2>. QED BY <2>1, Zenon DEF TypeInv, TypeOK
<1>. QED
     BY <1>1, <1>2, <1>3, <1>4, <1>5, <1>6, <1>7, <1>8, <1>9, <1>10, <1>11,
        <1>12, <1>13, <1>14, <1>15, <1>16, <1>17
     DEF Next, Reconcile, Environment

\* Every reachable state is well typed (TypeOK of the MCReconciler runs).
THEOREM TypeCorrect == Spec => []TypeOK
<1>1. Init => TypeInv
      BY InitTypeInv
<1>2. TypeInv /\ [Next]_vars => TypeInv'
      BY NextTypeInv
<1>3. TypeInv => TypeOK
      BY DEF TypeInv
<1>. QED BY <1>1, <1>2, <1>3, PTL DEF Spec

-----------------------------------------------------------------------------
(* The informer cache, the meltdown window and the dependency order, via   *)
(* IInv == TypeOK /\ CacheInv /\ OrderInv.                                 *)

\* The fields of a well-typed state, as the arithmetic of the invariants
\* needs them.
TypeFacts ==
    /\ bdpl.exists \in BOOLEAN /\ bdpl.gen \in Nat /\ bdpl.inWindow \in BOOLEAN
    /\ cache.exists \in BOOLEAN /\ cache.gen \in Nat /\ cache.inWindow \in BOOLEAN
    /\ synced \in BOOLEAN /\ current \in BOOLEAN /\ windowWrites \in Nat
    /\ snap \in Nat /\ next \in Nat
    /\ mansec.exists \in BOOLEAN /\ mansec.gen \in Nat /\ mansec.owned \in BOOLEAN
    /\ dmJob.exists \in BOOLEAN /\ dmJob.gen \in Nat /\ dmJob.owned \in BOOLEAN
    /\ igmJob.exists \in BOOLEAN /\ igmJob.gen \in Nat /\ igmJob.owned \in BOOLEAN
    /\ \A v \in QSecs : /\ qsec[v].exists \in BOOLEAN /\ qsec[v].spec \in Nat
                        /\ qsec[v].generated \in BOOLEAN /\ qsec[v].owned \in BOOLEAN

LEMMA TypeFactsHold == TypeOK => TypeFacts
BY DEF TypeOK, TypeFacts, Object, QSec, Gens

LEMMA TypeFactsHoldNext == TypeOK' => TypeFacts'
BY DEF TypeOK, TypeFacts, Object, QSec, Gens

LEMMA InitIInv == Init => IInv
<1> SUFFICES ASSUME Init PROVE IInv
    OBVIOUS
<1>1. TypeOK
      BY InitTypeInv DEF TypeInv
<1>2. CacheInv
      BY DEF Init, CacheInv, OneStampPerWindow
<1>3. mansec.gen = 0 /\ dmJob.gen = 0 /\ igmJob.gen = 0 /\ ~mansec.exists
      /\ ~dmJob.exists /\ ~igmJob.exists
      BY DEF Init, Absent
<1>4. \A v \in QSecs : qsec[v].spec = 0 /\ ~qsec[v].exists
      BY DEF Init, NoQSec
<1>5. OrderInv
      BY <1>3, <1>4 DEF Init, OrderInv, PipelineOrder, ObjectsUpTo
<1>. QED BY <1>1, <1>2, <1>5 DEF IInv

-----------------------------------------------------------------------------
(* CacheInv: the cache and the window.                                     *)

\* A step that leaves the store and the informer alone and starts no pass.
LEMMA CacheFrame ==
    ASSUME CacheInv, UNCHANGED <<bdpl, informer>>, pc' # "Idle" => pc # "Idle"
    PROVE  CacheInv'
BY DEF CacheInv, OneStampPerWindow, informer

LEMMA FetchCacheInv ==
    ASSUME IInv, Fetch
    PROVE  CacheInv'
<1>1. UNCHANGED <<bdpl, cache, synced, windowWrites>>
      BY DEF Fetch
<1>2. CASE FetchNotFound \/ FetchError \/ FetchMeltdown
      <2>1. pc' = "Idle" /\ current' = current
            BY <1>2 DEF Fetch, FetchNotFound, FetchError, FetchMeltdown
      <2>. QED BY <1>1, <2>1 DEF IInv, CacheInv, OneStampPerWindow
\* The cached instance is the latest only when the cache is in sync, and
\* then the store's window is the cache's, which the check found closed.
<1>3. CASE FetchProceed
      <2>1. current' = synced /\ ~cache.inWindow
            BY <1>3 DEF FetchProceed
      <2>2. current' => ~bdpl.inWindow
            BY <2>1 DEF IInv, CacheInv
      <2>. QED BY <1>1, <2>2 DEF IInv, CacheInv, OneStampPerWindow
<1>. QED BY <1>2, <1>3 DEF Fetch

\* A successful status write comes from a pass holding the latest version,
\* which started outside the window: it opens the window with one write.
LEMMA UpdateStatusCacheInv ==
    ASSUME IInv, UpdateStatus
    PROVE  CacheInv'
<1>1. pc' = "Idle" /\ UNCHANGED <<cache, current>>
      BY DEF UpdateStatus
<1>2. CASE /\ bdpl.exists /\ current
           /\ bdpl' = [bdpl EXCEPT !.inWindow = TRUE]
           /\ synced' = FALSE
           /\ windowWrites' = IF bdpl.inWindow THEN 2 ELSE 1
      <2>1. ~bdpl.inWindow
            BY <1>2 DEF UpdateStatus, IInv, CacheInv
      <2>2. windowWrites' = 1
            BY <1>2, <2>1
      <2>3. bdpl'.inWindow /\ bdpl'.gen = bdpl.gen
            BY <1>2 DEF IInv, TypeOK
      <2>. QED BY <1>1, <1>2, <2>2, <2>3 DEF IInv, CacheInv, OneStampPerWindow
<1>3. CASE UNCHANGED <<bdpl, synced, windowWrites>>
      BY <1>1, <1>3 DEF IInv, CacheInv, OneStampPerWindow
<1>. QED BY <1>2, <1>3, Zenon DEF UpdateStatus

\* An edit or a delete makes the cache and the running call's instance
\* out of date and touches neither window.
LEMMA UserCacheInv ==
    ASSUME IInv, EditDeployment \/ DeleteDeployment
    PROVE  CacheInv'
<1>1. synced' = FALSE /\ current' = FALSE /\ UNCHANGED <<cache, windowWrites, pc>>
      BY DEF EditDeployment, DeleteDeployment
<1>2. bdpl'.inWindow = bdpl.inWindow /\ bdpl'.gen \in {bdpl.gen, bdpl.gen + 1}
      BY DEF EditDeployment, DeleteDeployment, IInv, TypeOK
<1>3. cache.gen <= bdpl'.gen
      BY <1>2, TypeFactsHold DEF IInv, CacheInv, TypeFacts
<1>. QED BY <1>1, <1>2, <1>3 DEF IInv, CacheInv, OneStampPerWindow

LEMMA CacheSyncCacheInv ==
    ASSUME IInv, CacheSync
    PROVE  CacheInv'
<1>1. cache' = bdpl /\ synced' = TRUE /\ UNCHANGED <<bdpl, current, windowWrites, pc>>
      BY DEF CacheSync
<1>2. bdpl.gen <= bdpl.gen
      BY TypeFactsHold DEF IInv, TypeFacts
<1>. QED BY <1>1, <1>2 DEF IInv, CacheInv, OneStampPerWindow

\* Time ends the window for the store and for a cache that holds its
\* lastReconcile alike.
LEMMA WindowExpiresCacheInv ==
    ASSUME IInv, WindowExpires
    PROVE  CacheInv'
<1>1. /\ bdpl' = [bdpl EXCEPT !.inWindow = FALSE]
      /\ cache' = [cache EXCEPT !.inWindow = FALSE]
      /\ windowWrites' = 0 /\ UNCHANGED <<synced, current, pc>>
      BY DEF WindowExpires
<1>2. ~bdpl'.inWindow /\ ~cache'.inWindow /\ cache'.gen = cache.gen /\ bdpl'.gen = bdpl.gen
      BY <1>1 DEF IInv, TypeOK
<1>3. synced' => cache' = bdpl'
      BY <1>1 DEF IInv, CacheInv
<1>. QED BY <1>1, <1>2, <1>3 DEF IInv, CacheInv, OneStampPerWindow

\* The pipeline steps after the fetch run inside a pass.
LEMMA PipelineCacheInv ==
    ASSUME IInv,
           \/ ResolveManifest \/ ListLinks \/ ManifestSecret \/ ConvertVariables
           \/ CreateQuarksSecret \/ DesiredManifestJob \/ InstanceGroupJob
    PROVE  CacheInv'
<1>1. pc # "Idle"
      BY DEF ResolveManifest, ListLinks, ManifestSecret, ConvertVariables,
             CreateQuarksSecret, DesiredManifestJob, InstanceGroupJob
<1>2. UNCHANGED <<bdpl, informer>>
      <2>1. CASE ResolveManifest \/ ListLinks
            BY <2>1 DEF ResolveManifest, ListLinks, Advance, Abort
      <2>2. CASE ManifestSecret \/ ConvertVariables
            BY <2>2 DEF ManifestSecret, ConvertVariables, Abort
      <2>3. CASE DesiredManifestJob \/ InstanceGroupJob
            BY <2>3 DEF DesiredManifestJob, InstanceGroupJob, Abort
      <2>4. CASE CreateQuarksSecret
            BY <2>4 DEF CreateQuarksSecret, Abort
      <2>. QED BY <2>1, <2>2, <2>3, <2>4
<1>. QED BY <1>1, <1>2, CacheFrame DEF IInv

LEMMA NextCacheInv == IInv /\ [Next]_vars => CacheInv'
<1> SUFFICES ASSUME IInv, [Next]_vars PROVE CacheInv'
    OBVIOUS
<1>1. CASE RequeueTimer \/ CollectGarbage \/ GenerateQuarksSecret \/ UNCHANGED vars
      <2>1. UNCHANGED <<bdpl, informer, pc>>
            BY <1>1 DEF RequeueTimer, CollectGarbage, GenerateQuarksSecret, vars, informer
      <2>. QED BY <2>1, CacheFrame DEF IInv
<1>. QED
     BY <1>1, FetchCacheInv, PipelineCacheInv, UpdateStatusCacheInv, UserCacheInv,
        CacheSyncCacheInv, WindowExpiresCacheInv
     DEF Next, Reconcile, Environment

-----------------------------------------------------------------------------
(* OrderInv: the dependency order.                                         *)

\* A bound on the derived objects holds for every larger generation.
LEMMA UpToMono ==
    ASSUME TypeOK, NEW g \in Nat, NEW h \in Nat, g <= h, ObjectsUpTo(g)
    PROVE  ObjectsUpTo(h)
BY TypeFactsHold DEF TypeFacts, ObjectsUpTo

\* Steps that change neither the derived objects, the pass nor the cached
\* generation.
LEMMA QuietOrder ==
    ASSUME IInv, TypeOK',
           \/ EditDeployment \/ DeleteDeployment \/ RequeueTimer \/ WindowExpires
    PROVE  OrderInv'
<1>1. UNCHANGED <<pc, snap, next, derived>>
      BY DEF EditDeployment, DeleteDeployment, RequeueTimer, WindowExpires
<1>2. cache'.gen = cache.gen
      BY DEF EditDeployment, DeleteDeployment, RequeueTimer, WindowExpires, informer, IInv, TypeOK
<1>. QED BY <1>1, <1>2 DEF IInv, OrderInv, PipelineOrder, ObjectsUpTo, derived

\* The cache catches up with the store: the bounds only grow.
LEMMA CacheSyncOrder ==
    ASSUME IInv, TypeOK', CacheSync
    PROVE  OrderInv'
<1>1. UNCHANGED <<pc, snap, next, derived>> /\ cache'.gen = bdpl.gen
      BY DEF CacheSync
<1>2. cache.gen <= bdpl.gen /\ bdpl.gen \in Nat /\ cache.gen \in Nat
      BY TypeFactsHold DEF IInv, CacheInv, TypeFacts
<1>3. ObjectsUpTo(bdpl.gen)
      BY <1>2, UpToMono DEF IInv, OrderInv
<1>4. pc # "Idle" => snap <= bdpl.gen
      BY <1>2, TypeFactsHold DEF IInv, OrderInv, TypeFacts
<1>. QED BY <1>1, <1>3, <1>4 DEF IInv, OrderInv, PipelineOrder, ObjectsUpTo, derived

LEMMA ConvertVariablesOrder ==
    ASSUME IInv, TypeOK', ConvertVariables
    PROVE  OrderInv'
BY TypeFactsHold, TypeFactsHoldNext DEF TypeFacts, ConvertVariables, Transient, Abort, QSecs, IInv, OrderInv, PipelineOrder, ObjectsUpTo, derived, informer,
       AfterManifestSecret, AfterQuarksSecrets

LEMMA ListLinksOrder ==
    ASSUME IInv, TypeOK', ListLinks
    PROVE  OrderInv'
BY TypeFactsHold, TypeFactsHoldNext DEF TypeFacts, ListLinks, Transient, Abort, Advance, IInv, OrderInv, PipelineOrder, ObjectsUpTo, derived, informer,
       AfterManifestSecret, AfterQuarksSecrets

LEMMA ResolveManifestOrder ==
    ASSUME IInv, TypeOK', ResolveManifest
    PROVE  OrderInv'
BY TypeFactsHold, TypeFactsHoldNext DEF TypeFacts, ResolveManifest, Transient, Abort, Advance, IInv, OrderInv, PipelineOrder, ObjectsUpTo, derived, informer,
       AfterManifestSecret, AfterQuarksSecrets

\* What CreateOrUpdate writes: an existing object of the given generation.
LEMMA AppliedFacts ==
    ASSUME NEW obj, NEW g
    PROVE  Applied(obj, g).exists /\ Applied(obj, g).gen = g
BY DEF Applied

LEMMA QSecAppliedFacts ==
    ASSUME NEW q \in QSec, NEW g \in 0..MaxGen
    PROVE  /\ QSecApplied(q, g).exists /\ QSecApplied(q, g).spec = g
           /\ [QSecApplied(q, g) EXCEPT !.generated = FALSE].exists
           /\ [QSecApplied(q, g) EXCEPT !.generated = FALSE].spec = g
<1>1. QSecApplied(q, g) \in QSec
      BY QSecAppliedType
<1>2. QSecApplied(q, g).exists /\ QSecApplied(q, g).spec = g
      BY DEF QSecApplied, QSec
<1>. QED BY <1>1, <1>2 DEF QSec

\* A step that ends the pass and writes nothing preserves IInv.
LEMMA IdleOrder ==
    ASSUME IInv, TypeOK', pc' = "Idle", cache'.gen = cache.gen, UNCHANGED derived
    PROVE  OrderInv'
<1>1. mansec' = mansec /\ qsec' = qsec /\ dmJob' = dmJob /\ igmJob' = igmJob
      BY DEF derived
<1>2. PipelineOrder'
      BY <1>1 DEF IInv, OrderInv, PipelineOrder
<1>3. ObjectsUpTo(cache.gen)'
      BY <1>1 DEF IInv, OrderInv, ObjectsUpTo
<1>. QED BY <1>2, <1>3 DEF OrderInv, AfterManifestSecret, AfterQuarksSecrets

\* A step that only deletes derived objects or changes their status: what
\* still exists keeps its generation.
ObjShrinks(o, o2) == (o2.exists => o.exists /\ o2.gen = o.gen) /\ o2.gen <= o.gen
QShrinks(v) ==
    /\ qsec'[v].exists => qsec[v].exists /\ qsec'[v].spec = qsec[v].spec
    /\ qsec'[v].spec <= qsec[v].spec
Shrinks ==
    /\ ObjShrinks(mansec, mansec') /\ ObjShrinks(dmJob, dmJob') /\ ObjShrinks(igmJob, igmJob')
    /\ \A v \in QSecs : QShrinks(v)

LEMMA UnchangedShrinks ==
    ASSUME TypeOK, UNCHANGED derived
    PROVE  Shrinks
BY TypeFactsHold DEF TypeFacts, derived, Shrinks, ObjShrinks, QShrinks

LEMMA ShrinksNoRollback ==
    ASSUME TypeOK, Shrinks
    PROVE  NoRollbackStep
BY TypeFactsHold DEF TypeFacts, Shrinks, ObjShrinks, QShrinks, NoRollbackStep

LEMMA ShrinkOrder ==
    ASSUME IInv, TypeOK', UNCHANGED <<pc, snap, next, cache>>, Shrinks
    PROVE  OrderInv'
<1>0. TypeFacts /\ TypeFacts'
      BY TypeFactsHold, TypeFactsHoldNext DEF IInv
<1> USE <1>0 DEF TypeFacts, Shrinks, ObjShrinks, QShrinks
<1>1. PipelineOrder'
      BY DEF IInv, OrderInv, PipelineOrder
<1>2. ObjectsUpTo(cache.gen)'
      BY DEF IInv, OrderInv, ObjectsUpTo
<1>3. (pc # "Idle" => snap <= cache.gen /\ ObjectsUpTo(snap))'
      BY DEF IInv, OrderInv, ObjectsUpTo
<1>4. (pc \in AfterManifestSecret /\ mansec.exists => mansec.gen = snap)'
      BY DEF IInv, OrderInv
<1>5. (pc = "CreateQuarksSecrets" =>
          /\ next \in QSecs
          /\ \A v \in QSecs : v < next /\ qsec[v].exists => qsec[v].spec = snap)'
      BY DEF IInv, OrderInv
<1>6. (pc \in AfterQuarksSecrets => \A v \in QSecs : qsec[v].exists => qsec[v].spec = snap)'
      BY DEF IInv, OrderInv
<1>7. (pc \in {"InstanceGroupJob", "UpdateStatus"} /\ dmJob.exists => dmJob.gen = snap)'
      BY DEF IInv, OrderInv
<1>. QED BY <1>1, <1>2, <1>3, <1>4, <1>5, <1>6, <1>7 DEF OrderInv

LEMMA CollectGarbageShrinks ==
    ASSUME TypeOK, CollectGarbage
    PROVE  Shrinks /\ UNCHANGED <<pc, snap, next, cache>>
<1>0. TypeFacts
      BY TypeFactsHold
<1> USE <1>0 DEF TypeFacts, Shrinks, ObjShrinks, QShrinks, Absent, NoQSec
<1>1. CASE mansec' = Absent /\ UNCHANGED <<qsec, dmJob, igmJob>>
      BY <1>1 DEF CollectGarbage, informer
<1>2. CASE dmJob' = Absent /\ UNCHANGED <<mansec, qsec, igmJob>>
      BY <1>2 DEF CollectGarbage, informer
<1>3. CASE igmJob' = Absent /\ UNCHANGED <<mansec, qsec, dmJob>>
      BY <1>3 DEF CollectGarbage, informer
<1>4. CASE \E v \in QSecs : qsec' = [qsec EXCEPT ![v] = NoQSec] /\ UNCHANGED <<mansec, dmJob, igmJob>>
      <2>1. PICK v \in QSecs : qsec' = [qsec EXCEPT ![v] = NoQSec] /\ UNCHANGED <<mansec, dmJob, igmJob>>
            BY <1>4
      <2>2. \A w \in QSecs : QShrinks(w)
            BY <2>1 DEF TypeOK
      <2>. QED BY <2>1, <2>2 DEF CollectGarbage, informer
<1>. QED BY <1>1, <1>2, <1>3, <1>4 DEF CollectGarbage, informer

LEMMA GenerateQuarksSecretShrinks ==
    ASSUME TypeOK, GenerateQuarksSecret
    PROVE  Shrinks /\ UNCHANGED <<pc, snap, next, cache>>
<1>0. TypeFacts
      BY TypeFactsHold
<1>1. PICK u \in QSecs : qsec' = [qsec EXCEPT ![u].generated = TRUE, ![u].genFrom = qsec[u].spec]
      BY DEF GenerateQuarksSecret
<1>2. \A w \in QSecs : qsec'[w].exists = qsec[w].exists /\ qsec'[w].spec = qsec[w].spec
      BY <1>1 DEF TypeOK, QSec
<1>3. UNCHANGED <<pc, snap, next, cache, mansec, dmJob, igmJob>>
      BY DEF GenerateQuarksSecret, informer
<1>4. \A w \in QSecs : QShrinks(w)
      BY <1>0, <1>2 DEF TypeFacts, QShrinks
<1>. QED BY <1>0, <1>3, <1>4 DEF TypeFacts, Shrinks, ObjShrinks

LEMMA CollectGarbageOrder ==
    ASSUME IInv, TypeOK', CollectGarbage
    PROVE  OrderInv'
BY CollectGarbageShrinks, ShrinkOrder DEF IInv

LEMMA GenerateQuarksSecretOrder ==
    ASSUME IInv, TypeOK', GenerateQuarksSecret
    PROVE  OrderInv'
BY GenerateQuarksSecretShrinks, ShrinkOrder DEF IInv

\* A failed call that aborts the pass preserves IInv.
LEMMA AbortOrder ==
    ASSUME IInv, TypeOK', Abort
    PROVE  OrderInv'
BY IdleOrder DEF Abort, informer

LEMMA UpdateStatusOrder ==
    ASSUME IInv, TypeOK', UpdateStatus
    PROVE  OrderInv'
BY IdleOrder DEF UpdateStatus

\* Inside a pass: the snapshot bounds every object.
LEMMA InPass ==
    ASSUME IInv, pc # "Idle"
    PROVE  snap <= cache.gen /\ ObjectsUpTo(snap)
BY DEF IInv, OrderInv

LEMMA ManifestSecretOrder ==
    ASSUME IInv, TypeOK', ManifestSecret
    PROVE  OrderInv'
<1>1. CASE Transient /\ Abort
      BY <1>1, AbortOrder
<1>2. CASE /\ mansec' = Applied(mansec, snap)
           /\ pc' = "ConvertVariables"
           /\ UNCHANGED <<delayed, bdpl, informer, queued, snap, next, failures, qsec, dmJob, igmJob>>
      <2>0. TypeFacts /\ TypeFacts'
            BY TypeFactsHold, TypeFactsHoldNext DEF IInv
      <2>1. mansec'.exists /\ mansec'.gen = snap
            BY <1>2, AppliedFacts
      <2>2. snap <= cache.gen /\ ObjectsUpTo(snap)
            BY InPass DEF ManifestSecret
      <2>3. PipelineOrder'
            BY <1>2, <2>0, <2>1, <2>2 DEF IInv, OrderInv, PipelineOrder, ObjectsUpTo, TypeFacts
      <2>4. ObjectsUpTo(cache.gen)' /\ ObjectsUpTo(snap)'
            BY <1>2, <2>0, <2>1, <2>2 DEF IInv, OrderInv, ObjectsUpTo, TypeFacts, informer
      <2>. QED BY <1>2, <2>1, <2>2, <2>3, <2>4
               DEF OrderInv, AfterManifestSecret, AfterQuarksSecrets, informer
<1>. QED BY <1>1, <1>2 DEF ManifestSecret

LEMMA DesiredManifestJobOrder ==
    ASSUME IInv, TypeOK', DesiredManifestJob
    PROVE  OrderInv'
<1>1. CASE Transient /\ Abort
      BY <1>1, AbortOrder
<1>2. CASE /\ dmJob' = Applied(dmJob, snap)
           /\ pc' = "InstanceGroupJob"
           /\ UNCHANGED <<delayed, bdpl, informer, queued, snap, next, failures, mansec, qsec, igmJob>>
      <2>0. TypeFacts /\ TypeFacts'
            BY TypeFactsHold, TypeFactsHoldNext DEF IInv
      <2>1. dmJob'.exists /\ dmJob'.gen = snap
            BY <1>2, AppliedFacts
      <2>2. snap <= cache.gen /\ ObjectsUpTo(snap)
            BY InPass DEF DesiredManifestJob
      <2>3. /\ mansec.exists => mansec.gen = snap
            /\ \A v \in QSecs : qsec[v].exists => qsec[v].spec = snap
            BY DEF DesiredManifestJob, IInv, OrderInv, AfterManifestSecret, AfterQuarksSecrets
      <2>4. PipelineOrder'
            BY <1>2, <2>0, <2>1, <2>2, <2>3 DEF PipelineOrder, ObjectsUpTo, TypeFacts
      <2>5. ObjectsUpTo(cache.gen)' /\ ObjectsUpTo(snap)'
            BY <1>2, <2>0, <2>1, <2>2 DEF IInv, OrderInv, ObjectsUpTo, TypeFacts, informer
      <2>. QED BY <1>2, <2>1, <2>2, <2>3, <2>4, <2>5
               DEF OrderInv, AfterManifestSecret, AfterQuarksSecrets, informer
<1>. QED BY <1>1, <1>2 DEF DesiredManifestJob

LEMMA InstanceGroupJobOrder ==
    ASSUME IInv, TypeOK', InstanceGroupJob
    PROVE  OrderInv'
<1>1. CASE Transient /\ Abort
      BY <1>1, AbortOrder
<1>2. CASE /\ igmJob' = Applied(igmJob, snap)
           /\ pc' = "UpdateStatus"
           /\ UNCHANGED <<delayed, bdpl, informer, queued, snap, next, failures, mansec, qsec, dmJob>>
      <2>0. TypeFacts /\ TypeFacts'
            BY TypeFactsHold, TypeFactsHoldNext DEF IInv
      <2>1. igmJob'.exists /\ igmJob'.gen = snap
            BY <1>2, AppliedFacts
      <2>2. snap <= cache.gen /\ ObjectsUpTo(snap)
            BY InPass DEF InstanceGroupJob
      <2>3. /\ mansec.exists => mansec.gen = snap
            /\ \A v \in QSecs : qsec[v].exists => qsec[v].spec = snap
            /\ dmJob.exists => dmJob.gen = snap
            BY DEF InstanceGroupJob, IInv, OrderInv, AfterManifestSecret, AfterQuarksSecrets
      <2>4. PipelineOrder'
            BY <1>2, <2>0, <2>1, <2>3 DEF IInv, OrderInv, PipelineOrder, TypeFacts
      <2>5. ObjectsUpTo(cache.gen)' /\ ObjectsUpTo(snap)'
            BY <1>2, <2>0, <2>1, <2>2 DEF IInv, OrderInv, ObjectsUpTo, TypeFacts, informer
      <2>. QED BY <1>2, <2>1, <2>2, <2>3, <2>4, <2>5
               DEF OrderInv, AfterManifestSecret, AfterQuarksSecrets, informer
<1>. QED BY <1>1, <1>2 DEF InstanceGroupJob

LEMMA FetchOrder ==
    ASSUME IInv, TypeOK', Fetch
    PROVE  OrderInv'
<1>1. pc = "Idle" /\ UNCHANGED <<cache, next, derived>>
      BY DEF Fetch
<1>2. CASE FetchNotFound \/ FetchError \/ FetchMeltdown
      BY <1>1, <1>2, IdleOrder DEF FetchNotFound, FetchError, FetchMeltdown
\* The pass starts on the cached generation, which bounds every object.
<1>3. CASE FetchProceed
      <2>1. pc' = "ResolveManifest" /\ snap' = cache.gen
            BY <1>3 DEF FetchProceed
      <2>2. mansec' = mansec /\ qsec' = qsec /\ dmJob' = dmJob /\ igmJob' = igmJob
            BY <1>1 DEF derived
      <2>3. PipelineOrder' /\ ObjectsUpTo(cache.gen)'
            BY <1>1, <2>2 DEF IInv, OrderInv, PipelineOrder, ObjectsUpTo
      <2>4. (snap <= cache.gen /\ ObjectsUpTo(snap))'
            BY <1>1, <2>1, <2>2, TypeFactsHold DEF IInv, OrderInv, ObjectsUpTo, TypeFacts
      <2>. QED BY <1>1, <2>1, <2>3, <2>4
               DEF OrderInv, AfterManifestSecret, AfterQuarksSecrets, informer
<1>. QED BY <1>2, <1>3 DEF Fetch

LEMMA CreateQuarksSecretOrder ==
    ASSUME IInv, TypeOK', CreateQuarksSecret
    PROVE  OrderInv'
<1>0. TypeFacts /\ TypeFacts'
      BY TypeFactsHold, TypeFactsHoldNext DEF IInv
<1>1. pc = "CreateQuarksSecrets" /\ next \in QSecs
      BY DEF CreateQuarksSecret, IInv, OrderInv
<1>2. snap <= cache.gen /\ ObjectsUpTo(snap)
      BY <1>1, InPass
<1>3. qsec[next] \in QSec /\ snap \in 0..MaxGen
      BY <1>1 DEF IInv, TypeOK
<1>4. CASE Transient /\ Abort
      BY <1>4, AbortOrder
<1>5. CASE /\ qsec' = [qsec EXCEPT ![next] = QSecApplied(qsec[next], snap)]
           /\ pc' = "Idle"
           /\ UNCHANGED <<delayed, bdpl, informer, snap, next, mansec, dmJob, igmJob>>
      <2>1. qsec'[next].exists /\ qsec'[next].spec = snap
            BY <1>1, <1>3, <1>5, QSecAppliedFacts DEF IInv, TypeOK
      <2>2. \A w \in QSecs \ {next} : qsec'[w] = qsec[w]
            BY <1>5 DEF IInv, TypeOK
      <2>3. PipelineOrder'
            BY <1>0, <1>2, <1>5, <2>1, <2>2 DEF IInv, OrderInv, PipelineOrder, ObjectsUpTo, TypeFacts
      <2>4. ObjectsUpTo(cache.gen)'
            BY <1>0, <1>2, <1>5, <2>1, <2>2 DEF IInv, OrderInv, ObjectsUpTo, TypeFacts, informer
      <2>. QED BY <1>5, <2>3, <2>4
               DEF OrderInv, AfterManifestSecret, AfterQuarksSecrets, informer
<1>6. CASE /\ qsec' = [qsec EXCEPT ![next] =
                  IF qsec[next].exists /\ qsec[next].spec # snap
                  THEN [QSecApplied(qsec[next], snap) EXCEPT !.generated = FALSE]
                  ELSE QSecApplied(qsec[next], snap)]
           /\ pc' = IF next = NumVars THEN "DesiredManifestJob" ELSE pc
           /\ next' = next + 1
           /\ UNCHANGED <<delayed, bdpl, informer, queued, snap, failures, mansec, dmJob, igmJob>>
      <2>1. qsec'[next].exists /\ qsec'[next].spec = snap
            BY <1>1, <1>3, <1>6, QSecAppliedFacts DEF IInv, TypeOK
      <2>2. \A w \in QSecs \ {next} : qsec'[w] = qsec[w]
            BY <1>6 DEF IInv, TypeOK
      <2>3. \A v \in QSecs : v < next /\ qsec[v].exists => qsec[v].spec = snap
            BY <1>1 DEF IInv, OrderInv
      <2>4. mansec.exists => mansec.gen = snap
            BY <1>1 DEF IInv, OrderInv, AfterManifestSecret
      <2>5. PipelineOrder'
            BY <1>0, <1>2, <1>6, <2>1, <2>2 DEF IInv, OrderInv, PipelineOrder, ObjectsUpTo, TypeFacts
      <2>6. ObjectsUpTo(cache.gen)' /\ ObjectsUpTo(snap)'
            BY <1>0, <1>2, <1>6, <2>1, <2>2 DEF IInv, OrderInv, ObjectsUpTo, TypeFacts, informer
      <2>7. \A v \in QSecs : v < next' /\ qsec'[v].exists => qsec'[v].spec = snap'
            BY <1>1, <1>6, <2>1, <2>2, <2>3 DEF QSecs
      <2>8. CASE next = NumVars
            <3>1. pc' = "DesiredManifestJob"
                  BY <1>6, <2>8
            <3>2. \A v \in QSecs : qsec'[v].exists => qsec'[v].spec = snap'
                  BY <1>6, <2>7, <2>8 DEF QSecs
            <3>. QED BY <1>2, <1>6, <2>4, <2>5, <2>6, <3>1, <3>2
                     DEF OrderInv, AfterManifestSecret, AfterQuarksSecrets, informer
      <2>9. CASE next # NumVars
            <3>1. pc' = "CreateQuarksSecrets" /\ next' \in QSecs
                  BY <1>1, <1>6, <2>9 DEF QSecs
            <3>. QED BY <1>2, <1>6, <2>4, <2>5, <2>6, <2>7, <3>1
                     DEF OrderInv, AfterManifestSecret, AfterQuarksSecrets, informer
      <2>. QED BY <2>8, <2>9
<1>. QED BY <1>4, <1>5, <1>6 DEF CreateQuarksSecret

\* The writes render from snap, which bounds every existing object.
LEMMA ManifestSecretNoRollback ==
    ASSUME IInv, TypeOK', ManifestSecret
    PROVE  NoRollbackStep
<1>1. CASE Transient /\ Abort
      BY <1>1, UnchangedShrinks, ShrinksNoRollback DEF Abort, IInv
<1>2. CASE /\ mansec' = Applied(mansec, snap)
           /\ UNCHANGED <<qsec, dmJob, igmJob>>
      <2>1. mansec'.gen = snap /\ mansec.gen <= snap
            BY <1>2, AppliedFacts, InPass DEF ManifestSecret, ObjectsUpTo
      <2>. QED BY <1>2, <2>1, TypeFactsHold DEF IInv, TypeFacts, NoRollbackStep
<1>. QED BY <1>1, <1>2 DEF ManifestSecret

LEMMA DesiredManifestJobNoRollback ==
    ASSUME IInv, TypeOK', DesiredManifestJob
    PROVE  NoRollbackStep
<1>1. CASE Transient /\ Abort
      BY <1>1, UnchangedShrinks, ShrinksNoRollback DEF Abort, IInv
<1>2. CASE /\ dmJob' = Applied(dmJob, snap)
           /\ UNCHANGED <<mansec, qsec, igmJob>>
      <2>1. dmJob'.gen = snap /\ dmJob.gen <= snap
            BY <1>2, AppliedFacts, InPass DEF DesiredManifestJob, ObjectsUpTo
      <2>. QED BY <1>2, <2>1, TypeFactsHold DEF IInv, TypeFacts, NoRollbackStep
<1>. QED BY <1>1, <1>2 DEF DesiredManifestJob

LEMMA InstanceGroupJobNoRollback ==
    ASSUME IInv, TypeOK', InstanceGroupJob
    PROVE  NoRollbackStep
<1>1. CASE Transient /\ Abort
      BY <1>1, UnchangedShrinks, ShrinksNoRollback DEF Abort, IInv
<1>2. CASE /\ igmJob' = Applied(igmJob, snap)
           /\ UNCHANGED <<mansec, qsec, dmJob>>
      <2>1. igmJob'.gen = snap /\ igmJob.gen <= snap
            BY <1>2, AppliedFacts, InPass DEF InstanceGroupJob, ObjectsUpTo
      <2>. QED BY <1>2, <2>1, TypeFactsHold DEF IInv, TypeFacts, NoRollbackStep
<1>. QED BY <1>1, <1>2 DEF InstanceGroupJob

LEMMA CreateQuarksSecretNoRollback ==
    ASSUME IInv, TypeOK', CreateQuarksSecret
    PROVE  NoRollbackStep
<1>1. pc = "CreateQuarksSecrets" /\ next \in QSecs
      BY DEF CreateQuarksSecret, IInv, OrderInv
<1>2. qsec[next] \in QSec /\ snap \in 0..MaxGen /\ qsec[next].spec <= snap
      BY <1>1, InPass DEF IInv, TypeOK, ObjectsUpTo
<1>3. CASE Transient /\ Abort
      BY <1>3, UnchangedShrinks, ShrinksNoRollback DEF Abort, IInv
<1>4. CASE /\ \E nq \in {QSecApplied(qsec[next], snap),
                         [QSecApplied(qsec[next], snap) EXCEPT !.generated = FALSE]} :
                 qsec' = [qsec EXCEPT ![next] = nq]
           /\ UNCHANGED <<mansec, dmJob, igmJob>>
      <2>1. PICK nq \in {QSecApplied(qsec[next], snap),
                         [QSecApplied(qsec[next], snap) EXCEPT !.generated = FALSE]} :
                 qsec' = [qsec EXCEPT ![next] = nq]
            BY <1>4
      <2>2. nq.spec = snap
            <3>1. QSecApplied(qsec[next], snap).spec = snap
                  /\ [QSecApplied(qsec[next], snap) EXCEPT !.generated = FALSE].spec = snap
                  BY <1>2, QSecAppliedFacts
            <3>. QED BY <2>1, <3>1, Zenon
      <2>4. qsec'[next].spec = snap
            BY <1>1, <2>1, <2>2 DEF IInv, TypeOK
      <2>3. \A w \in QSecs \ {next} : qsec'[w] = qsec[w]
            BY <2>1 DEF IInv, TypeOK
      <2>. QED BY <1>2, <1>4, <2>3, <2>4, TypeFactsHold DEF IInv, TypeFacts, NoRollbackStep
<1>. QED BY <1>3, <1>4 DEF CreateQuarksSecret

\* IInv is inductive.
LEMMA NextIInv == IInv /\ [Next]_vars => IInv'
<1> SUFFICES ASSUME IInv, [Next]_vars PROVE IInv'
    OBVIOUS
<1>1. TypeOK'
      BY NextTypeInv DEF IInv, OrderInv, TypeInv
<1>2. CacheInv'
      BY NextCacheInv
<1>3. OrderInv'
      <2>1. CASE UNCHANGED vars
            BY <2>1 DEF vars, IInv, OrderInv, PipelineOrder, ObjectsUpTo,
                        AfterManifestSecret, AfterQuarksSecrets
      <2>. QED
           BY <1>1, <2>1, FetchOrder, ResolveManifestOrder, ListLinksOrder,
              ManifestSecretOrder, ConvertVariablesOrder, CreateQuarksSecretOrder,
              DesiredManifestJobOrder, InstanceGroupJobOrder, UpdateStatusOrder,
              QuietOrder, CacheSyncOrder, CollectGarbageOrder, GenerateQuarksSecretOrder
           DEF Next, Reconcile, Environment
<1>. QED BY <1>1, <1>2, <1>3 DEF IInv

\* A step from a state of IInv rolls no derived object back.
LEMMA NextNoRollback == IInv /\ [Next]_vars => NoRollbackStep
<1> SUFFICES ASSUME IInv, [Next]_vars PROVE NoRollbackStep
    OBVIOUS
<1>1. TypeOK'
      BY NextTypeInv DEF IInv, OrderInv, TypeInv
<1>2. CASE ManifestSecret \/ CreateQuarksSecret \/ DesiredManifestJob \/ InstanceGroupJob
      BY <1>1, <1>2, ManifestSecretNoRollback, CreateQuarksSecretNoRollback,
         DesiredManifestJobNoRollback, InstanceGroupJobNoRollback
<1>3. CASE CollectGarbage
      BY <1>3, CollectGarbageShrinks, ShrinksNoRollback DEF IInv
<1>4. CASE GenerateQuarksSecret
      BY <1>4, GenerateQuarksSecretShrinks, ShrinksNoRollback DEF IInv
<1>5. CASE \/ Fetch \/ ResolveManifest \/ ListLinks \/ ConvertVariables \/ UpdateStatus
           \/ EditDeployment \/ DeleteDeployment \/ CacheSync \/ WindowExpires
           \/ RequeueTimer \/ UNCHANGED vars
      <2>1. UNCHANGED derived
            BY <1>5 DEF Fetch, ResolveManifest, ListLinks, ConvertVariables, UpdateStatus,
                       EditDeployment, DeleteDeployment, CacheSync, WindowExpires,
                       RequeueTimer, vars, derived, Advance, Abort
      <2>. QED BY <2>1, UnchangedShrinks, ShrinksNoRollback DEF IInv
<1>. QED BY <1>2, <1>3, <1>4, <1>5 DEF Next, Reconcile, Environment

\* Every reachable state satisfies IInv.
THEOREM OrderInvariant == Spec => []IInv
BY InitIInv, NextIInv, PTL DEF Spec

\* The derived objects keep their dependency order (Reconcile lines
\* 127-177) for every number of edits, variables and transient failures
\* and however far the informer cache lags: the instance group manifest
\* job is never newer than the desired manifest job, nor that job newer
\* than the manifest secret or any QuarksSecret.
THEOREM PipelineOrderHolds == Spec => []PipelineOrder
BY OrderInvariant, PTL DEF IInv, OrderInv

\* lastReconcile is written at most once per meltdown window (Reconcile
\* lines 106-109 and 180-186) however far the informer cache lags: a pass
\* that passed the meltdown check on a stale copy sends an old
\* resourceVersion, so its Status().Update conflicts.
THEOREM WindowStampedOnce == Spec => []OneStampPerWindow
BY OrderInvariant, PTL DEF IInv, CacheInv

\* No write of Reconcile replaces a derived object with one rendered from
\* an older generation: each pass renders from the instance client.Get
\* returned at line 92 from the informer cache, which only moves forward
\* and is never older than what was rendered.
THEOREM NoRollbackHolds == Spec => NoRollback
<1>1. IInv /\ [Next]_vars => [NoRollbackStep]_vars
      BY NextNoRollback
<1>. QED BY <1>1, OrderInvariant, PTL DEF NoRollback, Spec

=============================================================================
