-------------------------- MODULE RefinementProofs --------------------------
(***************************************************************************)
(* Proof that Reconciler implements DeploymentObjects under the mapping   *)
(* Abs of Reconciler: initial states map to initial states, and every step *)
(* of Reconcile or of its environment is a step of DeploymentObjects or    *)
(* leaves the mapped state unchanged.  The argument rests on IInv of       *)
(* ReconcilerProofs: a pass writes from snap, which bounds every object    *)
(* and is bounded by the cached and so by the deployment's generation, and *)
(* PipelineOrder is the abstract Ordered.                                 *)
(***************************************************************************)
EXTENDS ReconcilerProofs

\* A running pass holds a generation the deployment has had: client.Get
\* returned an existing deployment, whose generation is at least 1.
SnapInv == pc # "Idle" => snap \in Gens

LEMMA InitSnapInv == Init => SnapInv
BY DEF Init, SnapInv

LEMMA NextSnapInv ==
    ASSUME TypeOK, SnapInv, [Next]_vars
    PROVE  SnapInv'
<1>1. CASE Fetch
      BY <1>1 DEF Fetch, FetchNotFound, FetchError, FetchMeltdown, FetchProceed, SnapInv, TypeOK
<1>2. CASE \/ ResolveManifest \/ ListLinks \/ ManifestSecret \/ ConvertVariables
           \/ CreateQuarksSecret \/ DesiredManifestJob \/ InstanceGroupJob \/ UpdateStatus
      <2>1. pc # "Idle"
            BY <1>2 DEF ResolveManifest, ListLinks, ManifestSecret, ConvertVariables,
                        CreateQuarksSecret, DesiredManifestJob, InstanceGroupJob, UpdateStatus
      <2>2. snap' = snap
            BY <1>2 DEF ResolveManifest, ListLinks, ManifestSecret, ConvertVariables,
                        CreateQuarksSecret, DesiredManifestJob, InstanceGroupJob, UpdateStatus,
                        Advance, Abort
      <2>. QED BY <2>1, <2>2 DEF SnapInv
<1>3. CASE Environment \/ UNCHANGED vars
      BY <1>3 DEF Environment, EditDeployment, DeleteDeployment, WindowExpires, RequeueTimer,
                  CacheSync, CollectGarbage, GenerateQuarksSecret, vars, SnapInv
<1>. QED BY <1>1, <1>2, <1>3 DEF Next, Reconcile

-----------------------------------------------------------------------------
(* The mapping.                                                            *)

LEMMA AbsMainAt ==
    /\ DOMAIN absMain = Abs!Main
    /\ absMain["mansec"] = Rendered(mansec)
    /\ absMain["dmJob"] = Rendered(dmJob)
    /\ absMain["igmJob"] = Rendered(igmJob)
BY DEF absMain, Abs!Main

\* Initial states of Reconciler map to the initial state of DeploymentObjects.
LEMMA InitRefines == Init => Abs!Init
<1> SUFFICES ASSUME Init PROVE Abs!Init
    OBVIOUS
<1>1. Rendered(mansec) = 0 /\ Rendered(dmJob) = 0 /\ Rendered(igmJob) = 0
      BY DEF Init, Rendered, Absent
<1>2. absMain = [k \in Abs!Main |-> 0]
      BY <1>1 DEF absMain, Abs!Main
<1>3. absSpecs = [v \in Abs!Vars |-> 0]
      BY DEF Init, absSpecs, NoQSec, QSecs, Abs!Vars
<1>. QED BY <1>2, <1>3 DEF Init, Abs!Init

\* A step that changes neither the deployment's existence and generation
\* nor what any derived object was rendered from is a stutter of the
\* abstract specification.
LEMMA StutterAbs ==
    ASSUME bdpl'.exists = bdpl.exists, bdpl'.gen = bdpl.gen,
           Rendered(mansec') = Rendered(mansec), Rendered(dmJob') = Rendered(dmJob),
           Rendered(igmJob') = Rendered(igmJob), absSpecs' = absSpecs
    PROVE  UNCHANGED Abs!vars
<1>1. absMain' = absMain
      BY DEF absMain
<1>. QED BY <1>1 DEF Abs!vars

LEMMA UnchangedAbs ==
    ASSUME bdpl'.exists = bdpl.exists, bdpl'.gen = bdpl.gen, UNCHANGED derived
    PROVE  UNCHANGED Abs!vars
<1>1. absSpecs' = absSpecs
      BY DEF derived, absSpecs
<1>. QED BY <1>1, StutterAbs DEF derived

\* PipelineOrder is the abstract Ordered of the mapped objects.
LEMMA OrderedNext ==
    ASSUME TypeFacts', PipelineOrder'
    PROVE  Abs!Ordered(absMain', absSpecs')
<1>1. /\ absMain'["mansec"] = Rendered(mansec')
      /\ absMain'["dmJob"] = Rendered(dmJob')
      /\ absMain'["igmJob"] = Rendered(igmJob')
      BY DEF absMain
<1>2. \A v \in QSecs : absSpecs'[v] = IF qsec'[v].exists THEN qsec'[v].spec ELSE 0
      BY DEF absSpecs
<1>. QED BY <1>1, <1>2 DEF Abs!Ordered, Abs!Vars, QSecs, Rendered, PipelineOrder, TypeFacts

\* A pass writing object k of the main three from snap re-renders it.
LEMMA RenderMainStep ==
    ASSUME IInv, IInv', SnapInv, pc # "Idle", NEW k \in Abs!Main,
           absMain' = [absMain EXCEPT ![k] = snap], absMain[k] <= snap,
           absSpecs' = absSpecs, bdpl' = bdpl
    PROVE  Abs!Next
<1>1. snap \in 1..MaxGen /\ snap <= bdpl.gen
      BY InPass, TypeFactsHold DEF SnapInv, Gens, IInv, CacheInv, TypeFacts
<1>2. Abs!Ordered(absMain', absSpecs')
      BY OrderedNext, TypeFactsHoldNext DEF IInv, OrderInv
<1>3. Abs!RenderMain(k, snap)
      BY <1>1, <1>2 DEF Abs!RenderMain
<1>. QED BY <1>1, <1>3 DEF Abs!Next

\* A pass writing the spec of QuarksSecret v from snap re-renders it.
LEMMA RenderSpecStep ==
    ASSUME IInv, IInv', SnapInv, pc # "Idle", NEW v \in QSecs,
           absSpecs' = [absSpecs EXCEPT ![v] = snap], absSpecs[v] <= snap,
           absMain' = absMain, bdpl' = bdpl
    PROVE  Abs!Next
<1>1. snap \in 1..MaxGen /\ snap <= bdpl.gen
      BY InPass, TypeFactsHold DEF SnapInv, Gens, IInv, CacheInv, TypeFacts
<1>2. Abs!Ordered(absMain', absSpecs')
      BY OrderedNext, TypeFactsHoldNext DEF IInv, OrderInv
<1>3. Abs!RenderSpec(v, snap)
      BY <1>1, <1>2 DEF Abs!RenderSpec
<1>. QED BY <1>1, <1>3 DEF Abs!Next, Abs!Vars, QSecs

-----------------------------------------------------------------------------
(* Each action of Reconciler is a step or a stutter of DeploymentObjects. *)

LEMMA AbortRefines ==
    ASSUME Abort
    PROVE  UNCHANGED Abs!vars
BY UnchangedAbs DEF Abort

LEMMA ManifestSecretRefines ==
    ASSUME IInv, IInv', SnapInv, ManifestSecret
    PROVE  [Abs!Next]_Abs!vars
<1>1. CASE Transient /\ Abort
      BY <1>1, AbortRefines
<1>2. CASE /\ mansec' = Applied(mansec, snap)
           /\ UNCHANGED <<bdpl, qsec, dmJob, igmJob>>
      <2>1. Rendered(mansec') = snap
            BY <1>2, AppliedFacts DEF Rendered
      <2>2. absMain' = [absMain EXCEPT !["mansec"] = snap]
            BY <1>2, <2>1 DEF absMain
      <2>3. absMain["mansec"] <= snap
            BY AbsMainAt, InPass, TypeFactsHold DEF ManifestSecret, IInv, ObjectsUpTo, Rendered, TypeFacts
      <2>4. absSpecs' = absSpecs
            BY <1>2 DEF absSpecs
      <2>. QED BY <1>2, <2>2, <2>3, <2>4, RenderMainStep DEF ManifestSecret, Abs!Main
<1>. QED BY <1>1, <1>2 DEF ManifestSecret

LEMMA DesiredManifestJobRefines ==
    ASSUME IInv, IInv', SnapInv, DesiredManifestJob
    PROVE  [Abs!Next]_Abs!vars
<1>1. CASE Transient /\ Abort
      BY <1>1, AbortRefines
<1>2. CASE /\ dmJob' = Applied(dmJob, snap)
           /\ UNCHANGED <<bdpl, qsec, mansec, igmJob>>
      <2>1. Rendered(dmJob') = snap
            BY <1>2, AppliedFacts DEF Rendered
      <2>2. absMain' = [absMain EXCEPT !["dmJob"] = snap]
            BY <1>2, <2>1 DEF absMain
      <2>3. absMain["dmJob"] <= snap
            BY AbsMainAt, InPass, TypeFactsHold DEF DesiredManifestJob, IInv, ObjectsUpTo, Rendered, TypeFacts
      <2>4. absSpecs' = absSpecs
            BY <1>2 DEF absSpecs
      <2>. QED BY <1>2, <2>2, <2>3, <2>4, RenderMainStep DEF DesiredManifestJob, Abs!Main
<1>. QED BY <1>1, <1>2 DEF DesiredManifestJob

LEMMA InstanceGroupJobRefines ==
    ASSUME IInv, IInv', SnapInv, InstanceGroupJob
    PROVE  [Abs!Next]_Abs!vars
<1>1. CASE Transient /\ Abort
      BY <1>1, AbortRefines
<1>2. CASE /\ igmJob' = Applied(igmJob, snap)
           /\ UNCHANGED <<bdpl, qsec, mansec, dmJob>>
      <2>1. Rendered(igmJob') = snap
            BY <1>2, AppliedFacts DEF Rendered
      <2>2. absMain' = [absMain EXCEPT !["igmJob"] = snap]
            BY <1>2, <2>1 DEF absMain
      <2>3. absMain["igmJob"] <= snap
            BY AbsMainAt, InPass, TypeFactsHold DEF InstanceGroupJob, IInv, ObjectsUpTo, Rendered, TypeFacts
      <2>4. absSpecs' = absSpecs
            BY <1>2 DEF absSpecs
      <2>. QED BY <1>2, <2>2, <2>3, <2>4, RenderMainStep DEF InstanceGroupJob, Abs!Main
<1>. QED BY <1>1, <1>2 DEF InstanceGroupJob

LEMMA CreateQuarksSecretRefines ==
    ASSUME IInv, IInv', SnapInv, CreateQuarksSecret
    PROVE  [Abs!Next]_Abs!vars
<1>1. pc = "CreateQuarksSecrets" /\ next \in QSecs
      BY DEF CreateQuarksSecret, IInv, OrderInv
<1>2. qsec[next] \in QSec /\ snap \in 0..MaxGen /\ qsec[next].spec <= snap
      BY <1>1, InPass DEF IInv, TypeOK, ObjectsUpTo
<1>3. CASE Transient /\ Abort
      BY <1>3, AbortRefines
<1>4. CASE /\ \E nq \in {QSecApplied(qsec[next], snap),
                         [QSecApplied(qsec[next], snap) EXCEPT !.generated = FALSE]} :
                 qsec' = [qsec EXCEPT ![next] = nq]
           /\ UNCHANGED <<bdpl, mansec, dmJob, igmJob>>
      <2>1. PICK nq \in {QSecApplied(qsec[next], snap),
                         [QSecApplied(qsec[next], snap) EXCEPT !.generated = FALSE]} :
                 qsec' = [qsec EXCEPT ![next] = nq]
            BY <1>4
      <2>2. nq.exists /\ nq.spec = snap
            <3>1. /\ QSecApplied(qsec[next], snap).exists
                  /\ QSecApplied(qsec[next], snap).spec = snap
                  /\ [QSecApplied(qsec[next], snap) EXCEPT !.generated = FALSE].exists
                  /\ [QSecApplied(qsec[next], snap) EXCEPT !.generated = FALSE].spec = snap
                  BY <1>2, QSecAppliedFacts
            <3>. QED BY <2>1, <3>1, Zenon
      <2>3. qsec'[next] = nq /\ \A w \in QSecs \ {next} : qsec'[w] = qsec[w]
            BY <1>1, <2>1 DEF IInv, TypeOK
      <2>4. absSpecs' = [absSpecs EXCEPT ![next] = snap]
            BY <1>1, <2>2, <2>3 DEF absSpecs
      <2>5. absSpecs[next] <= snap
            BY <1>1, <1>2 DEF absSpecs
      <2>6. absMain' = absMain
            BY <1>4 DEF absMain
      <2>. QED BY <1>1, <1>4, <2>4, <2>5, <2>6, RenderSpecStep
<1>. QED BY <1>3, <1>4 DEF CreateQuarksSecret

LEMMA CollectGarbageRefines ==
    ASSUME TypeOK, CollectGarbage
    PROVE  [Abs!Next]_Abs!vars
<1>0. UNCHANGED bdpl /\ Rendered(Absent) = 0
      BY DEF CollectGarbage, Rendered, Absent
<1>1. CASE ~bdpl.exists /\ mansec' = Absent /\ UNCHANGED <<qsec, dmJob, igmJob>>
      <2>1. absMain' = [absMain EXCEPT !["mansec"] = 0] /\ absSpecs' = absSpecs
            BY <1>0, <1>1 DEF absMain, absSpecs
      <2>. QED BY <1>0, <1>1, <2>1 DEF Abs!Next, Abs!RemoveMain, Abs!Main
<1>2. CASE ~bdpl.exists /\ dmJob' = Absent /\ UNCHANGED <<mansec, qsec, igmJob>>
      <2>1. absMain' = [absMain EXCEPT !["dmJob"] = 0] /\ absSpecs' = absSpecs
            BY <1>0, <1>2 DEF absMain, absSpecs
      <2>. QED BY <1>0, <1>2, <2>1 DEF Abs!Next, Abs!RemoveMain, Abs!Main
<1>3. CASE ~bdpl.exists /\ igmJob' = Absent /\ UNCHANGED <<mansec, qsec, dmJob>>
      <2>1. absMain' = [absMain EXCEPT !["igmJob"] = 0] /\ absSpecs' = absSpecs
            BY <1>0, <1>3 DEF absMain, absSpecs
      <2>. QED BY <1>0, <1>3, <2>1 DEF Abs!Next, Abs!RemoveMain, Abs!Main
<1>4. CASE \E v \in QSecs : /\ ~mansec.exists
                            /\ qsec' = [qsec EXCEPT ![v] = NoQSec]
                            /\ UNCHANGED <<mansec, dmJob, igmJob>>
      <2>1. PICK v \in QSecs : /\ ~mansec.exists
                               /\ qsec' = [qsec EXCEPT ![v] = NoQSec]
                               /\ UNCHANGED <<mansec, dmJob, igmJob>>
            BY <1>4
      <2>2. absSpecs' = [absSpecs EXCEPT ![v] = 0]
            BY <2>1 DEF absSpecs, NoQSec, TypeOK
      <2>3. absMain' = absMain /\ absMain["mansec"] = 0
            BY <2>1, AbsMainAt DEF absMain, Rendered
      <2>. QED BY <1>0, <2>2, <2>3 DEF Abs!Next, Abs!RemoveSpec, Abs!Vars, QSecs
<1>. QED BY <1>1, <1>2, <1>3, <1>4 DEF CollectGarbage

LEMMA EditDeploymentRefines ==
    ASSUME TypeOK, EditDeployment
    PROVE  [Abs!Next]_Abs!vars
<1>1. bdpl'.exists = bdpl.exists /\ bdpl'.gen = bdpl.gen + 1
      BY DEF EditDeployment, TypeOK
<1>2. absMain' = absMain /\ absSpecs' = absSpecs
      BY DEF EditDeployment, derived, absMain, absSpecs
<1>. QED BY <1>1, <1>2 DEF EditDeployment, Abs!Next, Abs!Edit

LEMMA DeleteDeploymentRefines ==
    ASSUME TypeOK, DeleteDeployment
    PROVE  [Abs!Next]_Abs!vars
<1>1. bdpl'.exists = FALSE /\ bdpl'.gen = bdpl.gen
      BY DEF DeleteDeployment, TypeOK
<1>2. absMain' = absMain /\ absSpecs' = absSpecs
      BY DEF DeleteDeployment, derived, absMain, absSpecs
<1>. QED BY <1>1, <1>2 DEF DeleteDeployment, Abs!Next, Abs!Delete

\* Steps that write no derived object and keep the deployment's existence
\* and generation: the fetch, the steps that only read, the status write,
\* the clock, the timer and the QuarksSecret controller.
LEMMA SilentRefines ==
    ASSUME TypeOK,
           \/ Fetch \/ ResolveManifest \/ ListLinks \/ ConvertVariables \/ UpdateStatus
           \/ WindowExpires \/ RequeueTimer \/ CacheSync \/ GenerateQuarksSecret
           \/ UNCHANGED vars
    PROVE  UNCHANGED Abs!vars
<1>1. bdpl'.exists = bdpl.exists /\ bdpl'.gen = bdpl.gen
      BY DEF Fetch, ResolveManifest, ListLinks, ConvertVariables, UpdateStatus,
             WindowExpires, RequeueTimer, CacheSync, GenerateQuarksSecret, vars, Advance,
             Abort, TypeOK
<1>2. CASE GenerateQuarksSecret
      <2>1. PICK u \in QSecs : qsec' = [qsec EXCEPT ![u].generated = TRUE, ![u].genFrom = qsec[u].spec]
            BY <1>2 DEF GenerateQuarksSecret
      <2>2. absSpecs' = absSpecs
            BY <2>1 DEF absSpecs, TypeOK, QSec
      <2>. QED BY <1>1, <1>2, <2>2, StutterAbs DEF GenerateQuarksSecret
<1>3. CASE ~GenerateQuarksSecret
      <2>1. UNCHANGED derived
            BY <1>3 DEF Fetch, ResolveManifest, ListLinks, ConvertVariables, UpdateStatus,
                        WindowExpires, RequeueTimer, CacheSync, vars, derived, Advance, Abort
      <2>. QED BY <1>1, <2>1, UnchangedAbs
<1>. QED BY <1>2, <1>3

\* Every step from a state of IInv and SnapInv maps to a step or a stutter.
LEMMA NextRefines ==
    ASSUME IInv, IInv', SnapInv, [Next]_vars
    PROVE  [Abs!Next]_Abs!vars
<1>1. TypeOK
      BY DEF IInv
<1>. QED BY <1>1, ManifestSecretRefines, DesiredManifestJobRefines, InstanceGroupJobRefines,
            CreateQuarksSecretRefines, CollectGarbageRefines, EditDeploymentRefines,
            DeleteDeploymentRefines, SilentRefines
         DEF Next, Reconcile, Environment

\* Reconciler implements DeploymentObjects (run reconcile_refinement): for
\* every number of generations, variables and failures, every behaviour of
\* Reconcile with the user, the garbage collector and the QuarksSecret
\* controller only re-renders derived objects from generations between
\* their own and the deployment's, in dependency order, and removes them
\* only once their owner is gone.
THEOREM Refinement == Spec => ImplementsDeploymentObjects
<1>1. Init => IInv /\ SnapInv /\ Abs!Init
      BY InitIInv, InitSnapInv, InitRefines
<1>2. IInv /\ SnapInv /\ [Next]_vars => IInv' /\ SnapInv'
      BY NextIInv, NextSnapInv DEF IInv
<1>3. IInv /\ SnapInv /\ [Next]_vars /\ IInv' => [Abs!Next]_Abs!vars
      BY NextRefines
<1>. QED BY <1>1, <1>2, <1>3, PTL DEF Spec, ImplementsDeploymentObjects, Abs!Spec

=============================================================================
