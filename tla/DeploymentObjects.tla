--------------------------- MODULE DeploymentObjects ---------------------------
(***************************************************************************)
(* What the BOSHDeployment controller promises about the objects it        *)
(* derives from a deployment, stated without passes, errors or retries.    *)
(* Each derived object is either absent (0) or rendered from some          *)
(* generation of the deployment.  An object is only ever re-rendered from  *)
(* a generation no older than the one it has and no newer than the         *)
(* deployment's, in the dependency order the jobs need; and it is only     *)
(* removed once its owner is gone.                                         *)
(***************************************************************************)
EXTENDS Naturals

CONSTANTS MaxGen, NumVars

VARIABLES
    exists,  \* the deployment exists
    gen,     \* its metadata.generation
    main,    \* the manifest secret and the two jobs: generation, 0 if absent
    specs    \* the QuarksSecrets: generation of their spec, 0 if absent

vars == <<exists, gen, main, specs>>

Main == {"mansec", "dmJob", "igmJob"}
Vars == 1..NumVars

\* The desired manifest job is rendered from no newer a generation than the
\* manifest secret and the QuarksSecrets it interpolates, and the instance
\* group job from no newer a generation than the desired manifest job.
Ordered(m, q) ==
    /\ m["dmJob"] # 0 /\ m["mansec"] # 0 => m["dmJob"] <= m["mansec"]
    /\ \A v \in Vars : m["dmJob"] # 0 /\ q[v] # 0 => m["dmJob"] <= q[v]
    /\ m["igmJob"] # 0 /\ m["dmJob"] # 0 => m["igmJob"] <= m["dmJob"]

Init ==
    /\ exists = TRUE /\ gen = 1
    /\ main = [k \in Main |-> 0]
    /\ specs = [v \in Vars |-> 0]

Edit ==
    /\ exists /\ gen < MaxGen
    /\ gen' = gen + 1
    /\ UNCHANGED <<exists, main, specs>>

Delete ==
    /\ exists
    /\ exists' = FALSE
    /\ UNCHANGED <<gen, main, specs>>

\* (Re-)render one object from generation g.
RenderMain(k, g) ==
    /\ main[k] <= g /\ g <= gen
    /\ main' = [main EXCEPT ![k] = g]
    /\ Ordered(main', specs)
    /\ UNCHANGED <<exists, gen, specs>>

RenderSpec(v, g) ==
    /\ specs[v] <= g /\ g <= gen
    /\ specs' = [specs EXCEPT ![v] = g]
    /\ Ordered(main, specs')
    /\ UNCHANGED <<exists, gen, main>>

\* Garbage collection: the manifest secret and the jobs are owned by the
\* deployment, the QuarksSecrets by the manifest secret.
RemoveMain(k) ==
    /\ ~exists
    /\ main' = [main EXCEPT ![k] = 0]
    /\ UNCHANGED <<exists, gen, specs>>

RemoveSpec(v) ==
    /\ main["mansec"] = 0
    /\ specs' = [specs EXCEPT ![v] = 0]
    /\ UNCHANGED <<exists, gen, main>>

Next ==
    \/ Edit \/ Delete
    \/ \E k \in Main, g \in 1..MaxGen : RenderMain(k, g)
    \/ \E v \in Vars, g \in 1..MaxGen : RenderSpec(v, g)
    \/ \E k \in Main : RemoveMain(k)
    \/ \E v \in Vars : RemoveSpec(v)

Spec == Init /\ [][Next]_vars

=============================================================================
