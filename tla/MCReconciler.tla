---------------------------- MODULE MCReconciler ----------------------------
(* Instance of Reconciler for TLC: three generations (two edits), two      *)
(* QuarksSecrets so that createQuarksSecrets can stop between them, and   *)
(* two transient failures so that a pass can abort at two different steps. *)
EXTENDS Reconciler

MCMaxGen  == 3
MCNumVars == 2
MCMaxFail == 2
=============================================================================
