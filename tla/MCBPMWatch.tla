------------------------------ MODULE MCBPMWatch ------------------------------
(* Instance of BPMWatch for TLC: a BPM information secret and another      *)
(* secret, three changes after the start (a create, an update that adds   *)
(* or drops the versioned label, a re-create) and one failed reconcile.   *)
EXTENDS BPMWatch

CONSTANTS bpm, other

MCSecrets  == {bpm, other}
MCBPMNames == {bpm}
MCMaxRev   == 3
MCMaxFail  == 1

\* A nil label map, a kind label of another value, and VersionSecretKind:
\* each outcome of isVersionedSecret but the missing label, which returns
\* false like the nil map.
MCLabels   == {NilLabels, [kind |-> "other"], [kind |-> "versionedSecret"]}

=============================================================================
