---------------------------- MODULE CanvasAccess ----------------------------
(***************************************************************************)
(* The parts of the system that read Canvas's submission records, before   *)
(* one Canvas: verification of webhooks asks whether a submission exists,  *)
(* the tasks of flow runs look submissions up, and Canvas changes the      *)
(* records, and its signing keys, under both.                              *)
(***************************************************************************)
EXTENDS WebhookAuth, SubmissionLookup

accessVars == <<assigned, auth, lookup>>

AccessInit == AuthInit /\ LookupInit

AccessNext ==
  \/ (Handle \/ Rotate) /\ UNCHANGED lookup
  \/ (Lookup \/ Reassign) /\ UNCHANGED auth

AccessSpec == AccessInit /\ [][AccessNext]_accessVars
=============================================================================
