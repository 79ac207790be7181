---------------------------- MODULE MCClassifier ----------------------------
(***************************************************************************)
(* A small instance of Classifier: one request beside the check that the   *)
(* start makes, and two refreshes, which would both run if the flag were   *)
(* not looked at again under the lock.                                     *)
(***************************************************************************)
EXTENDS Classifier
=============================================================================
