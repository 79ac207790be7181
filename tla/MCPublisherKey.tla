--------------------------- MODULE MCPublisherKey ---------------------------
(***************************************************************************)
(* A small instance of PublisherKey: the daily ticker and one timer, which *)
(* are enough for two rotations to meet, and rotations up to key MaxKey.   *)
(***************************************************************************)
EXTENDS PublisherKey
=============================================================================
