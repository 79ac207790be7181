----------------------------- MODULE MCResolver -----------------------------
(***************************************************************************)
(* Small instances of Resolver.  The First URL sends an ETag with every    *)
(* document, and a date with one; the Second sends dates and no ETag.  Or  *)
(* the sites are Mixed: an ETag of First is also that of another document  *)
(* of Second, and both send documents without the validator that the       *)
(* document before them had.                                               *)
(***************************************************************************)
EXTENDS Resolver, TLC

CONSTANTS First, Second, Mixed

MCETags == {"a", "b", "c"}
MCETagOf ==
  [p \in URLs \X Bodies |->
     CASE p = <<First, {}>> -> "a"
       [] p = <<First, Paths>> -> "b"
       [] p = <<First, EmptyBody>> /\ ~Mixed -> "c"
       [] p = <<Second, {}>> /\ Mixed -> "b"
       [] OTHER -> Unset]
MCDated ==
  IF Mixed THEN {<<Second, Paths>>} ELSE {<<First, Paths>>} \cup {Second} \X Bodies

\* Requests are interchangeable, and so are refreshes: sound for safety.
Interchangeable == Permutations(Threads) \cup Permutations(Workers)
=============================================================================
