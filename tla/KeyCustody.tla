----------------------------- MODULE KeyCustody -----------------------------
(***************************************************************************)
(* What PublisherKeyManager promises of the secrets that the portal        *)
(* issues, one after the other: as if one goroutine exchanged the secret   *)
(* in use for the next one, put that in use, and only then thought of      *)
(* another exchange.  Secrets are numbered in the order they are issued.   *)
(***************************************************************************)
EXTENDS Integers

CONSTANT Shared   \* TRUE: another manager has the same key and state file

VARIABLES
  issued,      \* the secret the portal accepts
  received,    \* the last secret that reached the manager
  inUse,       \* the secret that log shipping sends
  saved,       \* the secret the next start finds
  rotating     \* an exchange is under way

vars == <<issued, received, inUse, saved, rotating>>

Init == issued = 0 /\ received = 0 /\ inUse = 0 /\ saved = 0 /\ rotating = FALSE

Begin == ~rotating /\ rotating' = TRUE /\ UNCHANGED <<issued, received, inUse, saved>>

\* The secret in use is exchanged: it is the live one, and no newer one is waiting.
Exchange ==
  /\ rotating /\ inUse = issued /\ received = inUse
  /\ issued' = issued + 1 /\ received' = issued + 1
  /\ UNCHANGED <<inUse, saved, rotating>>

Use ==
  /\ rotating /\ inUse' = received
  /\ UNCHANGED <<issued, received, saved, rotating>>

Save == saved' = inUse /\ UNCHANGED <<issued, received, inUse, rotating>>

\* A new secret does not reach this manager: its answer was lost, or is another's.
Miss ==
  /\ Shared \/ (rotating /\ inUse = issued)
  /\ issued' = issued + 1
  /\ UNCHANGED saved \/ (Shared /\ saved' = issued')
  /\ UNCHANGED <<received, inUse, rotating>>

\* An exchange does not end while a secret it brought waits to be used.
End ==
  /\ rotating /\ received = inUse
  /\ rotating' = FALSE
  /\ UNCHANGED <<issued, received, inUse, saved>>

\* Another manager saves what it has.
Overwrite ==
  /\ Shared /\ saved' \in 0 .. issued
  /\ UNCHANGED <<issued, received, inUse, rotating>>

Restart ==
  /\ inUse' = saved /\ received' = saved /\ rotating' = FALSE
  /\ UNCHANGED <<issued, saved>>

Next ==
  \/ Begin \/ Exchange \/ Use \/ End
  \/ Save \/ Miss \/ Overwrite \/ Restart

Spec == Init /\ [][Next]_vars

=============================================================================
