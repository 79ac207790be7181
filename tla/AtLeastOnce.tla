---------------------------- MODULE AtLeastOnce -----------------------------
(***************************************************************************)
(* What the decision log promises of the events it takes: they reach the   *)
(* portal together, and each stays in the log until the portal has it.     *)
(* What is lost is accounted for: an event is never just forgotten.        *)
(***************************************************************************)
CONSTANT Events

VARIABLES pending, delivered, lost

vars == <<pending, delivered, lost>>

Init == pending = {} /\ delivered = {} /\ lost = {}

Take ==
  /\ \E e \in Events \ (pending \cup delivered \cup lost) : pending' = pending \cup {e}
  /\ UNCHANGED <<delivered, lost>>

\* Everything pending, perhaps not for the first time.
Deliver ==
  /\ delivered' = delivered \cup pending
  /\ UNCHANGED <<pending, lost>>

\* Only when the portal has all of it.
Forget ==
  /\ pending \subseteq delivered
  /\ pending' = {}
  /\ UNCHANGED <<delivered, lost>>

\* A part of the log is gone.
Lose ==
  /\ pending' \in SUBSET pending
  /\ lost' = lost \cup (pending \ pending')
  /\ UNCHANGED delivered

\* A new event is lost as it is taken.
Miss ==
  /\ \E e \in Events \ (pending \cup delivered \cup lost) : lost' = lost \cup {e}
  /\ UNCHANGED <<pending, delivered>>

Next == Take \/ Deliver \/ Forget \/ Lose \/ Miss

Spec == Init /\ [][Next]_vars

=============================================================================
