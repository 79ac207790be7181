--------------------------- MODULE RefreshedValue ---------------------------
(***************************************************************************)
(* What ProtectedResolver and Classifier both promise of the value they    *)
(* keep fresh, whatever the number of requests and of goroutines: one look *)
(* for a new value at a time; the value in use changes only as a whole, at *)
(* the end of a look that brought one, or at a restart; a look that brings *)
(* nothing leaves it alone; what a restart may find was in use once, or is *)
(* the owner's own.                                                        *)
(***************************************************************************)
CONSTANTS
  Values,       \* what may be in use
  Initial,      \* what is in use before anything was found
  Own           \* what the owner of the machine may leave for a restart

VARIABLES
  current,      \* the value in use
  kept,         \* what a restart may go on with
  phase         \* "none", or how far the look for a new value is

vars == <<current, kept, phase>>

Init == current = Initial /\ kept = {Initial} /\ phase = "none"

Look == phase = "none" /\ phase' = "looking" /\ UNCHANGED <<current, kept>>

Replace ==
  /\ phase = "looking" /\ phase' = "keeping"
  /\ current' \in Values
  /\ UNCHANGED kept

GiveUp == phase = "looking" /\ phase' = "ending" /\ UNCHANGED <<current, kept>>

\* Keeping may fail, and may take several steps.
Keep ==
  /\ phase = "keeping" /\ phase' \in {"keeping", "ending"}
  /\ kept' # {} /\ kept' \subseteq kept \cup {current}
  /\ UNCHANGED current

End == phase = "ending" /\ phase' = "none" /\ UNCHANGED <<current, kept>>

Restart == phase' = "none" /\ current' \in kept /\ UNCHANGED kept

\* The owner of the machine changes or removes what was kept.
Edit ==
  /\ kept' # {} /\ kept' \subseteq kept \cup Own
  /\ UNCHANGED <<current, phase>>

Next == Look \/ Replace \/ GiveUp \/ Keep \/ End \/ Restart \/ Edit

Spec == Init /\ [][Next]_vars

=============================================================================
