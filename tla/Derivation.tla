----------------------------- MODULE Derivation -----------------------------
(***************************************************************************)
(* What the document of a file promises to its readers, whatever queues    *)
(* and workers do behind it.  Variations form a tree under the original;   *)
(* a variation is recorded when it has been derived from a recorded        *)
(* source.  The file may be published once, and removed for good.          *)
(***************************************************************************)
CONSTANTS Variations, Original, Source

VARIABLES
  phase,      \* "new", "stored" or "removed"
  published,  \* the file has been activated
  derived     \* the recorded variations

vars == <<phase, published, derived>>

Init == phase = "new" /\ published = FALSE /\ derived = {}

Store ==
  /\ phase = "new"
  /\ phase' = "stored"
  /\ UNCHANGED <<published, derived>>

Derive(v) ==
  /\ phase = "stored"
  /\ Source[v] \in derived \cup {Original}
  /\ derived' = derived \cup {v}
  /\ UNCHANGED <<phase, published>>

Publish ==
  /\ phase = "stored"
  /\ published' = TRUE
  /\ UNCHANGED <<phase, derived>>

Remove ==
  /\ phase = "stored"
  /\ phase' = "removed"
  /\ UNCHANGED <<published, derived>>

Next == Store \/ (\E v \in Variations : Derive(v)) \/ Publish \/ Remove

Spec == Init /\ [][Next]_vars

=============================================================================
