----------------------------- MODULE CommitOnce -----------------------------
(***************************************************************************)
(* What a commit of an intake session promises: the items of the session   *)
(* are created together, at most once, and a session that says committed   *)
(* is final.  Its items exist before it says so.                           *)
(***************************************************************************)
CONSTANT Items

VARIABLES
    phase,    \* "open", "committing" or "committed"
    created   \* the items created

PInit == phase = "open" /\ created = {}

Lock == phase = "open" /\ phase' = "committing" /\ UNCHANGED created

Create ==
    /\ phase = "committing" /\ created = {}
    /\ created' \in SUBSET Items /\ created' # {}
    /\ UNCHANGED phase

Reopen ==
    /\ phase = "committing" /\ created = {}
    /\ phase' = "open"
    /\ UNCHANGED created

Close ==
    /\ phase = "committing" /\ created # {}
    /\ phase' = "committed"
    /\ UNCHANGED created

PNext == Lock \/ Create \/ Reopen \/ Close

PSpec == PInit /\ [][PNext]_<<phase, created>>
=============================================================================
