-------------------------- MODULE MCIntakeSession --------------------------
(* Model checking of IntakeSession on small sets. *)
EXTENDS IntakeSession, TLC

(* Requests are interchangeable, and so are the drafts of a session. *)
Symmetry == Permutations(Requests) \cup Permutations(DraftKeys)
(* The concurrent run leaves out "crashed": no action reads this history   *)
(* variable, and the properties of that run only ask for its type.         *)
View == <<session, created, pc, seen, out>>
=============================================================================
