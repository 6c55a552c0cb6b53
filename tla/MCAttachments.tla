--------------------------- MODULE MCAttachments ---------------------------
(* Model checking of Attachments on small sets. *)
EXTENDS Attachments, TLC

(* Files, contents and requests are interchangeable. *)
Symmetry == Permutations(Files) \cup Permutations(Bodies) \cup Permutations(Requests)

(* What the properties still tell apart of the mishaps: after an overlap   *)
(* only how much the quota may be exceeded, after a crash only that.       *)
Class ==
    CASE "overlap" \in mishaps -> "overlap"
      [] mishaps \cap {"overlap", "crash"} = {"crash"} -> "crash"
      [] mishaps \cap {"overlap", "crash"} = {} /\ mishaps \cap {"storage", "foreign"} # {} -> "failure"
      [] mishaps = {"throw"} -> "throw"
      [] mishaps = {} -> "none"

Unread == Class \in {"overlap", "crash"}

(* No action reads a backup job, a mishap or a checksum, so states that    *)
(* differ in jobs only, or in mishaps of one class, are explored once, and *)
(* so are those that differ in checksums when no property looks at them.   *)
View == <<[f \in Files |-> IF Unread /\ Exists(f) THEN [row[f] EXCEPT !.checksum = None]
                           ELSE row[f]],
          links, there, blob, pc, loc, Class>>
=============================================================================
