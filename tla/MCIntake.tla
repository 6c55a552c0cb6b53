------------------------------ MODULE MCIntake ------------------------------
(***************************************************************************)
(* Model checking of product intake, the sessions on the server            *)
(* (IntakeSession) and the dialog that a user works in (IntakeShell), in   *)
(* one run: part names the one that a behaviour is about, and the other    *)
(* stays as it began.                                                      *)
(***************************************************************************)
EXTENDS MCIntakeSession

CONSTANTS
    Keys, NoKey,                       \* the drafts of the dialog
    MaxSessions, MaxStamps, MaxMishaps \* bounds on what happens in it

(* A field is known by its draft or as the title. *)
ASSUME DialogAssumption ==
    /\ NoKey \notin Keys
    /\ "title" \notin Keys \cup {NoKey}
    /\ {MaxSessions, MaxStamps, MaxMishaps} \subseteq Nat

VARIABLES part, dUi, dRow, dCall, dMade, dMishaps, dStamp, dAstray

dvars == <<dUi, dRow, dCall, dMade, dMishaps, dStamp, dAstray>>

D == INSTANCE IntakeShell WITH
        Calls <- Requests, ui <- dUi, row <- dRow, call <- dCall, made <- dMade, mishaps <- dMishaps,
        stamp <- dStamp, astray <- dAstray

MCInit == part \in {"sessions", "dialog"} /\ Init /\ D!Init

MCNext ==
    \/ part = "sessions" /\ Next /\ UNCHANGED <<part, dvars>>
    \/ part = "dialog" /\ D!Next /\ UNCHANGED <<part, vars>>
    \/ part = "dialog" /\ D!Exhausted /\ UNCHANGED <<part, vars, dvars>>

MCSpec == MCInit /\ [][MCNext]_<<part, vars, dvars>>

(* The other part stays as it began. *)
MCView == IF part = "sessions" THEN View ELSE dvars

-----------------------------------------------------------------------------
(* The properties of the dialog under their own names *)

(* Drafts and commits use what the user saw (IntakeShell). *)
SeenIsUsed == part = "dialog" => D!SeenIsUsed

(* A session that its dialog has left is over (IntakeShell). *)
LeftIsOver == part = "dialog" => D!LeftIsOver
=============================================================================
