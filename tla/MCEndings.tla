----------------------------- MODULE MCEndings -----------------------------
(***************************************************************************)
(* Model checking of the parts of the system that share no state with one  *)
(* another, in one run: part names the one that a behaviour is about, and  *)
(* the others stay as they began.  The states are those of the parts one   *)
(* by one: a sum and not a product.  Each part is what its own module      *)
(* specifies, with its fairness.                                           *)
(*                                                                         *)
(* Parts take model values from the same sets: a call of a token endpoint  *)
(* is also a request on columns, a fetch of the window and a recipient of  *)
(* notifications; a token is a column; a request of the intake is the user *)
(* of the tokens and an entry of the audit log.                            *)
(***************************************************************************)
EXTENDS IntakeSession

CONSTANTS Tokens, Families, Clients, Calls, NoToken, NoRow, NoClient, NoRequest

VARIABLES
    part,
    tNow, tRow, tMinted, tBorn, tLock, tActive, tPc, tLoc,
    dColumns, dDefaults, dPc, dJob, dMishaps,
    hRev, hTold, hEvents, hConnected, hDragging, hView, hShown, hFetches, hMishaps,
    aAt, aPlan, aTodo, aNow, aOut, aRecord, aMishaps

tvars == <<tNow, tRow, tMinted, tBorn, tLock, tActive, tPc, tLoc>>
dvars == <<dColumns, dDefaults, dPc, dJob, dMishaps>>
hvars == <<hRev, hTold, hEvents, hConnected, hDragging, hView, hShown, hFetches, hMishaps>>
avars == <<aAt, aPlan, aTodo, aNow, aOut, aRecord, aMishaps>>

T == INSTANCE McpRefreshTokens WITH
        Users <- Requests, Requests <- Calls, Grace <- 1, RefreshTTL <- 1, MaxTime <- 2,
        now <- tNow, row <- tRow, minted <- tMinted, born <- tBorn, lock <- tLock,
        active <- tActive, pc <- tPc, loc <- tLoc

D == INSTANCE DefaultColumn WITH
        Columns <- Tokens, Requests <- Calls, NoColumn <- NoToken,
        columns <- dColumns, defaults <- dDefaults, pc <- dPc, job <- dJob, mishaps <- dMishaps

H == INSTANCE HubView WITH
        Fetches <- Calls, MaxRev <- 2,
        rev <- hRev, told <- hTold, events <- hEvents, connected <- hConnected,
        dragging <- hDragging, view <- hView, shown <- hShown, fetches <- hFetches, mishaps <- hMishaps

A == INSTANCE Notifications WITH
        Entries <- Requests, Users <- Calls, NoDelivery <- NoToken,
        at <- aAt, plan <- aPlan, todo <- aTodo, now <- aNow, out <- aOut, record <- aRecord,
        mishaps <- aMishaps

(* What stands for nothing is none of the things (as McpRefreshTokens has  *)
(* it).                                                                    *)
ASSUME EndingsAssumption ==
    /\ NoToken \notin Tokens /\ NoRow \notin T!Row
    /\ NoRequest \notin Calls /\ NoClient \notin Clients

Parts == {"tokens", "intake", "columns", "hub", "audit"}

allvars == <<part, vars, tvars, dvars, hvars, avars>>

(* A part that is not the one looked at begins in one state only. *)
MCInit ==
    /\ part \in Parts
    /\ Init /\ T!Init /\ D!Init /\ H!Init /\ A!Init
    /\ part # "columns" => dColumns = Tokens /\ dDefaults = {CHOOSE t \in Tokens : TRUE}
    /\ part # "hub" => hView = "list"

(* An action of a part is a step of it alone. *)
Intake_(a) == part = "intake" /\ a /\ UNCHANGED <<part, tvars, dvars, hvars, avars>>
Tokens_(a) == part = "tokens" /\ a /\ UNCHANGED <<part, vars, dvars, hvars, avars>>
Columns_(a) == part = "columns" /\ a /\ UNCHANGED <<part, vars, tvars, hvars, avars>>
Hub_(a) == part = "hub" /\ a /\ UNCHANGED <<part, vars, tvars, dvars, avars>>
Audit_(a) == part = "audit" /\ a /\ UNCHANGED <<part, vars, tvars, dvars, hvars>>

MCNext ==
    \/ Intake_(Next) \/ Tokens_(T!Next) \/ Columns_(D!Next) \/ Hub_(H!Next) \/ Audit_(A!Next)

(* As one part is at work only, the fairness of several can be stated by   *)
(* one formula.                                                            *)
MCFairness ==
    /\ \A c \in Calls :
          /\ SF_allvars(Tokens_(T!Step(c)) \/ Columns_(D!Go(c)))
          /\ WF_allvars(Columns_(D!TimeOut(c)) \/ Hub_(H!Serve(c)))
    /\ \A r \in Requests : WF_allvars(Intake_(Continue(r)) \/ Audit_(A!Go(r)))
    /\ SF_allvars(Hub_(H!Deliver))

MCSpec == MCInit /\ [][MCNext]_allvars /\ MCFairness

-----------------------------------------------------------------------------
(* The properties of the parts under their own names; those of             *)
(* IntakeSession are its own.                                              *)

(* Types of all parts. *)
TypesOK == TypeOK /\ T!TypeOK /\ D!TypeOK /\ H!TypeOK /\ A!TypeOK

(* The default column of a board holds (DefaultColumn). *)
DefaultHolds == D!DefaultHolds

(* Calls that wait for the row locks of one another's transactions end:    *)
(* those of the token endpoints (McpRefreshTokens) and the requests on     *)
(* columns (DefaultColumn).                                                *)
CallsEnd == T!EveryRequestEnds /\ D!RequestsEnd

(* A window shows every change it is told of in the end (HubView). *)
ViewCatchesUp == H!ViewCatchesUp

(* No notification is lost (Notifications). *)
NoneLost == A!NoneLost
=============================================================================
