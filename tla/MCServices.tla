----------------------------- MODULE MCServices -----------------------------
(***************************************************************************)
(* Model checking of the services that share no state with one another, in *)
(* one run: part names the one that a behaviour is about, and the others   *)
(* stay as they began.  The states are those of the parts one by one: a    *)
(* sum and not a product.                                                  *)
(***************************************************************************)
EXTENDS CuratorProposals, FiniteSets

CONSTANTS
    Links,      \* magic links
    Nil,        \* no client or row
    Titles, Initiatives, Requirements, Columns, \* of the files that are imported
    BoardCards, BoardColumns, Boards, BoardOf, MappedTo,    \* of the boards
    MaxTries, MaxRev, MaxEdits, MaxCalls, MaxImports, MaxDrops  \* bounds on what a part does

(* Attempts to sign in are not links, and what stands for nothing, or for  *)
(* leaving a column as it is, is none of the things.                       *)
ASSUME ServicesAssumption ==
    /\ NoProposal \notin Proposals /\ NoField \notin Fields
    /\ Links \cap Proposals = {}
    /\ Nil \notin Proposals \cup Fields \cup 0 .. MaxRev
    /\ "keep" \notin Fields \cup {Nil}
    /\ MaxTries \in Nat /\ MaxRev \in Nat /\ MaxEdits \in Nat /\ MaxCalls \in Nat

(* Ids are given in some order, and what stands for no row is none of the  *)
(* things that a row has in its place.                                     *)
ASSUME FilesAssumption ==
    /\ \A ids \in {Initiatives, Requirements, Columns} : ids \subseteq Nat /\ IsFiniteSet(ids)
    /\ Nil \notin Titles \cup Initiatives \cup Columns
    /\ Nil \notin [title : Titles, parent : Initiatives, column : Columns \cup {Nil}]
    /\ MaxImports \in Nat

(* Cards, boards and columns are told apart by numbers, in their order; no *)
(* column is 0, where the cards without one are.                           *)
ASSUME BoardsAssumption ==
    /\ BoardCards \subseteq Nat /\ IsFiniteSet(BoardCards)
    /\ BoardColumns \subseteq Nat \ {0}
    /\ Boards \subseteq Nat
    /\ BoardOf \in [BoardColumns -> Boards]
    /\ MappedTo \in [BoardColumns -> {"NOT_STARTED", "IN_PROGRESS", "DONE"}]
    /\ MaxDrops \in Nat

VARIABLES
    part,
    xDb, xFile, xKeys, xLast, xOps,
    sKnown, sStoring, sStored, sReload, sRows, sSettled, sAuth, sClient, sLink, sExpired, sPc,
    sThing, sGranted, sContested, sTries,
    iRow, iList, iOpen, iDisplay, iForm, iSeen, iDirty, iPending, iConflict, iEvents, iCalls,
    iSave, iReloaded, iLost,
    cStatus, cColumn, cMapped, cKind, cTodo, cWant, cWish, cSeen, cAt, cOut, cDrift, cEdits,
    cRemapped,
    aOwner, aRows, aCall, aCalls, aCauses,
    bCards, bBoard, bLoaded, bShown, bLoading, bCall, bStale, bOps

xvars == <<xDb, xFile, xKeys, xLast, xOps>>
svars == <<sKnown, sStoring, sStored, sReload, sRows, sSettled, sAuth, sClient, sLink, sExpired,
           sPc, sThing, sGranted, sContested, sTries>>
ivars == <<iRow, iList, iOpen, iDisplay, iForm, iSeen, iDirty, iPending, iConflict, iEvents,
           iCalls, iSave, iReloaded, iLost>>
cvars == <<cStatus, cColumn, cMapped, cKind, cTodo, cWant, cWish, cSeen, cAt, cOut, cDrift,
           cEdits, cRemapped>>
avars == <<aOwner, aRows, aCall, aCalls, aCauses>>
bvars == <<bCards, bBoard, bLoaded, bShown, bLoading, bCall, bStale, bOps>>
allvars == <<part, vars, xvars, svars, ivars, cvars, avars, bvars>>

X == INSTANCE ImportExport WITH
        None <- Nil, MaxOps <- MaxImports,
        db <- xDb, file <- xFile, keys <- xKeys, last <- xLast, ops <- xOps

S == INSTANCE SignIn WITH
        Clients <- Fields, Attempts <- Proposals,
        Slots <- Requests, NoClient <- Nil, NoThing <- Nil,
        known <- sKnown, storing <- sStoring, stored <- sStored,
        reload <- sReload, rows <- sRows, settled <- sSettled, auth <- sAuth,
        client <- sClient, link <- sLink, expired <- sExpired, pc <- sPc, thing <- sThing,
        granted <- sGranted, contested <- sContested, tries <- sTries

I == INSTANCE InitiativePanel WITH
        None <- Nil, Draft <- Nil,
        row <- iRow, list <- iList, open <- iOpen, display <- iDisplay, form <- iForm,
        seen <- iSeen, dirty <- iDirty, pending <- iPending, conflict <- iConflict,
        events <- iEvents, calls <- iCalls, save <- iSave, reloaded <- iReloaded, lost <- iLost

C == INSTANCE ExecutionCards WITH
        Cards <- Proposals, Columns <- Fields, NoCard <- Nil, NoColumn <- Nil,
        status <- cStatus, column <- cColumn, mapped <- cMapped, kind <- cKind, todo <- cTodo,
        want <- cWant, wish <- cWish, seen <- cSeen, at <- cAt, out <- cOut, drift <- cDrift,
        edits <- cEdits, remapped <- cRemapped

A == INSTANCE Accountability WITH
        Users <- Proposals, NoUser <- Nil,
        owner <- aOwner, rows <- aRows, call <- aCall, calls <- aCalls, causes <- aCauses

B == INSTANCE ExecutionBoard WITH
        Cards <- BoardCards, Columns <- BoardColumns, Calls <- Requests, MaxOps <- MaxDrops,
        cards <- bCards, board <- bBoard, loaded <- bLoaded, shown <- bShown,
        loading <- bLoading, call <- bCall, stale <- bStale, ops <- bOps

Parts == {"proposals", "files", "signin", "panel", "cards", "owners", "board"}

(* A board with two columns and one with one. *)
MCBoardOf == <<1, 1, 2>>
MCMappedTo == <<"IN_PROGRESS", "DONE", "DONE">>

(* A part that is not the one looked at begins in one state only; this is  *)
(* said part by part, lest TLC try every combination of them.              *)
MCInit ==
    /\ part \in Parts
    /\ Init /\ (part # "proposals" => locked = {})
    /\ X!Init /\ S!Init /\ I!Init
    /\ C!Init /\ (part # "cards" => \A k \in Fields : cMapped[k] = "none")
    /\ A!Init
    /\ part # "owners" => aOwner = Nil /\ \A u \in Proposals, ro \in A!Roles : aRows[u][ro] = "none"
    /\ B!Init
    /\ part # "board" => bBoard = B!Min(Boards) /\ B!Existing(bCards) = {}

(* A step of one part. *)
Proposals_(a) ==
    part = "proposals" /\ a /\ UNCHANGED <<part, xvars, svars, ivars, cvars, avars, bvars>>
Files_(a) == part = "files" /\ a /\ UNCHANGED <<part, vars, svars, ivars, cvars, avars, bvars>>
SignIn_(a) == part = "signin" /\ a /\ UNCHANGED <<part, vars, xvars, ivars, cvars, avars, bvars>>
Panel_(a) == part = "panel" /\ a /\ UNCHANGED <<part, vars, xvars, svars, cvars, avars, bvars>>
Cards_(a) == part = "cards" /\ a /\ UNCHANGED <<part, vars, xvars, svars, ivars, avars, bvars>>
Owners_(a) == part = "owners" /\ a /\ UNCHANGED <<part, vars, xvars, svars, ivars, cvars, bvars>>
Board_(a) == part = "board" /\ a /\ UNCHANGED <<part, vars, xvars, svars, ivars, cvars, avars>>

MCNext ==
    \/ Proposals_(Next) \/ Files_(X!Next) \/ SignIn_(S!Next) \/ Panel_(I!Next)
    \/ Cards_(C!Next) \/ Owners_(A!Next) \/ Board_(B!Next)

MCSpec == MCInit /\ [][MCNext]_allvars

(* What the requests have, whichever of them has what. *)
Held(f) == [x \in {f[r] : r \in Requests} |-> Cardinality({r \in Requests : f[r] = x})]

(* Only the part that is looked at tells states apart, and of that not     *)
(* which request is which, nor what no step to come and none of the        *)
(* properties below can depend on: of what happened last to the rows       *)
(* whether it was a merge; of the losses of a panel the blind ones, and of *)
(* the causes whether there are others than "nested"; the client and the age of an attempt  *)
(* that is over, and what was settled once the reload is over; and, when the bound on a part is reached, what only one   *)
(* more import, write or drop would look at: an export, the values in a    *)
(* form and in its save, what the page of a board shows.                   *)
MCView ==
    CASE part = "proposals" -> <<part, vars>>
      [] part = "files" ->
            <<part, xDb, xLast = "merge", xOps,
              IF xOps < MaxImports THEN <<xFile, xKeys>> ELSE <<>> >>
      [] part = "signin" ->
            <<part, sKnown, sStoring, sStored, sReload, sRows,
              IF sReload \in {"asked", "read"} THEN sSettled ELSE sSettled \subseteq sKnown,
              sAuth, sLink,
              [a \in Proposals |-> IF sAuth[a] \in {"spent", "lost"} THEN <<>>
                                  ELSE <<sClient[a], a \in sExpired>>],
              sExpired \cap Links,
              Held([r \in Requests |-> <<sPc[r], sThing[r]>>]), sGranted, sContested, sTries>>
      [] part = "panel" ->
            <<part, iRow, iList, iOpen, iDisplay, iDirty, iPending, iConflict, iEvents, iCalls,
              IF iRow.rev < MaxRev THEN <<iForm, iSeen, iSave>> ELSE <<iSave.at, iSave.base>>,
              "blind" \in iLost>>
      [] part = "cards" ->
            <<part, cStatus, cColumn, cMapped, cDrift, cEdits, cRemapped,
              Held([r \in Requests |->
                      <<cKind[r], cTodo[r], cWant[r], cWish[r], cSeen[r], cAt[r], cOut[r]>>])>>
      [] part = "owners" -> 
            <<part, aOwner, aRows, Held(aCall), aCalls, aCauses = {}, aCauses \subseteq {"nested"}>>
      [] part = "board" ->
            <<part, bCards, bLoading, Held(bCall), bOps,
              IF bOps < MaxDrops THEN <<bBoard, bLoaded, bShown, bStale>> ELSE <<>> >>

-----------------------------------------------------------------------------
(* The properties of the parts under their own names; PeopleDecide is that *)
(* of CuratorProposals.                                                    *)

(* Types of the part that is looked at; the others stay as they began. *)
TypesOK ==
    /\ part = "proposals" => TypeOK
    /\ part = "files" => X!TypeOK
    /\ part = "signin" => S!TypeOK
    /\ part = "panel" => I!TypeOK
    /\ part = "cards" => C!TypeOK
    /\ part = "owners" => A!TypeOK
    /\ part = "board" => B!TypeOK

(* A full import gives back the export (ImportExport). *)
ImportsRestore == X!ImportsRestore

(* States, codes and links are good for one sign-in (SignIn). *)
OnceMeansOnce == part = "signin" => S!OnceMeansOnce

(* A save overwrites what its author had seen (InitiativePanel). *)
ChangesAreSeen == part = "panel" => I!ChangesAreSeen

(* A card in a column has the status of the column (ExecutionCards). *)
CardMatchesColumn == part = "cards" => C!CardMatchesColumn

(* Who is accountable for an initiative owns it (Accountability). *)
AccountableOwns == part = "owners" => A!AccountableOwns

(* A drop tells the status of the dropped card only (ExecutionBoard). *)
OthersKeepStatus == part = "board" => B!OthersKeepStatus

(* What was dropped is what comes back (ExecutionBoard). *)
DropStays == part = "board" => B!DropStays
=============================================================================
