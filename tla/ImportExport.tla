---------------------------- MODULE ImportExport ----------------------------
(***************************************************************************)
(* Export and import of the backlog (server/src/routes/import-export.ts).  *)
(*                                                                         *)
(* An export is a file of rows with the ids they had.  An import replaces  *)
(* the kinds of rows that the file has, or merges the file into what is    *)
(* there, matching rows by their titles; either way old ids are mapped to  *)
(* the ids of the rows they became, and all is one transaction.            *)
(*                                                                         *)
(* Four kinds stand for the twenty: boards with their columns; initiatives *)
(* for all that is matched by a name alone; requirements for what is       *)
(* matched by title and parent, and refers to a column; dependencies for   *)
(* what is created by every merge.  Dependencies have their two ends as    *)
(* key; decisions, risks and links, which have none, are duplicated by a   *)
(* merge and left out.  Users, slugs and the other fields of a row are     *)
(* left out, as is what other requests do during an import.                *)
(***************************************************************************)
EXTENDS Naturals, FiniteSets

CONSTANTS
    Titles,     \* titles of initiatives and requirements, names of columns
    Initiatives, Requirements, Columns,  \* ids
    None,
    MaxOps      \* bound on edits and imports, for TLC

VARIABLES
    db,      \* the rows
    file,    \* the last export
    keys,    \* the kinds of rows it has
    last,    \* history: what happened last: "edit", "export", "merge" or "replace"
    ops      \* number of edits and imports so far

vars == <<db, file, keys, last, ops>>

Kinds == {"boards", "initiatives", "requirements", "dependencies"}

(* A column has a name, an initiative a title, a requirement a title, an   *)
(* initiative and perhaps a column.                                        *)
ReqRow == [title : Titles, parent : Initiatives, column : Columns \cup {None}]

Rows == [columns : [Columns -> Titles \cup {None}],
         inits : [Initiatives -> Titles \cup {None}],
         reqs : [Requirements -> ReqRow \cup {None}],
         deps : SUBSET (Initiatives \X Initiatives)]

Cols(d) == {k \in Columns : d.columns[k] # None}
Inits(d) == {i \in Initiatives : d.inits[i] # None}
Reqs(d) == {r \in Requirements : d.reqs[r] # None}

(* The foreign keys of the database. *)
Sound(d) ==
    /\ \A r \in Reqs(d) : d.reqs[r].parent \in Inits(d)
                          /\ d.reqs[r].column \in Cols(d) \cup {None}
    /\ d.deps \subseteq Inits(d) \X Inits(d)

Empty == [columns |-> [k \in Columns |-> None], inits |-> [i \in Initiatives |-> None],
          reqs |-> [r \in Requirements |-> None], deps |-> {}]

TypeOK ==
    /\ db \in Rows /\ Sound(db)
    /\ DOMAIN file = DOMAIN Empty
    /\ keys \subseteq Kinds
    /\ last \in {"edit", "export", "merge", "replace"}
    /\ ops \in 0 .. MaxOps

Init ==
    /\ db = Empty
    /\ file = Empty /\ keys = {}
    /\ last = "edit"
    /\ ops = 0

-----------------------------------------------------------------------------
(* Ids are given once: a new row has one that neither the database nor the *)
(* file has or refers to.                                                  *)
FreshCols == Columns \ (Cols(db) \cup Cols(file) \cup {file.reqs[r].column : r \in Reqs(file)})
FreshInits == Initiatives \ UNION {Inits(db), Inits(file), {file.reqs[r].parent : r \in Reqs(file)},
                                   UNION {{d[1], d[2]} : d \in file.deps}}
FreshReqs == Requirements \ (Reqs(db) \cup Reqs(file))

Op(what) ==
    /\ ops < MaxOps /\ ops' = ops + 1
    /\ last' = what

(* The n-th of a set of ids: which are given makes no difference. *)
Before(S, x) == Cardinality({y \in S : y < x})
Nth(S, n) == CHOOSE x \in S : Before(S, x) = n
New(S) == Nth(S, 0)

(* The people's edits. *)
Edit ==
    /\ Op("edit")
    /\ \/ FreshCols # {} /\ \E t \in Titles : db' = [db EXCEPT !.columns[New(FreshCols)] = t]
       \/ FreshInits # {} /\ \E t \in Titles : db' = [db EXCEPT !.inits[New(FreshInits)] = t]
       \/ /\ FreshReqs # {}
          /\ \E t \in Titles, i \in Inits(db), k \in Cols(db) \cup {None} :
                db' = [db EXCEPT !.reqs[New(FreshReqs)] = [title |-> t, parent |-> i, column |-> k]]
       \/ \E i, j \in Inits(db) : i # j /\ db' = [db EXCEPT !.deps = @ \cup {<<i, j>>}]
       \/ \E r \in Reqs(db), k \in Cols(db) \cup {None} : db' = [db EXCEPT !.reqs[r].column = k]
       \/ \E r \in Reqs(db) : db' = [db EXCEPT !.reqs[r] = None]
    /\ UNCHANGED <<file, keys>>

(* GET /export of all kinds, or of some. *)
Export(ks) ==
    /\ keys' = ks
    /\ file' = [columns |-> IF "boards" \in ks THEN db.columns ELSE Empty.columns,
                inits |-> IF "initiatives" \in ks THEN db.inits ELSE Empty.inits,
                reqs |-> IF "requirements" \in ks THEN db.reqs ELSE Empty.reqs,
                deps |-> IF "dependencies" \in ks THEN db.deps ELSE {}]
    /\ last' = "export"
    /\ UNCHANGED <<db, ops>>

-----------------------------------------------------------------------------
(* What becomes of rows of the file: each is mapped to a row that it       *)
(* matches or, if there is none, to a new row of its own.                  *)
Mappings(match, new) ==
    LET S == DOMAIN match
        unmatched == {x \in S : match[x] = {}}
        target(x) == IF x \in unmatched THEN {Nth(new, Before(unmatched, x))} ELSE match[x]
    IN IF Cardinality(unmatched) > Cardinality(new) THEN {}
       ELSE {f \in [S -> UNION {target(x) : x \in S}] : \A x \in S : f[x] \in target(x)}

(* mapId and idMap.get: an id of the file, else one of the database.       *)
Mapped(f, x, existing) ==
    IF x \in DOMAIN f THEN f[x] ELSE IF x \in existing THEN x ELSE None

(* Rows of the file that became row y; of several the last one written     *)
(* counts, which may be any.                                               *)
From(f, y) == {x \in DOMAIN f : f[x] = y}
One(f, y) == CHOOSE x \in From(f, y) : TRUE

ImportFails == UNCHANGED db

(* Mutant: requirements of the file are never matched. *)
MatchesNone(r, fi) == {}

(* The requirements that the requirement r of the file may be: those with  *)
(* its title, and of its initiative if that is known.                      *)
Matches(r, fi) ==
    LET parent == Mapped(fi, file.reqs[r].parent, Inits(db)) IN
    {q \in Reqs(db) : /\ db.reqs[q].title = file.reqs[r].title
                      /\ parent # None => db.reqs[q].parent = parent}

(* The initiatives and requirements that those of the file may become.     *)
InitMaps == Mappings([i \in Inits(file) |-> {j \in Inits(db) : db.inits[j] = file.inits[i]}],
                     FreshInits)
ReqMaps(fi) == Mappings([r \in Reqs(file) |-> Matches(r, fi)], FreshReqs)

ParentOf(fi, r) == Mapped(fi, file.reqs[r].parent, Inits(db))
EndsOf(fi, d) == <<Mapped(fi, d[1], Inits(db)), Mapped(fi, d[2], Inits(db))>>
DepsOf(fi) == {d \in file.deps : None \notin {EndsOf(fi, d)[1], EndsOf(fi, d)[2]}}

(* A parent that is gone, or a dependency that exists. *)
MergeFails(fi, fr) ==
    \/ \E r \in Reqs(file) : ParentOf(fi, r) = None /\ fr[r] \notin Reqs(db)
    \/ \E d \in DepsOf(fi) : EndsOf(fi, d) \in db.deps
    \/ \E d, e \in DepsOf(fi) : d # e /\ EndsOf(fi, d) = EndsOf(fi, e)

MergedReq(fi, fr, q) ==
    LET r == One(fr, q) IN
    [title |-> file.reqs[r].title,
     parent |-> IF ParentOf(fi, r) = None THEN db.reqs[q].parent ELSE ParentOf(fi, r),
     column |-> None]

Merged(fi, fr) ==
    [columns |-> db.columns,
     inits |-> [j \in Initiatives |->
                   IF From(fi, j) = {} THEN db.inits[j]
                   ELSE file.inits[One(fi, j)]],
     reqs |-> [q \in Requirements |->
                   IF From(fr, q) = {} THEN db.reqs[q] ELSE MergedReq(fi, fr, q)],
     deps |-> db.deps \cup {EndsOf(fi, d) : d \in DepsOf(fi)}]

(* mergeImport.  Boards are not merged and columns not in the map, so that *)
(* a merged requirement is in no column.  Where one row fails, all do.     *)
Merge ==
    /\ keys # {}
    /\ Op("merge")
    /\ \E fi \in InitMaps : \E fr \in ReqMaps(fi) :
          IF MergeFails(fi, fr) THEN ImportFails ELSE db' = Merged(fi, fr)
    /\ UNCHANGED <<file, keys>>

(* A replacement deletes the kinds that the file has, with what hangs on   *)
(* them, and creates them anew.  Initiatives that stay keep their ids in   *)
(* the map; columns that stay are not in it.                               *)
CreateMaps(ids, new) == Mappings([x \in ids |-> {}], new)

Stay == IF "initiatives" \in keys THEN {} ELSE Inits(db)
Kept == IF keys \cap {"requirements", "initiatives"} # {} THEN {} ELSE Reqs(db)

NewParent(fi, r) == Mapped(fi, file.reqs[r].parent, Stay)
NewEnds(fi, d) == <<Mapped(fi, d[1], Stay), Mapped(fi, d[2], Stay)>>
NewDeps(fi) == {d \in file.deps : None \notin {NewEnds(fi, d)[1], NewEnds(fi, d)[2]}}

NewReq(fc, fi, r) ==
    [title |-> file.reqs[r].title, parent |-> NewParent(fi, r),
     column |-> Mapped(fc, file.reqs[r].column, {})]

Replaced(fc, fi, fr) ==
    [columns |-> IF "boards" \notin keys THEN db.columns
                 ELSE [k \in Columns |->
                          IF From(fc, k) = {} THEN None ELSE file.columns[One(fc, k)]],
     inits |-> IF "initiatives" \notin keys THEN db.inits
               ELSE [j \in Initiatives |->
                        IF From(fi, j) = {} THEN None ELSE file.inits[One(fi, j)]],
     reqs |-> [q \in Requirements |->
                  IF From(fr, q) # {} THEN NewReq(fc, fi, One(fr, q))
                  ELSE IF q \notin Kept THEN None
                  ELSE IF "boards" \in keys THEN [db.reqs[q] EXCEPT !.column = None]
                  ELSE db.reqs[q]],
     deps |-> (IF keys \cap {"dependencies", "initiatives"} # {} THEN {} ELSE db.deps)
              \cup {NewEnds(fi, d) : d \in NewDeps(fi)}]

(* replaceImport.  A requirement without an initiative fails, and all with *)
(* it.                                                                     *)
Replace ==
    /\ keys # {}
    /\ Op("replace")
    /\ \E fc \in CreateMaps(Cols(file), FreshCols) :
       \E fi \in CreateMaps(Inits(file), FreshInits) :
       \E fr \in CreateMaps(Reqs(file), FreshReqs) :
          IF \E r \in Reqs(file) : NewParent(fi, r) = None THEN ImportFails
          ELSE db' = Replaced(fc, fi, fr)
    /\ UNCHANGED <<file, keys>>

(* Mutant: what belongs to the initiatives stays. *)
ClearInitiatives ==
    /\ Op("edit")
    /\ db' = [db EXCEPT !.inits = Empty.inits]
    /\ UNCHANGED <<file, keys>>

(* POST /clear. *)
Clear ==
    /\ Op("edit")
    /\ db' = Empty
    /\ UNCHANGED <<file, keys>>

Next == Edit \/ (\E ks \in SUBSET Kinds \ {{}} : Export(ks)) \/ Merge \/ Replace \/ Clear

Spec == Init /\ [][Next]_vars

-----------------------------------------------------------------------------
(* The rows by their names, whatever their ids. *)
Named(d) ==
    [columns |-> {d.columns[k] : k \in Cols(d)},
     inits |-> {d.inits[i] : i \in Inits(d)},
     reqs |-> {<<d.reqs[r].title, d.inits[d.reqs[r].parent],
                 IF d.reqs[r].column = None THEN None ELSE d.columns[d.reqs[r].column]>>
                 : r \in Reqs(d)},
     deps |-> {<<d.inits[p[1]], d.inits[p[2]]>> : p \in d.deps}]

(* No two rows of a kind have one name. *)
Distinct(d) ==
    /\ \A i, j \in Inits(d) : d.inits[i] = d.inits[j] => i = j
    /\ \A r, q \in Reqs(d) :
          d.reqs[r].title = d.reqs[q].title /\ d.reqs[r].parent = d.reqs[q].parent => r = q

Imports(what) == last' = what /\ ops' # ops

(* Every requirement of the file has an initiative.  One without is        *)
(* matched by its title alone, and then by any of those with this title.   *)
Homed == \A r \in Reqs(file) : file.reqs[r].parent \in Inits(file) \cup Inits(db)

(* What an import is for.  To replace everything by an export of everything*)
(* gives back what was exported, whatever was done to the rows since.  And *)
(* to merge a file once more changes nothing, as long as names tell the    *)
(* rows apart.                                                             *)
ImportsRestore ==
    [][/\ Imports("replace") /\ keys = Kinds => Named(db') = Named(file)
       /\ Imports("merge") /\ last = "merge" /\ Distinct(db) /\ Homed => db' = db]_vars
=============================================================================
