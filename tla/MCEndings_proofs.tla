-------------------------- MODULE MCEndings_proofs --------------------------
(***************************************************************************)
(* Proofs about the parts of MCEndings, for any number of requests, calls, *)
(* columns and tokens: the default column of a board (DefaultColumn), what *)
(* a window shows of the hub (HubView), the notifications of the audit log *)
(* (Notifications), and the types of every part.  Those of the intake and  *)
(* of the refresh tokens rest on the proofs about these modules.           *)
(***************************************************************************)
EXTENDS MCEndings, IntakeSession_proofs, TLAPS

-----------------------------------------------------------------------------
(* The default column of a board (DefaultColumn).                          *)

DefaultTypes ==
    /\ dDefaults \subseteq dColumns
    /\ dPc \in [Calls -> D!PCs]
    /\ dJob \in [Calls -> D!Job \cup {D!NoJob}]

(* Only the request that was asked to resets the default.                  *)
WishInv ==
    \A r \in Calls : dPc[r] \in {"reset", "orphan"} => dJob[r].wish = "yes"

(* Until requests overlap there is one at a time, and none but its column  *)
(* is the default once the others are reset.                               *)
OneInv ==
    "overlap" \notin dMishaps =>
        /\ \A r, q \in Calls : dPc[r] # "idle" /\ dPc[q] # "idle" => r = q
        /\ \A c, d \in dDefaults : c = d
        /\ \A r \in Calls : dPc[r] = "commit" /\ dJob[r].wish = "yes" =>
              dDefaults \subseteq {dJob[r].column}

(* A board without a default has a transaction that will make one, which   *)
(* nothing but the end of the process can keep from it.                    *)
SomeInv ==
    dMishaps \cap {"given up", "timeout"} = {} =>
        /\ \A r \in Calls : dPc[r] # "orphan"
        /\ dDefaults # {} \/ \E r \in Calls : dPc[r] = "commit" /\ dJob[r].wish = "yes"

DefaultInv == DefaultTypes /\ WishInv /\ OneInv /\ SomeInv

LEMMA JobWish == \A k \in D!Job \cup {D!NoJob} : k.wish \in D!Wish
  <1>1. ASSUME NEW k \in D!Job
        PROVE  k.wish \in D!Wish
    BY DEF D!Job
  <1>2. D!NoJob.wish \in D!Wish
    BY DEF D!NoJob, D!Wish
  <1> QED BY <1>1, <1>2

LEMMA DefaultInit == D!Init => DefaultInv
  BY DEF D!Init, DefaultInv, DefaultTypes, WishInv, OneInv, SomeInv, D!PCs

LEMMA DefaultNext == DefaultInv /\ D!Next => DefaultInv'
  <1> SUFFICES ASSUME DefaultInv, D!Next PROVE DefaultInv'
    OBVIOUS
  <1> USE DEF DefaultInv, DefaultTypes, WishInv, OneInv, SomeInv, D!PCs
  <1>0. \A r \in Calls : dPc[r] # "idle" <=> r \in D!Running
    BY DEF D!Running
  <1>1. ASSUME NEW r \in Calls, NEW c \in Tokens, NEW wish \in D!Wish,
               D!PostColumn(r, c, wish) \/ D!PutColumn(r, c, wish)
        PROVE  DefaultInv'
    <2>1. PICK at \in {"create", "update"}, new \in BOOLEAN :
             D!Begin(r, at, [column |-> c, wish |-> wish, new |-> new])
      BY <1>1 DEF D!PostColumn, D!PutColumn
    <2>2. [column |-> c, wish |-> wish, new |-> new] \in D!Job
      BY DEF D!Job
    <2> QED BY <1>0, <2>1, <2>2 DEF D!Begin, D!Note
  <1>2. ASSUME NEW r \in Calls, D!Write(r)
        PROVE  DefaultInv'
    BY <1>2 DEF D!Write, D!Goto
  <1>3. ASSUME NEW r \in Calls, D!Reset(r)
        PROVE  DefaultInv'
    <2> DEFINE j == dJob[r]
    <2>1. /\ dPc[r] \in {"reset", "orphan"} /\ j.wish = "yes"
          /\ dDefaults' = dDefaults \cap {j.column} /\ UNCHANGED <<dColumns, dMishaps>>
      BY <1>3 DEF D!Reset
    <2>2. \/ /\ dPc[r] = "reset" /\ dPc' = [dPc EXCEPT ![r] = "commit"] /\ dJob' = dJob
          \/ /\ dPc[r] = "orphan" /\ dPc' = [dPc EXCEPT ![r] = "idle"]
             /\ dJob' = [dJob EXCEPT ![r] = D!NoJob]
      BY <1>3 DEF D!Reset, D!Goto, D!End
    <2>3. DefaultTypes' /\ WishInv'
      BY <2>1, <2>2
    <2>4. OneInv'
      BY <2>1, <2>2
    <2>5. SomeInv'
      BY <2>1, <2>2
    <2> QED BY <2>3, <2>4, <2>5
  <1>4. ASSUME NEW r \in Calls, D!Commit(r)
        PROVE  DefaultInv'
    <2> DEFINE j == dJob[r]
    <2>1. j \in D!Job \cup {D!NoJob}
      OBVIOUS
    <2>2. /\ dPc[r] = "commit" /\ j.wish \in {"yes", "no", "keep"}
          /\ dPc' = [dPc EXCEPT ![r] = "idle"] /\ dJob' = [dJob EXCEPT ![r] = D!NoJob]
          /\ dColumns' = dColumns \cup {j.column}
      <3>1. j.wish \in {"yes", "no", "keep"}
        BY <2>1, JobWish DEF D!Wish
      <3> QED BY <1>4, <3>1 DEF D!Commit, D!End
    <2>3. dMishaps' = dMishaps \cup (IF j.wish = "no" /\ j.column \in dDefaults
                                     THEN {"given up"} ELSE {})
      BY <1>4 DEF D!Commit, D!Note
    <2>4. /\ j.wish = "yes" => dDefaults' = dDefaults \cup {j.column}
          /\ j.wish = "no" => dDefaults' = dDefaults \ {j.column}
          /\ j.wish = "keep" => dDefaults' = dDefaults
      BY <1>4 DEF D!Commit
    <2>5. \A q \in Calls : /\ dPc'[q] = IF q = r THEN "idle" ELSE dPc[q]
                          /\ dJob'[q] = IF q = r THEN D!NoJob ELSE dJob[q]
      BY <2>2
    <2> HIDE DEF j
    <2>6. DefaultTypes'
      <3>1. dDefaults' \subseteq dColumns'
        BY <2>2, <2>4
      <3> QED BY <3>1, <2>2
    <2>7. WishInv'
      BY <2>5
    <2>8. OneInv'
      <3> SUFFICES ASSUME "overlap" \notin dMishaps' PROVE OneInv'
        OBVIOUS
      <3>1. \A q \in Calls : dPc[q] # "idle" => q = r
        BY <2>2, <2>3
      <3>2. \A q \in Calls : dPc'[q] = "idle"
        BY <2>5, <3>1
      <3>3. /\ \A c, d \in dDefaults : c = d
            /\ j.wish = "yes" => dDefaults \subseteq {j.column}
        BY <2>2, <2>3 DEF j
      <3>4. \A c, d \in dDefaults' : c = d
        BY <2>2, <2>4, <3>3
      <3> QED BY <3>2, <3>4
    <2>9. SomeInv'
      <3> SUFFICES ASSUME dMishaps' \cap {"given up", "timeout"} = {} PROVE SomeInv'
        OBVIOUS
      <3>1. /\ \A q \in Calls : dPc[q] # "orphan"
            /\ dDefaults # {} \/ \E q \in Calls : dPc[q] = "commit" /\ dJob[q].wish = "yes"
        BY <2>3
      <3>2. j.wish = "no" => j.column \notin dDefaults
        BY <2>3
      <3>3. CASE j.wish = "yes"
        <4>1. dDefaults' # {}
          BY <2>4, <3>3
        <4> QED BY <2>5, <3>1, <4>1
      <3>4. CASE j.wish # "yes"
        <4>1. dDefaults' = dDefaults
          <5>1. CASE j.wish = "no"
            <6>1. dDefaults \ {j.column} = dDefaults
              BY <3>2, <5>1
            <6> QED BY <2>4, <5>1, <6>1
          <5>2. CASE j.wish = "keep"
            BY <2>4, <5>2
          <5> QED BY <2>2, <3>4, <5>1, <5>2
        <4>2. \A q \in Calls : dPc[q] = "commit" /\ dJob[q].wish = "yes" =>
                 dPc'[q] = "commit" /\ dJob'[q].wish = "yes"
          BY <2>5, <3>4 DEF j
        <4> QED BY <2>5, <3>1, <4>1, <4>2
      <3> QED BY <3>3, <3>4
    <2> QED BY <2>6, <2>7, <2>8, <2>9
  <1>5. ASSUME NEW m \in {"timeout"}, D!ProcessEnds(m)
        PROVE  DefaultInv'
    BY <1>5 DEF D!ProcessEnds, D!Note
  <1>6. ASSUME NEW r \in Calls, D!TimeOut(r) \/ D!ColumnGone(r)
        PROVE  DefaultInv'
    BY <1>5, <1>6 DEF D!TimeOut, D!ColumnGone
  <1>7. ASSUME NEW c \in Tokens, D!DeleteColumn(c)
        PROVE  DefaultInv'
    <2>1. /\ dDefaults' = dDefaults \ {c} /\ dColumns' = dColumns \ {c} /\ UNCHANGED <<dPc, dJob>>
          /\ dMishaps' = dMishaps \cup (IF c \in dDefaults THEN {"given up"} ELSE {})
      BY <1>7 DEF D!DeleteColumn, D!Note
    <2>2. DefaultTypes' /\ WishInv' /\ OneInv'
      BY <2>1
    <2>3. CASE c \in dDefaults
      BY <2>1, <2>3
    <2>4. CASE c \notin dDefaults
      <3>1. dDefaults' = dDefaults /\ dMishaps' = dMishaps
        BY <2>1, <2>4
      <3> QED BY <3>1, <2>1
    <2> QED BY <2>2, <2>3, <2>4
  <1> QED BY <1>1, <1>2, <1>3, <1>4, <1>6, <1>7 DEF D!Next, D!Go

LEMMA DefaultSame == DefaultInv /\ UNCHANGED dvars => DefaultInv'
  BY DEF dvars, DefaultInv, DefaultTypes, WishInv, OneInv, SomeInv

LEMMA DefaultImplies == DefaultInv => DefaultHolds
  <1> SUFFICES ASSUME DefaultInv PROVE D!DefaultHolds
    BY DEF DefaultHolds
  <1>1. "overlap" \notin dMishaps => \A c, d \in dDefaults : c = d
    BY DEF DefaultInv, OneInv
  <1>2. "given up" \notin dMishaps /\ "timeout" \notin dMishaps /\ D!Running = {} => dDefaults # {}
    BY DEF DefaultInv, SomeInv, D!Running
  <1> QED BY <1>1, <1>2 DEF D!DefaultHolds

(* The board has its default (DefaultColumn): never two, unless requests   *)
(* overlapped, and never none once they have ended, unless someone gave it *)
(* up or a transaction ended halfway.                                      *)
THEOREM BoardHasItsDefault == MCSpec => []DefaultHolds
  <1>1. MCInit => DefaultInv
    BY DefaultInit DEF MCInit
  <1>2. DefaultInv /\ [MCNext]_allvars => DefaultInv'
    BY DefaultNext, DefaultSame DEF MCNext, Intake_, Tokens_, Columns_, Hub_, Audit_, allvars
  <1> QED BY <1>1, <1>2, DefaultImplies, PTL DEF MCSpec

-----------------------------------------------------------------------------
(* What a window shows of the hub (HubView).                               *)

(* Until a mishap, what the window shows has the last change that events   *)
(* tell of, or its event or a fetch that brings it is on its way.          *)
Coming(f) == hFetches[f].at = "sent" \/ (hFetches[f].at = "answered" /\ hFetches[f].got >= hTold)
Catching == hShown >= hTold \/ hTold \in hEvents \/ \E f \in Calls : Coming(f)

ViewInv ==
    /\ H!TypeOK
    /\ hShown <= hRev /\ hTold <= hRev
    /\ \A f \in Calls : hFetches[f].at = "answered" => hFetches[f].got <= hRev
    /\ hMishaps = {} => Catching

LEMMA ViewInit == H!Init => ViewInv
<1> SUFFICES ASSUME H!Init PROVE ViewInv
  OBVIOUS
<1>1. H!NoFetch \in H!Fetch /\ H!NoFetch.at = "none"
  BY DEF H!NoFetch, H!Fetch, H!Revs
<1>2. H!TypeOK
  <2>1. hFetches \in [Calls -> H!Fetch]
    BY <1>1 DEF H!Init
  <2>2. hRev \in H!Revs /\ hTold \in H!Revs /\ hShown \in H!Revs
    BY DEF H!Init, H!Revs
  <2>3. hConnected \in BOOLEAN /\ hDragging \in BOOLEAN
    BY DEF H!Init
  <2> QED BY <2>1, <2>2, <2>3 DEF H!Init, H!TypeOK
<1>3. hRev = 0 /\ hTold = 0 /\ hShown = 0 /\ \A f \in Calls : hFetches[f].at = "none"
  BY <1>1 DEF H!Init
<1> QED BY <1>2, <1>3 DEF ViewInv, Catching

(* A fetch begins. *)
LEMMA ViewAsk ==
    ASSUME ViewInv, NEW f \in Calls, H!Ask(f)
    PROVE  /\ hFetches' \in [Calls -> H!Fetch]
           /\ hFetches'[f].at = "sent"
           /\ \A g \in Calls : g = f \/ hFetches'[g] = hFetches[g]
           /\ hFetches[f].at = "none"
  BY DEF ViewInv, H!TypeOK, H!Ask, H!Fetch

LEMMA ViewNext == ViewInv /\ H!Next => ViewInv'
<1> SUFFICES ASSUME ViewInv, H!Next PROVE ViewInv'
  OBVIOUS
<1> USE DEF H!Revs, H!Mishaps
<1>0. /\ hRev \in 0 .. 2 /\ hTold \in 0 .. 2 /\ hShown \in 0 .. 2 /\ hEvents \subseteq 0 .. 2
      /\ hFetches \in [Calls -> H!Fetch] /\ hMishaps \subseteq H!Mishaps
      /\ hView \in {"list", "tree"} /\ hConnected \in BOOLEAN /\ hDragging \in BOOLEAN
      /\ \A f \in Calls : hFetches[f] \in H!Fetch /\ hFetches[f].got \in 0 .. 2
  BY DEF ViewInv, H!TypeOK, H!Fetch
<1>1. CASE H!Change
  <2>1. /\ hRev < 2 /\ hRev' = hRev + 1 /\ hTold' = hRev + 1
        /\ UNCHANGED <<hConnected, hDragging, hView, hShown, hFetches>>
        /\ hEvents' = IF hConnected THEN hEvents \cup {hRev + 1} ELSE hEvents
        /\ hMishaps' = IF ~hConnected THEN hMishaps \cup {"missed"} ELSE hMishaps
    BY <1>1 DEF H!Change, H!Note
  <2>2. H!TypeOK'
    BY <1>0, <2>1 DEF H!TypeOK
  <2>3. hMishaps' = {} => hTold' \in hEvents'
    BY <2>1
  <2> QED BY <1>0, <2>1, <2>2, <2>3 DEF ViewInv, Catching
<1>2. CASE H!Disconnect
  <2>1. /\ hEvents' = {} /\ hConnected' = FALSE /\ UNCHANGED <<hRev, hTold, hDragging, hView, hShown, hFetches>>
        /\ hMishaps' = IF hEvents # {} THEN hMishaps \cup {"missed"} ELSE hMishaps
    BY <1>2 DEF H!Disconnect, H!Note
  <2>2. H!TypeOK'
    BY <1>0, <2>1 DEF H!TypeOK
  <2>3. hMishaps' = {} => hMishaps = {} /\ hEvents' = hEvents
    BY <2>1
  <2> QED BY <2>1, <2>2, <2>3 DEF ViewInv, Catching, Coming
<1>3. CASE H!Reconnect \/ H!DragStart \/ H!DragEnd
  <2>1. UNCHANGED <<hRev, hTold, hEvents, hView, hShown, hFetches, hMishaps>> /\ hConnected' \in BOOLEAN /\ hDragging' \in BOOLEAN
    BY <1>0, <1>3 DEF H!Reconnect, H!DragStart, H!DragEnd
  <2> QED BY <2>1 DEF ViewInv, H!TypeOK, Catching, Coming
<1>4. ASSUME NEW e \in hEvents, NEW f \in Calls, H!Event(e, f) PROVE ViewInv'
  <2>1. /\ hEvents' = hEvents \ {e} /\ UNCHANGED <<hRev, hTold, hConnected, hDragging, hView, hShown>>
        /\ hMishaps' = IF hDragging THEN hMishaps \cup {"dropped"} ELSE hMishaps
    BY <1>4 DEF H!Event, H!Note
  <2>2. CASE hDragging
    <3>1. UNCHANGED hFetches /\ hMishaps' # {}
      BY <1>4, <2>1, <2>2 DEF H!Event
    <3>2. H!TypeOK'
      BY <1>0, <2>1, <2>2, <3>1 DEF H!TypeOK
    <3> QED BY <2>1, <3>1, <3>2 DEF ViewInv
  <2>3. CASE ~hDragging
    <3>1. H!Ask(f) /\ hMishaps' = hMishaps
      BY <1>4, <2>1, <2>3 DEF H!Event
    <3>2. H!TypeOK'
      BY <1>0, <2>1, <3>1, ViewAsk DEF H!TypeOK
    <3>3. Catching'
      BY <3>1, ViewAsk DEF Catching, Coming
    <3> QED BY <2>1, <3>1, <3>2, <3>3, ViewAsk DEF ViewInv
  <2> QED BY <2>2, <2>3
<1>5. ASSUME NEW f \in Calls, H!Visible(f) PROVE ViewInv'
  <2>1. H!Ask(f) /\ UNCHANGED <<hRev, hTold, hEvents, hConnected, hDragging, hView, hShown, hMishaps>>
    BY <1>5 DEF H!Visible
  <2>2. H!TypeOK'
    BY <1>0, <2>1, ViewAsk DEF H!TypeOK
  <2>3. Catching'
    BY <2>1, ViewAsk DEF Catching, Coming
  <2> QED BY <2>1, <2>2, <2>3, ViewAsk DEF ViewInv
<1>6. ASSUME NEW f \in Calls, H!Answer(f) PROVE ViewInv'
  <2>1. /\ hFetches[f].at = "sent"
        /\ hFetches' = [hFetches EXCEPT ![f].at = "answered", ![f].got = hRev]
        /\ UNCHANGED <<hRev, hTold, hEvents, hConnected, hDragging, hView, hShown, hMishaps>>
    BY <1>6 DEF H!Answer
  <2>2. /\ hFetches' \in [Calls -> H!Fetch] /\ hFetches'[f].at = "answered" /\ hFetches'[f].got = hRev
        /\ \A g \in Calls : g = f \/ hFetches'[g] = hFetches[g]
    BY <1>0, <2>1 DEF H!Fetch
  <2>3. H!TypeOK'
    BY <1>0, <2>1, <2>2 DEF H!TypeOK
  <2>4. Catching'
    <3>1. hTold <= hRev
      BY DEF ViewInv
    <3> QED BY <1>0, <2>1, <2>2, <3>1 DEF Catching, Coming
  <2> QED BY <1>0, <2>1, <2>2, <2>3, <2>4 DEF ViewInv
<1>7. ASSUME NEW f \in Calls, H!Land(f) PROVE ViewInv'
  <2>1. /\ hFetches[f].at = "answered" /\ hShown' = hFetches[f].got
        /\ hMishaps' = IF hFetches[f].got < hShown THEN hMishaps \cup {"overtaken"} ELSE hMishaps
        /\ hFetches' = [hFetches EXCEPT ![f] = H!NoFetch]
        /\ UNCHANGED <<hRev, hTold, hEvents, hConnected, hDragging, hView>>
    BY <1>7 DEF H!Land, H!Note
  <2>2. /\ hFetches' \in [Calls -> H!Fetch] /\ hFetches'[f].at = "none"
        /\ \A g \in Calls : g = f \/ hFetches'[g] = hFetches[g]
    BY <1>0, <2>1 DEF H!Fetch, H!NoFetch
  <2>3. H!TypeOK'
    BY <1>0, <2>1, <2>2 DEF H!TypeOK
  <2>4. hShown' <= hRev'
    BY <2>1 DEF ViewInv
  <2>5. ASSUME hMishaps' = {} PROVE Catching'
    <3>1. hShown <= hFetches[f].got /\ hMishaps = {}
      BY <1>0, <2>1, <2>5
    <3>2. Catching
      BY <3>1 DEF ViewInv
    <3>3. CASE hFetches[f].got >= hTold
      BY <2>1, <3>3 DEF Catching
    <3>4. CASE ~(hFetches[f].got >= hTold)
      <4>1. ~(hShown >= hTold)
        BY <1>0, <3>1, <3>4
      <4>2. ASSUME NEW g \in Calls, Coming(g) PROVE Coming(g)'
        <5>1. g # f
          BY <2>1, <3>4, <4>2 DEF Coming
        <5> QED BY <2>1, <2>2, <4>2, <5>1 DEF Coming
      <4> QED BY <2>1, <3>2, <4>1, <4>2 DEF Catching
    <3> QED BY <3>3, <3>4
  <2> QED BY <2>1, <2>2, <2>3, <2>4, <2>5 DEF ViewInv
<1>8. ASSUME NEW f \in Calls, H!Fail(f) PROVE ViewInv'
  <2>1. /\ hMishaps' = hMishaps \cup {"failed"} /\ hFetches' = [hFetches EXCEPT ![f] = H!NoFetch]
        /\ UNCHANGED <<hRev, hTold, hEvents, hConnected, hDragging, hView, hShown>>
    BY <1>8 DEF H!Fail, H!Note
  <2>2. /\ hFetches' \in [Calls -> H!Fetch] /\ hFetches'[f].at = "none"
        /\ \A g \in Calls : g = f \/ hFetches'[g] = hFetches[g]
    BY <1>0, <2>1 DEF H!Fetch, H!NoFetch
  <2>3. H!TypeOK'
    BY <1>0, <2>1, <2>2 DEF H!TypeOK
  <2> QED BY <2>1, <2>2, <2>3 DEF ViewInv
<1>9. CASE H!ChangeSilently
  <2>1. /\ hRev' \in 0 .. 2 /\ hRev' = hRev + 1
        /\ UNCHANGED <<hTold, hEvents, hConnected, hDragging, hView, hShown, hFetches, hMishaps>>
    BY <1>0, <1>9 DEF H!ChangeSilently
  <2>2. H!TypeOK'
    BY <1>0, <2>1 DEF H!TypeOK
  <2> QED BY <1>0, <2>1, <2>2 DEF ViewInv, Catching, Coming
<1> QED BY <1>1, <1>2, <1>3, <1>4, <1>5, <1>6, <1>7, <1>8, <1>9 DEF H!Next, H!Deliver, H!Serve

LEMMA ViewSame == ViewInv /\ UNCHANGED hvars => ViewInv'
  BY DEF hvars, ViewInv, H!TypeOK, Catching, Coming

(* Nothing is on its way to the window. *)
Quiet == hEvents = {} /\ \A f \in Calls : hFetches[f].at = "none"

QuietIsCurrent == Quiet /\ hMishaps = {} => hShown >= hTold

(* What ViewCatchesUp (HubView) rests on: a window to which nothing is on  *)
(* its way shows the last change that an event was sent for and all before *)
(* it, unless one of the four mishaps has happened, in whatever order      *)
(* events and answers came and whatever changed silently.                  *)
THEOREM QuietWindowIsCurrent == MCSpec => []QuietIsCurrent
  <1>1. MCInit => ViewInv
    BY ViewInit DEF MCInit
  <1>2. ViewInv /\ [MCNext]_allvars => ViewInv'
    BY ViewNext, ViewSame DEF MCNext, Intake_, Tokens_, Columns_, Hub_, Audit_, allvars
  <1>3. ViewInv => QuietIsCurrent
    BY DEF ViewInv, Catching, Coming, Quiet, QuietIsCurrent
  <1> QED BY <1>1, <1>2, <1>3, PTL DEF MCSpec

-----------------------------------------------------------------------------
(* Notifications of the audit log (Notifications).                         *)

AtWork == {"look", "message", "record", "pending", "send", "sent", "failed"}

Untouched(d) == aRecord[d] = "none" /\ d \notin aOut

(* The delivery being made is no longer to be begun, and what is recorded  *)
(* and out tells how far it is.                                            *)
NowIs(e) ==
    aAt[e] \in AtWork =>
        /\ aNow[e] \in aPlan[e] \ aTodo[e]
        /\ aAt[e] \in {"look", "message", "pending"} => Untouched(<<e, aNow[e]>>)
        /\ aAt[e] = "pending" => aNow[e][2] = "EMAIL"
        /\ aAt[e] \in {"record", "sent"} => <<e, aNow[e]>> \in aOut
        /\ aAt[e] \in {"send", "failed"} => <<e, aNow[e]>> \notin aOut

(* Those of the plan are to be begun and untouched, or told, but for one.  *)
PlanIs(e) ==
    /\ aAt[e] = "written" => \A p \in A!Plans : Untouched(<<e, p>>)
    /\ aAt[e] \in AtWork \cup {"next", "done"} =>
          /\ aTodo[e] \subseteq aPlan[e]
          /\ \A p \in aTodo[e] : Untouched(<<e, p>>)
          /\ \A p \in aPlan[e] \ aTodo[e] :
                A!Told(<<e, p>>) \/ (aAt[e] \in AtWork /\ aNow[e] = p)
    /\ aAt[e] = "done" => aTodo[e] = {}

AuditTypes == A!TypeOK /\ \A e \in Requests : aAt[e] \in AtWork => aNow[e] \in A!Plans

AuditInv == AuditTypes /\ (aMishaps = {} => \A e \in Requests : PlanIs(e) /\ NowIs(e))

LEMMA AuditInit == A!Init => AuditInv
<1> SUFFICES ASSUME A!Init PROVE AuditInv
  OBVIOUS
<1>1. \A e \in Requests : aAt[e] = "none"
  BY DEF A!Init
<1>2. A!TypeOK
  BY DEF A!Init, A!TypeOK, A!At
<1> QED BY <1>1, <1>2 DEF AuditInv, AuditTypes, AtWork, PlanIs, NowIs

(* A step of entry e leaves what is known of the others. *)
LEMMA OtherEntries ==
    ASSUME NEW e \in Requests, NEW q \in Requests \ {e}, PlanIs(q), NowIs(q), AuditTypes,
           aAt'[q] = aAt[q], aPlan'[q] = aPlan[q], aTodo'[q] = aTodo[q], aNow'[q] = aNow[q],
           \A p \in A!Plans : aRecord'[<<q, p>>] = aRecord[<<q, p>>] /\ (<<q, p>> \in aOut' <=> <<q, p>> \in aOut)
    PROVE  PlanIs(q)' /\ NowIs(q)'
<1>1. aPlan[q] \subseteq A!Plans /\ aTodo[q] \subseteq A!Plans /\ (aAt[q] \in AtWork => aNow[q] \in A!Plans)
  BY DEF AuditTypes, A!TypeOK
<1>2. \A p \in A!Plans : /\ Untouched(<<q, p>>)' <=> Untouched(<<q, p>>)
                         /\ A!Told(<<q, p>>)' <=> A!Told(<<q, p>>)
  BY DEF Untouched, A!Told
<1>3. PlanIs(q)'
  BY <1>1, <1>2 DEF PlanIs
<1>4. NowIs(q)'
  BY <1>1, <1>2 DEF NowIs
<1> QED BY <1>3, <1>4

(* Only entry e has a step. *)
OnlyFor(e) ==
    \A q \in Requests \ {e} :
        /\ aAt'[q] = aAt[q] /\ aPlan'[q] = aPlan[q] /\ aTodo'[q] = aTodo[q] /\ aNow'[q] = aNow[q]
        /\ \A p \in A!Plans :
              aRecord'[<<q, p>>] = aRecord[<<q, p>>] /\ (<<q, p>> \in aOut' <=> <<q, p>> \in aOut)

LEMMA AuditOnly ==
    ASSUME AuditInv, NEW e \in Requests, AuditTypes', OnlyFor(e), aMishaps' = {} => aMishaps = {},
           aMishaps' = {} => PlanIs(e)' /\ NowIs(e)'
    PROVE  AuditInv'
<1>1. ASSUME aMishaps' = {}, NEW q \in Requests
      PROVE  PlanIs(q)' /\ NowIs(q)'
  <2>1. AuditTypes /\ PlanIs(q) /\ NowIs(q)
    BY <1>1 DEF AuditInv
  <2>2. CASE q = e
    BY <1>1, <2>2
  <2>3. CASE q # e
    BY <2>1, <2>3, OtherEntries DEF OnlyFor
  <2> QED BY <2>2, <2>3
<1> QED BY <1>1 DEF AuditInv

(* What is known of entry e, one by one. *)
LEMMA AuditAt ==
    ASSUME AuditInv, NEW e \in Requests
    PROVE  /\ aAt \in [Requests -> A!At] /\ aPlan \in [Requests -> SUBSET A!Plans]
           /\ aTodo \in [Requests -> SUBSET A!Plans]
           /\ aNow \in [Requests -> A!Plans \cup {NoToken}]
           /\ aOut \subseteq A!Deliveries
           /\ aRecord \in [A!Deliveries -> {"none", "PENDING", "SENT", "FAILED"}]
           /\ aMishaps \subseteq A!Mishaps
           /\ aPlan[e] \subseteq A!Plans /\ aTodo[e] \subseteq A!Plans
           /\ \A p \in A!Plans : <<e, p>> \in A!Deliveries
           /\ aAt[e] \in AtWork => aNow[e] \in A!Plans /\ <<e, aNow[e]>> \in A!Deliveries
           /\ A!At = AtWork \cup {"none", "written", "next", "done", "lost"}
  BY DEF AuditInv, AuditTypes, A!TypeOK, A!Deliveries, A!At, AtWork

LEMMA AuditLog ==
    ASSUME AuditInv, NEW e \in Requests, A!Log(e)
    PROVE  AuditInv'
<1>1. /\ aAt' = [aAt EXCEPT ![e] = "written"] /\ aPlan' = [aPlan EXCEPT ![e] = {}]
      /\ aTodo' = [aTodo EXCEPT ![e] = {}] /\ aNow' = [aNow EXCEPT ![e] = NoToken]
      /\ aOut' = {d \in aOut : d[1] # e}
      /\ aRecord' = [d \in A!Deliveries |-> IF d[1] = e THEN "none" ELSE aRecord[d]]
      /\ aMishaps' = aMishaps
  BY DEF A!Log, A!Goto
<1>2. aAt' \in [Requests -> A!At] /\ aAt'[e] = "written" /\ \A q \in Requests \ {e} : aAt'[q] = aAt[q]
  BY <1>1, AuditAt
<1>3. AuditTypes'
  <2>1. /\ aPlan' \in [Requests -> SUBSET A!Plans] /\ aTodo' \in [Requests -> SUBSET A!Plans]
        /\ aNow' \in [Requests -> A!Plans \cup {NoToken}] /\ \A q \in Requests \ {e} : aNow'[q] = aNow[q]
    BY <1>1, AuditAt
  <2>2. /\ aOut' \subseteq A!Deliveries /\ aMishaps' \subseteq A!Mishaps
        /\ aRecord' \in [A!Deliveries -> {"none", "PENDING", "SENT", "FAILED"}]
    BY <1>1, AuditAt
  <2>3. \A q \in Requests : aAt'[q] \in AtWork => aNow'[q] \in A!Plans
    BY <1>2, <2>1, AuditAt DEF AtWork
  <2> QED BY <1>2, <2>1, <2>2, <2>3 DEF AuditTypes, A!TypeOK
<1>4. OnlyFor(e)
  <2>1. ASSUME NEW q \in Requests \ {e}
        PROVE  aPlan'[q] = aPlan[q] /\ aTodo'[q] = aTodo[q] /\ aNow'[q] = aNow[q]
    BY <1>1, AuditAt
  <2>2. ASSUME NEW q \in Requests \ {e}, NEW p \in A!Plans
        PROVE  aRecord'[<<q, p>>] = aRecord[<<q, p>>] /\ (<<q, p>> \in aOut' <=> <<q, p>> \in aOut)
    <3>1. <<q, p>> \in A!Deliveries /\ <<q, p>>[1] # e
      BY DEF A!Deliveries
    <3> QED BY <1>1, <3>1
  <2> QED BY <1>2, <2>1, <2>2 DEF OnlyFor
<1>5. PlanIs(e)' /\ NowIs(e)'
  <2>1. ASSUME NEW p \in A!Plans PROVE Untouched(<<e, p>>)'
    <3>1. <<e, p>> \in A!Deliveries /\ <<e, p>>[1] = e
      BY DEF A!Deliveries
    <3> QED BY <1>1, <3>1 DEF Untouched
  <2> QED BY <1>2, <2>1 DEF PlanIs, NowIs, AtWork
<1> QED BY <1>1, <1>3, <1>4, <1>5, AuditOnly

(* What is recorded and out of a delivery may change, and of no other. *)
Touches(e, n) ==
    /\ aOut' = aOut \/ aOut' = aOut \cup {<<e, n>>}
    /\ \/ aRecord' = aRecord
       \/ \E st \in {"PENDING", "SENT", "FAILED"} : aRecord' = [aRecord EXCEPT ![<<e, n>>] = st]

(* The delivery being made goes on, or is over. *)
LEMMA AuditStays ==
    ASSUME AuditInv, NEW e \in Requests, NEW s \in AtWork \cup {"next", "lost"},
           aAt' = [aAt EXCEPT ![e] = s], UNCHANGED <<aPlan, aTodo, aNow>>,
           s # "lost" => aAt[e] \in AtWork,
           (aAt[e] \in AtWork /\ Touches(e, aNow[e])) \/ UNCHANGED <<aOut, aRecord>>,
           aMishaps' = aMishaps \/ (aMishaps' \subseteq A!Mishaps /\ aMishaps' # {}),
           aMishaps' = {} => /\ s # "lost" /\ aAt[e] \in AtWork
                             /\ s \in AtWork => NowIs(e)'
                             /\ s = "next" => A!Told(<<e, aNow[e]>>)'
    PROVE  AuditInv'
<1> DEFINE n == aNow[e]
<1>1. aAt' \in [Requests -> A!At] /\ aAt'[e] = s /\ \A q \in Requests \ {e} : aAt'[q] = aAt[q]
  BY AuditAt
<1>2. aAt[e] \in AtWork => n \in A!Plans /\ <<e, n>> \in A!Deliveries
  BY AuditAt
<1>3. /\ aOut' \subseteq A!Deliveries
      /\ aRecord' \in [A!Deliveries -> {"none", "PENDING", "SENT", "FAILED"}]
  BY <1>2, AuditAt DEF Touches
<1>4. AuditTypes'
  <2>1. \A q \in Requests : aAt'[q] \in AtWork => aNow'[q] \in A!Plans
    BY <1>1, AuditAt DEF AtWork
  <2>2. aMishaps' \subseteq A!Mishaps
    BY AuditAt
  <2> QED BY <1>1, <1>3, <2>1, <2>2, AuditAt DEF AuditTypes, A!TypeOK
<1>5. ASSUME NEW q \in Requests, NEW p \in A!Plans, q # e \/ (aAt[e] \in AtWork => p # n)
      PROVE  aRecord'[<<q, p>>] = aRecord[<<q, p>>] /\ (<<q, p>> \in aOut' <=> <<q, p>> \in aOut)
  <2>1. <<q, p>> \in A!Deliveries
    BY DEF A!Deliveries
  <2>2. aAt[e] \in AtWork => <<q, p>> # <<e, n>>
    BY <1>5
  <2> QED BY <2>1, <2>2, <1>2, AuditAt DEF Touches
<1>6. OnlyFor(e)
  BY <1>1, <1>5 DEF OnlyFor
<1>7. ASSUME aMishaps' = {} PROVE PlanIs(e)' /\ NowIs(e)'
  <2>1. aAt[e] \in AtWork /\ s \in AtWork \cup {"next"} /\ PlanIs(e) /\ NowIs(e)
    BY <1>7 DEF AuditInv
  <2>2. n \in aPlan[e] \ aTodo[e] /\ aTodo[e] \subseteq aPlan[e] /\ aPlan[e] \subseteq A!Plans
    BY <2>1, AuditAt DEF NowIs, PlanIs
  <2>3. ASSUME NEW p \in aTodo[e] PROVE Untouched(<<e, p>>)'
    <3>1. p \in A!Plans /\ p # n /\ Untouched(<<e, p>>)
      BY <2>1, <2>2 DEF PlanIs
    <3> HIDE DEF n
    <3> QED BY <1>5, <3>1 DEF Untouched
  <2>4. ASSUME NEW p \in aPlan[e] \ aTodo[e], p # n PROVE A!Told(<<e, p>>)'
    <3>1. p \in A!Plans /\ A!Told(<<e, p>>)
      BY <2>1, <2>2, <2>4 DEF PlanIs
    <3> HIDE DEF n
    <3> QED BY <1>5, <2>4, <3>1 DEF A!Told
  <2>5. PlanIs(e)'
    <3>1. s # "written" /\ s # "done"
      BY <2>1 DEF AtWork
    <3>2. \A p \in aPlan[e] \ aTodo[e] : A!Told(<<e, p>>)' \/ (s \in AtWork /\ n = p)
      BY <1>7, <2>1, <2>4
    <3> QED BY <1>1, <2>2, <2>3, <3>1, <3>2 DEF PlanIs
  <2>6. NowIs(e)'
    <3>1. s = "next" => s \notin AtWork
      BY DEF AtWork
    <3> QED BY <1>1, <1>7, <2>1, <3>1 DEF NowIs
  <2> QED BY <2>5, <2>6
<1>8. aMishaps' = {} => aMishaps = {}
  OBVIOUS
<1> QED BY <1>4, <1>6, <1>7, <1>8, AuditOnly

LEMMA AuditWorks ==
    ASSUME AuditInv, NEW e \in Requests,
           \/ A!Look(e) \/ A!Message(e) \/ A!RecordMessage(e) \/ A!Pending(e) \/ A!NoAddress(e)
           \/ A!Send(e) \/ A!Refuse(e) \/ A!RecordSent(e) \/ A!RecordFailed(e)
    PROVE  AuditInv'
<1> DEFINE n == aNow[e]
<1>0. aMishaps = {} => NowIs(e)
  BY DEF AuditInv
<1>1. UNCHANGED <<aPlan, aTodo, aNow, aMishaps>> /\ aAt[e] \in AtWork
  BY DEF A!Look, A!Message, A!RecordMessage, A!Pending, A!NoAddress, A!Send, A!Refuse, A!RecordSent,
         A!RecordFailed, AtWork
<1>2. n \in A!Plans /\ <<e, n>> \in A!Deliveries /\ <<e, n>>[2] = n
  BY <1>1, AuditAt
<1>3. ASSUME NEW s \in AtWork \cup {"next"}, aAt' = [aAt EXCEPT ![e] = s], Touches(e, n),
             aMishaps = {} => (s \in AtWork => NowIs(e)') /\ (s = "next" => A!Told(<<e, n>>)')
      PROVE  AuditInv'
  <2>1. s \in AtWork \cup {"next", "lost"} /\ s # "lost"
    BY DEF AtWork
  <2> QED BY <1>1, <1>3, <2>1, AuditStays
<1>4. ASSUME NEW s \in A!At, aAt' = [aAt EXCEPT ![e] = s] PROVE aAt'[e] = s
  BY <1>4, AuditAt
<1>5. AtWork \cup {"next"} \subseteq A!At
  BY DEF AtWork, A!At
<1>6. CASE A!Look(e)
  <2> DEFINE s == IF <<e, n>> \in aOut THEN "next" ELSE "message"
  <2>1. /\ aAt[e] = "look" /\ aAt' = [aAt EXCEPT ![e] = s] /\ UNCHANGED <<aOut, aRecord>>
    BY <1>6 DEF A!Look, A!Goto
  <2>2. s \in AtWork \cup {"next"} /\ aAt'[e] = s
    BY <2>1, <1>4, <1>5 DEF AtWork
  <2>3. aMishaps = {} => s = "message" /\ Untouched(<<e, n>>) /\ n \in aPlan[e] \ aTodo[e]
    BY <1>0, <2>1 DEF NowIs, AtWork, Untouched
  <2>4. aMishaps = {} => NowIs(e)'
    BY <1>1, <2>1, <2>2, <2>3 DEF NowIs, Untouched
  <2>5. Touches(e, n)
    BY <2>1 DEF Touches
  <2> QED BY <1>3, <2>1, <2>2, <2>3, <2>4, <2>5
<1>7. CASE A!Message(e)
  <2>1. /\ aAt[e] = "message" /\ aAt' = [aAt EXCEPT ![e] = "record"]
        /\ aOut' = aOut \cup {<<e, n>>} /\ UNCHANGED aRecord
    BY <1>7 DEF A!Message, A!Goto
  <2>2. "record" \in AtWork \cup {"next"} /\ aAt'[e] = "record" /\ Touches(e, n)
    BY <2>1, <1>4, <1>5 DEF AtWork, Touches
  <2>3. aMishaps = {} => n \in aPlan[e] \ aTodo[e]
    BY <1>0, <1>1 DEF NowIs
  <2>4. aMishaps = {} => NowIs(e)'
    BY <1>1, <2>1, <2>2, <2>3 DEF NowIs
  <2> QED BY <1>3, <2>1, <2>2, <2>4
<1>8. CASE A!RecordMessage(e) \/ A!RecordSent(e)
  <2>1. /\ aAt[e] \in {"record", "sent"} /\ aAt' = [aAt EXCEPT ![e] = "next"]
        /\ aRecord' = [aRecord EXCEPT ![<<e, n>>] = "SENT"] /\ UNCHANGED aOut
    BY <1>8 DEF A!RecordMessage, A!RecordSent, A!Goto, A!Mark
  <2>2. "next" \in AtWork \cup {"next"} /\ "next" \notin AtWork /\ Touches(e, n)
    BY <2>1 DEF AtWork, Touches
  <2>3. aMishaps = {} => <<e, n>> \in aOut
    BY <1>0, <1>1, <2>1 DEF NowIs
  <2>4. aRecord'[<<e, n>>] = "SENT"
    BY <1>2, <2>1, AuditAt
  <2>5. aMishaps = {} => A!Told(<<e, n>>)'
    BY <1>1, <2>1, <2>3, <2>4 DEF A!Told
  <2> HIDE DEF n
  <2> QED BY <1>3, <2>1, <2>2, <2>5
<1>9. CASE A!Pending(e)
  <2>1. /\ aAt[e] = "pending" /\ aAt' = [aAt EXCEPT ![e] = "send"]
        /\ aRecord' = [aRecord EXCEPT ![<<e, n>>] = "PENDING"] /\ UNCHANGED aOut
    BY <1>9 DEF A!Pending, A!Goto, A!Mark
  <2>2. "send" \in AtWork \cup {"next"} /\ aAt'[e] = "send" /\ Touches(e, n)
    BY <2>1, <1>4, <1>5 DEF AtWork, Touches
  <2>3. aMishaps = {} => n \in aPlan[e] \ aTodo[e] /\ <<e, n>> \notin aOut
    BY <1>0, <1>1, <2>1 DEF NowIs, Untouched
  <2>4. aMishaps = {} => NowIs(e)'
    BY <1>1, <2>1, <2>2, <2>3 DEF NowIs
  <2> QED BY <1>3, <2>1, <2>2, <2>4
<1>10. CASE A!NoAddress(e)
  <2>1. aAt[e] = "pending" /\ aAt' = [aAt EXCEPT ![e] = "next"] /\ UNCHANGED <<aOut, aRecord>>
    BY <1>10 DEF A!NoAddress, A!Goto
  <2>2. "next" \in AtWork \cup {"next"} /\ "next" \notin AtWork /\ Touches(e, n)
    BY <2>1 DEF AtWork, Touches
  <2>3. aMishaps = {} => Untouched(<<e, n>>) /\ n[2] = "EMAIL"
    BY <1>0, <1>1, <2>1 DEF NowIs
  <2>4. aMishaps = {} => A!Told(<<e, n>>)'
    BY <1>1, <1>2, <2>1, <2>3 DEF A!Told, Untouched
  <2> HIDE DEF n
  <2> QED BY <1>3, <2>1, <2>2, <2>4
<1>11. CASE A!Send(e)
  <2>1. /\ aAt[e] = "send" /\ aAt' = [aAt EXCEPT ![e] = "sent"]
        /\ aOut' = aOut \cup {<<e, n>>} /\ UNCHANGED aRecord
    BY <1>11 DEF A!Send, A!Goto
  <2>2. "sent" \in AtWork \cup {"next"} /\ aAt'[e] = "sent" /\ Touches(e, n)
    BY <2>1, <1>4, <1>5 DEF AtWork, Touches
  <2>3. aMishaps = {} => n \in aPlan[e] \ aTodo[e]
    BY <1>0, <1>1 DEF NowIs
  <2>4. aMishaps = {} => NowIs(e)'
    BY <1>1, <2>1, <2>2, <2>3 DEF NowIs
  <2> QED BY <1>3, <2>1, <2>2, <2>4
<1>12. CASE A!Refuse(e)
  <2>1. aAt[e] = "send" /\ aAt' = [aAt EXCEPT ![e] = "failed"] /\ UNCHANGED <<aOut, aRecord>>
    BY <1>12 DEF A!Refuse, A!Goto
  <2>2. "failed" \in AtWork \cup {"next"} /\ aAt'[e] = "failed" /\ Touches(e, n)
    BY <2>1, <1>4, <1>5 DEF AtWork, Touches
  <2>3. aMishaps = {} => n \in aPlan[e] \ aTodo[e] /\ <<e, n>> \notin aOut
    BY <1>0, <1>1, <2>1 DEF NowIs
  <2>4. aMishaps = {} => NowIs(e)'
    BY <1>1, <2>1, <2>2, <2>3 DEF NowIs
  <2> QED BY <1>3, <2>1, <2>2, <2>4
<1>13. CASE A!RecordFailed(e)
  <2>1. /\ aAt[e] = "failed" /\ aAt' = [aAt EXCEPT ![e] = "next"]
        /\ aRecord' = [aRecord EXCEPT ![<<e, n>>] = "FAILED"] /\ UNCHANGED aOut
    BY <1>13 DEF A!RecordFailed, A!Goto, A!Mark
  <2>2. "next" \in AtWork \cup {"next"} /\ "next" \notin AtWork /\ Touches(e, n)
    BY <2>1 DEF AtWork, Touches
  <2>3. aMishaps = {} => <<e, n>> \notin aOut
    BY <1>0, <1>1, <2>1 DEF NowIs
  <2>4. aRecord'[<<e, n>>] = "FAILED"
    BY <1>2, <2>1, AuditAt
  <2>5. aMishaps = {} => A!Told(<<e, n>>)'
    BY <1>1, <2>1, <2>3, <2>4 DEF A!Told
  <2> HIDE DEF n
  <2> QED BY <1>3, <2>1, <2>2, <2>5
<1> QED BY <1>6, <1>7, <1>8, <1>9, <1>10, <1>11, <1>12, <1>13

LEMMA AuditMakePlan ==
    ASSUME AuditInv, NEW e \in Requests, A!MakePlan(e)
    PROVE  AuditInv'
<1>1. PICK p \in SUBSET A!Plans : aPlan' = [aPlan EXCEPT ![e] = p] /\ aTodo' = [aTodo EXCEPT ![e] = p]
  BY DEF A!MakePlan
<1>2. aAt[e] = "written" /\ aAt' = [aAt EXCEPT ![e] = "next"] /\ UNCHANGED <<aNow, aOut, aRecord, aMishaps>>
  BY DEF A!MakePlan, A!Goto
<1>3. /\ aAt' \in [Requests -> A!At] /\ aAt'[e] = "next" /\ \A q \in Requests \ {e} : aAt'[q] = aAt[q]
      /\ aPlan' \in [Requests -> SUBSET A!Plans] /\ aPlan'[e] = p
      /\ \A q \in Requests \ {e} : aPlan'[q] = aPlan[q]
      /\ aTodo' \in [Requests -> SUBSET A!Plans] /\ aTodo'[e] = p
      /\ \A q \in Requests \ {e} : aTodo'[q] = aTodo[q]
  BY <1>1, <1>2, AuditAt
<1>4. "next" \notin AtWork
  BY DEF AtWork
<1>5. AuditTypes'
  <2>1. \A q \in Requests : aAt'[q] \in AtWork => aNow'[q] \in A!Plans
    BY <1>2, <1>3, <1>4, AuditAt
  <2> QED BY <1>2, <1>3, <2>1, AuditAt DEF AuditTypes, A!TypeOK
<1>6. OnlyFor(e)
  BY <1>2, <1>3 DEF OnlyFor
<1>7. ASSUME aMishaps' = {} PROVE PlanIs(e)' /\ NowIs(e)'
  <2>1. \A d \in p : Untouched(<<e, d>>)'
    BY <1>2, <1>7 DEF AuditInv, PlanIs, Untouched
  <2> QED BY <1>3, <1>4, <2>1 DEF PlanIs, NowIs
<1> QED BY <1>2, <1>5, <1>6, <1>7, AuditOnly

LEMMA AuditBegin ==
    ASSUME AuditInv, NEW e \in Requests, NEW d \in A!Plans, A!Begin(e, d)
    PROVE  AuditInv'
<1> DEFINE s == IF d[2] = "IN_APP" THEN "look" ELSE "pending"
<1>1. /\ aAt[e] = "next" /\ d \in aTodo[e] /\ aAt' = [aAt EXCEPT ![e] = s]
      /\ aTodo' = [aTodo EXCEPT ![e] = @ \ {d}] /\ aNow' = [aNow EXCEPT ![e] = d]
      /\ UNCHANGED <<aPlan, aOut, aRecord, aMishaps>>
  BY DEF A!Begin, A!Goto
<1>2. s \in {"look", "pending"} /\ (s = "pending" => d[2] = "EMAIL") /\ s \in AtWork
  BY DEF AtWork, A!Plans, A!Channels
<1> HIDE DEF s
<1>3. /\ aAt' \in [Requests -> A!At] /\ aAt'[e] = s /\ \A q \in Requests \ {e} : aAt'[q] = aAt[q]
  BY <1>1, <1>2, AuditAt
<1>4. /\ aTodo' \in [Requests -> SUBSET A!Plans] /\ aTodo'[e] = aTodo[e] \ {d}
      /\ \A q \in Requests \ {e} : aTodo'[q] = aTodo[q]
  BY <1>1, AuditAt
<1>5. /\ aNow' \in [Requests -> A!Plans \cup {NoToken}] /\ aNow'[e] = d
      /\ \A q \in Requests \ {e} : aNow'[q] = aNow[q]
  BY <1>1, AuditAt
<1>6. AuditTypes'
  <2>1. \A q \in Requests : aAt'[q] \in AtWork => aNow'[q] \in A!Plans
    BY <1>3, <1>5, AuditAt
  <2> QED BY <1>1, <1>3, <1>4, <1>5, <2>1, AuditAt DEF AuditTypes, A!TypeOK
<1>7. OnlyFor(e)
  BY <1>1, <1>3, <1>4, <1>5 DEF OnlyFor
<1>8. ASSUME aMishaps' = {} PROVE PlanIs(e)' /\ NowIs(e)'
  <2>1. PlanIs(e)
    BY <1>1, <1>8 DEF AuditInv
  <2>2. /\ aTodo[e] \subseteq aPlan[e] /\ \A p \in aTodo[e] : Untouched(<<e, p>>)
        /\ \A p \in aPlan[e] \ aTodo[e] : A!Told(<<e, p>>)
    BY <1>1, <2>1 DEF PlanIs, AtWork
  <2>3. s \notin {"written", "done", "record", "sent", "send", "failed"}
    BY <1>2
  <2>4. /\ \A p \in aTodo'[e] : Untouched(<<e, p>>)'
        /\ \A p \in aPlan'[e] \ aTodo'[e] : A!Told(<<e, p>>)' \/ p = d
    BY <1>1, <1>4, <2>2 DEF Untouched, A!Told
  <2>5. PlanIs(e)'
    BY <1>1, <1>2, <1>3, <1>4, <1>5, <2>2, <2>3, <2>4 DEF PlanIs
  <2>6. Untouched(<<e, d>>)' /\ d \in aPlan'[e] \ aTodo'[e]
    BY <1>1, <1>4, <2>2 DEF Untouched
  <2>7. NowIs(e)'
    BY <1>2, <1>3, <1>5, <2>3, <2>6 DEF NowIs
  <2> QED BY <2>5, <2>7
<1> QED BY <1>1, <1>6, <1>7, <1>8, AuditOnly

LEMMA AuditFinish ==
    ASSUME AuditInv, NEW e \in Requests, A!Finish(e)
    PROVE  AuditInv'
<1>1. /\ aAt[e] = "next" /\ aTodo[e] = {} /\ aAt' = [aAt EXCEPT ![e] = "done"]
      /\ aNow' = [aNow EXCEPT ![e] = NoToken] /\ UNCHANGED <<aPlan, aTodo, aOut, aRecord, aMishaps>>
  BY DEF A!Finish, A!Goto
<1>2. /\ aAt' \in [Requests -> A!At] /\ aAt'[e] = "done" /\ \A q \in Requests \ {e} : aAt'[q] = aAt[q]
      /\ aNow' \in [Requests -> A!Plans \cup {NoToken}] /\ \A q \in Requests \ {e} : aNow'[q] = aNow[q]
  BY <1>1, AuditAt
<1>3. AuditTypes'
  <2>1. \A q \in Requests : aAt'[q] \in AtWork => aNow'[q] \in A!Plans
    BY <1>2, AuditAt DEF AtWork
  <2> QED BY <1>1, <1>2, <2>1, AuditAt DEF AuditTypes, A!TypeOK
<1>4. OnlyFor(e)
  BY <1>1, <1>2 DEF OnlyFor
<1>5. ASSUME aMishaps' = {} PROVE PlanIs(e)' /\ NowIs(e)'
  <2>1. PlanIs(e)
    BY <1>1, <1>5 DEF AuditInv
  <2>2. \A p \in aPlan[e] \ aTodo[e] : A!Told(<<e, p>>)
    BY <1>1, <2>1 DEF PlanIs, AtWork
  <2>3. \A p \in aPlan'[e] \ aTodo'[e] : A!Told(<<e, p>>)'
    BY <1>1, <2>2 DEF A!Told
  <2> QED BY <1>1, <1>2, <2>3 DEF PlanIs, NowIs, AtWork
<1> QED BY <1>1, <1>3, <1>4, <1>5, AuditOnly

LEMMA AuditStatement ==
    ASSUME AuditInv, NEW e \in Requests, A!StatementFails(e)
    PROVE  AuditInv'
<1>1. aMishaps' = aMishaps \cup {"statement"} /\ UNCHANGED <<aPlan, aTodo, aNow, aOut, aRecord>>
  BY DEF A!StatementFails
<1>2. aMishaps' \subseteq A!Mishaps /\ aMishaps' # {}
  BY <1>1, AuditAt DEF A!Mishaps
<1>3. aAt[e] \in AtWork \cup {"written", "next"}
  BY AuditAt DEF A!StatementFails, A!Running
<1>4. aAt' = [aAt EXCEPT ![e] = CASE aAt[e] \in {"written", "next"} -> "lost"
                                  [] aAt[e] = "sent" -> "failed"
                                  [] OTHER -> "next"]
  BY DEF A!StatementFails, A!Goto
<1>5. PICK s \in AtWork \cup {"next", "lost"} :
         aAt' = [aAt EXCEPT ![e] = s] /\ (s # "lost" => aAt[e] \in AtWork)
  <2>1. CASE aAt[e] \in {"written", "next"}
    BY <1>4, <2>1
  <2>2. CASE aAt[e] = "sent"
    BY <1>4, <2>2 DEF AtWork
  <2>3. CASE aAt[e] \notin {"written", "next", "sent"}
    BY <1>3, <1>4, <2>3
  <2> QED BY <2>1, <2>2, <2>3
<1> QED BY <1>1, <1>2, <1>5, AuditStays

LEMMA AuditCrash == AuditInv /\ A!Crash => AuditInv'
<1> SUFFICES ASSUME AuditInv, A!Crash PROVE AuditInv'
  OBVIOUS
<1>1. /\ aAt' = [e \in Requests |-> IF e \in A!Running THEN "lost" ELSE aAt[e]]
      /\ aMishaps' = aMishaps \cup {"crash"} /\ UNCHANGED <<aPlan, aTodo, aNow, aOut, aRecord>>
  BY DEF A!Crash
<1>2. aAt' \in [Requests -> A!At] /\ \A e \in Requests : aAt'[e] \in AtWork => aAt[e] = aAt'[e]
  BY <1>1, AuditAt DEF AtWork
<1>3. aMishaps' \subseteq A!Mishaps /\ aMishaps' # {}
  BY <1>1 DEF AuditInv, AuditTypes, A!TypeOK, A!Mishaps
<1>4. AuditTypes'
  BY <1>1, <1>2, <1>3 DEF AuditInv, AuditTypes, A!TypeOK
<1> QED BY <1>3, <1>4 DEF AuditInv

LEMMA AuditNext == AuditInv /\ A!Next => AuditInv'
<1> SUFFICES ASSUME AuditInv, A!Next PROVE AuditInv'
  OBVIOUS
<1>1. ASSUME NEW e \in Requests, A!Go(e) PROVE AuditInv'
  <2>1. CASE A!MakePlan(e)
    BY <2>1, AuditMakePlan
  <2>2. CASE \E d \in A!Plans : A!Begin(e, d)
    BY <2>2, AuditBegin
  <2>3. CASE A!Finish(e)
    BY <2>3, AuditFinish
  <2>4. CASE \/ A!Look(e) \/ A!Message(e) \/ A!RecordMessage(e) \/ A!Pending(e) \/ A!NoAddress(e)
             \/ A!Send(e) \/ A!Refuse(e) \/ A!RecordSent(e) \/ A!RecordFailed(e)
    BY <2>4, AuditWorks
  <2> QED BY <1>1, <2>1, <2>2, <2>3, <2>4 DEF A!Go
<1>2. ASSUME NEW e \in Requests, A!Log(e) PROVE AuditInv'
  BY <1>2, AuditLog
<1>3. ASSUME NEW e \in Requests, A!StatementFails(e) PROVE AuditInv'
  BY <1>3, AuditStatement
<1> QED BY <1>1, <1>2, <1>3, AuditCrash DEF A!Next

LEMMA AuditSame == AuditInv /\ UNCHANGED avars => AuditInv'
  BY DEF avars, AuditInv, AuditTypes, A!TypeOK, PlanIs, NowIs, Untouched, A!Told

(* Of an entry whose notifications are over, each delivery planned has a   *)
(* record that tells what became of it.                                    *)
DoneIsTold ==
    aMishaps = {} => \A e \in Requests : aAt[e] = "done" => \A p \in aPlan[e] : A!Told(<<e, p>>)

(* What NoneLost (Notifications) rests on: unless the server ended or a    *)
(* statement failed, no entry is over before every delivery of its plan is *)
(* made or refused, and recorded as it was.                                *)
THEOREM WhatIsDoneIsTold == MCSpec => []DoneIsTold
  <1>1. MCInit => AuditInv
    BY AuditInit DEF MCInit
  <1>2. AuditInv /\ [MCNext]_allvars => AuditInv'
    BY AuditNext, AuditSame DEF MCNext, Intake_, Tokens_, Columns_, Hub_, Audit_, allvars
  <1>3. AuditInv => DoneIsTold
    BY DEF AuditInv, PlanIs, AtWork, DoneIsTold
  <1> QED BY <1>1, <1>2, <1>3, PTL DEF MCSpec

-----------------------------------------------------------------------------
(* Types of all parts.                                                     *)

(* The proofs about the refresh tokens hold of the part "tokens". *)
TP == INSTANCE McpRefreshTokens_proofs WITH
        Users <- Requests, Requests <- Calls, Grace <- 1, RefreshTTL <- 1, MaxTime <- 2,
        now <- tNow, row <- tRow, minted <- tMinted, born <- tBorn, lock <- tLock,
        active <- tActive, pc <- tPc, loc <- tLoc

LEMMA RowIsRow == T!Row = TP!Row
  BY DEF T!Row, TP!Row, T!Never, TP!Never

LEMMA TokensInit == T!Init => TP!IInv
<1>1. T!Init => TP!Init
  BY DEF T!Init, TP!Init, T!Idle, TP!Idle
<1>2. NoRow \notin TP!Row
  BY RowIsRow, EndingsAssumption
<1> QED BY <1>1, <1>2, EndingsAssumption, TP!InitInv

LEMMA TokensSteps == T!Next => TP!Next
  BY DEF T!Next, TP!Next, T!vars, TP!vars, T!table, TP!table, T!world, TP!world, T!Tick, TP!Tick,
         T!SetActive, TP!SetActive, T!MintRefreshToken, TP!MintRefreshToken, T!Goto, TP!Goto,
         T!Answer, TP!Answer, T!Idle, TP!Idle, T!Start, TP!Start,
         T!ExchangeRefreshToken, TP!ExchangeRefreshToken, T!DeleteExpired, TP!DeleteExpired,
         T!Successors, TP!Successors, T!NoSuccessor, TP!NoSuccessor, T!GraceLookup, TP!GraceLookup,
         T!IssueTokensForRefreshRow, TP!IssueTokensForRefreshRow, T!RotateClaim, TP!RotateClaim,
         T!RotateCommit, TP!RotateCommit, T!RotateInactive, TP!RotateInactive,
         T!RotateAbort, TP!RotateAbort, T!RotateReread, TP!RotateReread,
         T!RevokeToken, TP!RevokeToken, T!DeleteFamilyFind, TP!DeleteFamilyFind,
         T!DeleteFamilyRemove, TP!DeleteFamilyRemove, T!Step, TP!Step, T!Never, TP!Never,
         T!Rows, TP!Rows, T!Unused, TP!Unused, T!InFamily, TP!InFamily

LEMMA TokensNext == TP!IInv /\ (T!Next \/ UNCHANGED tvars) => TP!IInv'
<1>1. NoRow \notin TP!Row
  BY RowIsRow, EndingsAssumption
<1>2. UNCHANGED tvars => UNCHANGED TP!vars
  BY DEF tvars, TP!vars
<1>3. TP!IInv /\ [TP!Next]_(TP!vars) => TP!IInv'
  BY <1>1, EndingsAssumption, TP!NextInv
<1> QED BY <1>2, <1>3, TokensSteps

LEMMA TokensTyped == TP!IInv => T!TypeOK
<1>1. T!Locals = TP!Locals /\ T!PCs = TP!PCs
  BY RowIsRow DEF T!Locals, TP!Locals, T!PCs, TP!PCs
<1> QED BY <1>1, RowIsRow DEF TP!IInv, TP!TypeOK, T!TypeOK

(* What the proof of the default did not need of its types. *)
ColumnTypes ==
    /\ dColumns \subseteq Tokens /\ dMishaps \subseteq D!Mishaps
    /\ \A r \in Calls : dPc[r] # "idle" => dJob[r].column \in Tokens

LEMMA ColumnsInit == D!Init => ColumnTypes
  BY DEF D!Init, ColumnTypes

LEMMA ColumnsNext == DefaultInv /\ ColumnTypes /\ (D!Next \/ UNCHANGED dvars) => ColumnTypes'
<1> SUFFICES ASSUME DefaultInv, ColumnTypes, D!Next \/ UNCHANGED dvars PROVE ColumnTypes'
  OBVIOUS
<1> USE DEF ColumnTypes, D!Mishaps
<1>0. dPc \in [Calls -> D!PCs] /\ dJob \in [Calls -> D!Job \cup {D!NoJob}]
  BY DEF DefaultInv, DefaultTypes
<1>1. ASSUME NEW r \in Calls, D!Write(r) PROVE ColumnTypes'
  <2>1. dPc[r] # "idle" /\ UNCHANGED <<dColumns, dMishaps, dJob>>
    BY <1>1 DEF D!Write, D!Goto
  <2>2. \A q \in Calls : q = r \/ dPc'[q] = dPc[q]
    BY <1>0, <1>1 DEF D!Write, D!Goto
  <2> QED BY <2>1, <2>2
<1>2. ASSUME NEW r \in Calls, D!End(r) \/ (D!Goto(r, "commit") /\ dPc[r] # "idle"), NEW q \in Calls, dPc'[q] # "idle"
      PROVE  dJob'[q].column \in Tokens
  <2>1. dPc[q] # "idle" /\ dJob'[q] = dJob[q]
    BY <1>0, <1>2 DEF D!End, D!Goto
  <2> QED BY <2>1
<1>3. ASSUME NEW r \in Calls, D!Reset(r) PROVE ColumnTypes'
  <2>1. D!End(r) \/ (D!Goto(r, "commit") /\ dPc[r] # "idle")
    BY <1>3 DEF D!Reset
  <2>2. UNCHANGED <<dColumns, dMishaps>>
    BY <1>3 DEF D!Reset
  <2> QED BY <1>2, <2>1, <2>2
<1>4. ASSUME NEW r \in Calls, D!Commit(r) PROVE ColumnTypes'
  <2>1. D!End(r) /\ dPc[r] # "idle" /\ dColumns' = dColumns \cup {dJob[r].column}
    BY <1>4 DEF D!Commit
  <2>2. dMishaps' \subseteq D!Mishaps
    BY <1>4 DEF D!Commit, D!Note
  <2> QED BY <1>2, <2>1, <2>2
<1>5. ASSUME D!ProcessEnds("timeout") PROVE ColumnTypes'
  <2>1. \A q \in Calls : dPc'[q] # "idle" => dPc[q] # "idle" /\ dJob'[q] = dJob[q]
    BY <1>5 DEF D!ProcessEnds
  <2>2. dColumns' = dColumns /\ dMishaps' \subseteq D!Mishaps
    BY <1>5 DEF D!ProcessEnds, D!Note
  <2> QED BY <2>1, <2>2
<1>6. ASSUME NEW r \in Calls, NEW at, NEW j, j.column \in Tokens, D!Begin(r, at, j) PROVE ColumnTypes'
  <2>1. dColumns' = dColumns /\ dMishaps' \subseteq D!Mishaps
    BY <1>6 DEF D!Begin, D!Note
  <2>2. dJob'[r] = j /\ \A q \in Calls \ {r} : dPc'[q] = dPc[q] /\ dJob'[q] = dJob[q]
    BY <1>0, <1>6 DEF D!Begin
  <2> QED BY <1>6, <2>1, <2>2
<1>7. ASSUME NEW c \in Tokens, D!DeleteColumn(c) PROVE ColumnTypes'
  BY <1>7 DEF D!DeleteColumn, D!Note
<1>8. ASSUME NEW r \in Calls, NEW c \in Tokens, NEW wish \in D!Wish,
             D!PostColumn(r, c, wish) \/ D!PutColumn(r, c, wish)
      PROVE  ColumnTypes'
  BY <1>6, <1>8 DEF D!PostColumn, D!PutColumn
<1>9. UNCHANGED dvars => ColumnTypes'
  BY DEF dvars
<1> QED BY <1>1, <1>3, <1>4, <1>5, <1>7, <1>8, <1>9 DEF D!Next, D!Go, D!TimeOut, D!ColumnGone

(* The variables of every part have their types, those of the intake and   *)
(* of the refresh tokens by the invariants of their own proofs.            *)
THEOREM EndingsTyped == MCSpec => []TypesOK
  <1> DEFINE Inv == IInv /\ TP!IInv /\ DefaultInv /\ ColumnTypes /\ ViewInv /\ AuditInv
  <1>1. MCInit => Inv
    BY InitIInv, TokensInit, DefaultInit, ColumnsInit, ViewInit, AuditInit DEF MCInit
  <1>2. Inv /\ [MCNext]_allvars => Inv'
    <2> SUFFICES ASSUME Inv, [MCNext]_allvars PROVE Inv'
      OBVIOUS
    <2>1. /\ [Next]_vars /\ (T!Next \/ UNCHANGED tvars) /\ (D!Next \/ UNCHANGED dvars)
          /\ (H!Next \/ UNCHANGED hvars) /\ (A!Next \/ UNCHANGED avars)
      BY DEF MCNext, Intake_, Tokens_, Columns_, Hub_, Audit_, allvars
    <2>2. IInv'
      BY <2>1, NextIInv
    <2>3. TP!IInv'
      BY <2>1, TokensNext
    <2>4. DefaultInv' /\ ColumnTypes'
      BY <2>1, DefaultNext, DefaultSame, ColumnsNext
    <2>5. ViewInv'
      BY <2>1, ViewNext, ViewSame
    <2>6. AuditInv'
      BY <2>1, AuditNext, AuditSame
    <2> QED BY <2>2, <2>3, <2>4, <2>5, <2>6
  <1>3. Inv => TypesOK
    <2> SUFFICES ASSUME Inv PROVE TypesOK
      OBVIOUS
    <2>1. TypeOK
      BY DEF IInv
    <2>2. T!TypeOK
      BY TokensTyped
    <2>3. D!TypeOK
      BY DEF DefaultInv, DefaultTypes, ColumnTypes, D!TypeOK
    <2>4. H!TypeOK /\ A!TypeOK
      BY DEF ViewInv, AuditInv, AuditTypes
    <2> QED BY <2>1, <2>2, <2>3, <2>4 DEF TypesOK
  <1> QED BY <1>1, <1>2, <1>3, PTL DEF MCSpec
=============================================================================
