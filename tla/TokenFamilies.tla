--------------------------- MODULE TokenFamilies ---------------------------
(***************************************************************************)
(* What refresh-token rotation promises (abstract specification): a family *)
(* is held through one token at a time; only its holder can be replaced,   *)
(* by a token never seen before; a family that has ended never begins      *)
(* again.                                                                  *)
(***************************************************************************)
CONSTANTS Tokens, Families, NoToken

VARIABLES
    holder,   \* the one token each family can be continued with
    issued,   \* tokens handed out so far
    begun     \* families begun so far

avars == <<holder, issued, begun>>

AInit ==
    /\ holder = [f \in Families |-> NoToken]
    /\ issued = {}
    /\ begun = {}

SignIn(f, t) ==
    /\ f \notin begun /\ t \notin issued
    /\ holder' = [holder EXCEPT ![f] = t]
    /\ issued' = issued \cup {t}
    /\ begun' = begun \cup {f}

Rotate(f, t) ==
    /\ holder[f] # NoToken
    /\ t \notin issued
    /\ holder' = [holder EXCEPT ![f] = t]
    /\ issued' = issued \cup {t}
    /\ UNCHANGED begun

End(f) ==
    /\ holder' = [holder EXCEPT ![f] = NoToken]
    /\ UNCHANGED <<issued, begun>>

ANext ==
    \E f \in Families :
        \/ \E t \in Tokens : SignIn(f, t) \/ Rotate(f, t)
        \/ End(f)

ASpec == AInit /\ [][ANext]_avars
=============================================================================
