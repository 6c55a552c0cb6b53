------------------------ MODULE MCTenantRegistration ------------------------
(* Model checking of TenantRegistration on small sets. *)
EXTENDS TenantRegistration, TLC

(* Slugs, tenants, users and handlers are interchangeable. *)
Symmetry == Permutations(Slugs) \cup Permutations(Tenants)
            \cup Permutations(Users) \cup Permutations(Handlers)
=============================================================================
