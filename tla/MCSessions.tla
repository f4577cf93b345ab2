----------------------------- MODULE MCSessions -----------------------------
(***************************************************************************)
(* The seed of the default tenant, and requests to register one more code. *)
(***************************************************************************)
EXTENDS Sessions

CONSTANTS seed, acme, demo

MCCodeOf == [r \in Registrations |-> IF r = seed THEN demo ELSE acme]
=============================================================================
