-------------------------- MODULE TenantDirectory --------------------------
(***************************************************************************)
(* What registration promises: a tenant code is given to one registration, *)
(* at one moment, and for good.                                            *)
(***************************************************************************)
CONSTANTS
    Registrations,  \* requests for a code
    CodeOf          \* [Registrations -> the code asked for]

VARIABLE given      \* the registrations that have their code

Init == given = {}

Give(r) ==
    /\ \A o \in given : CodeOf[o] # CodeOf[r]
    /\ given' = given \cup {r}

Next == \E r \in Registrations : Give(r)

Spec == Init /\ [][Next]_given
=============================================================================
