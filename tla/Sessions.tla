------------------------------ MODULE Sessions ------------------------------
(***************************************************************************)
(* How tenants come to be and how their users are told apart               *)
(* (auth.py, dependencies.py, security.py, init_db.py, entrypoint.sh).     *)
(*                                                                         *)
(* A registration writes a tenant, its administrator's role, the           *)
(* administrator and the membership, in one transaction of four flushes;   *)
(* the seed script does the same for the default tenant at every start.    *)
(* Tokens are stateless: what they may do is decided by the rows at the    *)
(* time of each call, which takes up to two queries.                       *)
(***************************************************************************)
EXTENDS Naturals

CONSTANTS
    Registrations,  \* requests to register a tenant, and the rows they write
    Seed,           \* the one among them that init_db.py makes
    Codes,          \* tenant codes
    CodeOf,         \* [Registrations -> the code asked for]
    Roles,          \* roles of users
    AdminRole,      \* the role a registration writes
    Calls,          \* slots for requests to log in, to refresh and to work
    MaxAttempts,    \* of wait_for_db.py to reach the database
    MaxChanges,     \* bound: how often an operator changes an account
    MaxCrashes      \* bound: how often the process dies

ASSUME SessionsAssumption ==
    /\ Seed \in Registrations
    /\ CodeOf \in [Registrations -> Codes]
    /\ AdminRole \in Roles
    /\ MaxAttempts \in Nat \ {0} /\ MaxChanges \in Nat /\ MaxCrashes \in Nat

\* The rows of a registration.
Kinds == {"tenant", "role", "user", "membership"}

\* What calls read of them: is the tenant active, is the user, is_tenant_admin,
\* and the roles.
Account == [tenant : BOOLEAN, user : BOOLEAN, admin : BOOLEAN,
            roles : SUBSET Roles]

\* A token names its user, and with it the tenant; an access token carries
\* is_tenant_admin as well.
Token == [user : Registrations, type : {"access", "refresh"}, admin : BOOLEAN]

VARIABLES
    phase,     \* of the container: how far entrypoint.sh is
    attempts,  \* of this start to reach the database
    pc,        \* [Registrations -> the last step it took]
    open,      \* [Registrations -> rows flushed and not committed]
    stored,    \* [Registrations -> committed rows]
    account,   \* [Registrations -> what these rows say]
    tokens,    \* tokens handed out
    stage,     \* [Calls -> where the request stands]
    token,     \* [Calls -> what it shows, or for a login whom it names]
    context,   \* [Calls -> is_tenant_admin and role_ids as loaded]
    seen,      \* [Calls -> the account at each moment since it came in]
    changes, crashes

boot == <<phase, attempts>>
rows == <<pc, open, stored>>
calls == <<stage, token, context>>
vars == <<boot, rows, account, tokens, calls, seen, changes, crashes>>

Fresh == [tenant |-> TRUE, user |-> TRUE, admin |-> TRUE, roles |-> {AdminRole}]

NoContext == [admin |-> FALSE, roles |-> {}]
NoToken == [user |-> Seed, type |-> "access", admin |-> FALSE]

Init ==
    /\ phase = "waiting" /\ attempts = 0
    /\ pc = [r \in Registrations |-> "idle"]
    /\ open = [r \in Registrations |-> {}]
    /\ stored = [r \in Registrations |-> {}]
    /\ account = [r \in Registrations |-> Fresh]
    /\ tokens = {}
    /\ stage = [c \in Calls |-> "idle"]
    /\ token = [c \in Calls |-> NoToken]
    /\ context = [c \in Calls |-> NoContext]
    /\ seen = [c \in Calls |-> {}]
    /\ changes = 0 /\ crashes = 0

----------------------------------------------------------------------------
(* The container starts.                                                   *)

\* Seeded fault: one attempt too many.
ProbeLonger(reached) ==
    /\ phase = "waiting"
    /\ phase' = IF reached THEN "migrating" ELSE "waiting"
    /\ attempts' = IF reached \/ attempts = MaxAttempts THEN 0 ELSE attempts + 1
    /\ UNCHANGED <<rows, account, tokens, calls, seen, changes, crashes>>

\* wait_for_db.py; after its last attempt it exits, and the container starts
\* anew.
Probe(reached) ==
    /\ phase = "waiting"
    /\ phase' = IF reached THEN "migrating" ELSE "waiting"
    /\ attempts' = IF reached \/ attempts + 1 = MaxAttempts THEN 0
                   ELSE attempts + 1
    /\ UNCHANGED <<rows, account, tokens, calls, seen, changes, crashes>>

Migrate ==
    /\ phase = "migrating"
    /\ phase' = "seeding"
    /\ UNCHANGED <<attempts, rows, account, tokens, calls, seen, changes,
                   crashes>>

Serve ==
    /\ phase = "seeding"
    /\ pc[Seed] = "over"
    /\ phase' = "up"
    /\ UNCHANGED <<attempts, rows, account, tokens, calls, seen, changes,
                   crashes>>

\* The process dies, or a step of entrypoint.sh fails, and the container
\* starts anew.  Open transactions are rolled back.
Crash ==
    /\ crashes < MaxCrashes
    /\ crashes' = crashes + 1
    /\ phase' = "waiting" /\ attempts' = 0
    /\ pc' = [r \in Registrations |->
                 IF r = Seed \/ pc[r] = "idle" THEN "idle" ELSE "over"]
    /\ open' = [r \in Registrations |-> {}]
    /\ stage' = [c \in Calls |-> "idle"]
    /\ token' = [c \in Calls |-> NoToken]
    /\ context' = [c \in Calls |-> NoContext]
    /\ seen' = [c \in Calls |-> {}]
    /\ UNCHANGED <<stored, account, tokens, changes>>

----------------------------------------------------------------------------
(* POST /register-tenant, and the seed.                                    *)

Running(r) == phase = IF r = Seed THEN "seeding" ELSE "up"

SameCode(r) == {o \in Registrations : CodeOf[o] = CodeOf[r]}

Taken(r) == \E o \in SameCode(r) : "tenant" \in stored[o]

Stored(r) == "user" \in stored[r]

Becomes(r, step) == pc' = [pc EXCEPT ![r] = step]

\* The accounts that calls can come to see from now on.
Visible(r) == IF Stored(r) THEN {account[r]} ELSE {}

Watch ==
    seen' = [c \in Calls |-> IF stage[c] = "idle" THEN {}
                             ELSE seen[c] \cup Visible(token[c].user)']

\* Seeded fault: a default tenant that is there already is an error, and with
\* set -e the script ends there.
CheckOrExit(r) ==
    /\ Running(r) /\ pc[r] = "idle"
    /\ IF Taken(r) /\ r = Seed THEN phase' = "waiting" /\ UNCHANGED pc
       ELSE /\ Becomes(r, IF Taken(r) THEN "over" ELSE "checked")
            /\ UNCHANGED phase
    /\ UNCHANGED <<attempts, open, stored, account, tokens, calls, seen, changes,
                   crashes>>

\* ConflictError; the seed is skipped.
Check(r) ==
    /\ Running(r) /\ pc[r] = "idle"
    /\ Becomes(r, IF Taken(r) THEN "over" ELSE "checked")
    /\ UNCHANGED <<boot, open, stored, account, tokens, calls, seen, changes,
                   crashes>>

\* Seeded fault: nobody closes the session.
CloseLater(r) ==
    Becomes(r, "over") /\ UNCHANGED open

\* get_db closes the session whatever happens, which rolls back.
Close(r) ==
    /\ Becomes(r, "over")
    /\ open' = [open EXCEPT ![r] = {}]

Flush(r, kind) ==
    /\ Becomes(r, kind)
    /\ open' = [open EXCEPT ![r] = @ \cup {kind}]

\* Seeded fault: the check before it is all that keeps codes apart.
InsertTenantOnTrust(r) ==
    /\ Running(r) /\ pc[r] = "checked"
    /\ Flush(r, "tenant")
    /\ UNCHANGED <<boot, stored, account, tokens, calls, seen, changes, crashes>>

\* The unique index on the code: an insert waits for an open transaction that
\* inserted the same, and fails when it is committed.
InsertTenant(r) ==
    /\ Running(r) /\ pc[r] = "checked"
    /\ \A o \in SameCode(r) : "tenant" \notin open[o]
    /\ IF Taken(r) THEN Close(r) ELSE Flush(r, "tenant")
    /\ UNCHANGED <<boot, stored, account, tokens, calls, seen, changes, crashes>>

InsertRole(r) ==
    /\ Running(r) /\ pc[r] = "tenant"
    /\ Flush(r, "role")
    /\ UNCHANGED <<boot, stored, account, tokens, calls, seen, changes, crashes>>

\* Seeded fault: the tenant and its role are committed on their own.
InsertUserApart(r) ==
    /\ Running(r) /\ pc[r] = "role"
    /\ Becomes(r, "user")
    /\ stored' = [stored EXCEPT ![r] = open[r]]
    /\ open' = [open EXCEPT ![r] = {"user"}]
    /\ UNCHANGED <<boot, account, tokens, calls, seen, changes, crashes>>

InsertUser(r) ==
    /\ Running(r) /\ pc[r] = "role"
    /\ Flush(r, "user")
    /\ UNCHANGED <<boot, stored, account, tokens, calls, seen, changes, crashes>>

\* The membership is flushed by the commit.
Commit(r) ==
    /\ Running(r) /\ pc[r] = "user"
    /\ Becomes(r, IF r = Seed THEN "over" ELSE "committed")
    /\ stored' = [stored EXCEPT ![r] = @ \cup open[r] \cup {"membership"}]
    /\ open' = [open EXCEPT ![r] = {}]
    /\ UNCHANGED <<boot, account, tokens, calls, changes, crashes>>
    /\ Watch

\* The platform database breaks off a flush or the commit.
RegistrationFails(r) ==
    /\ r # Seed /\ pc[r] \in {"checked", "tenant", "role", "user"}
    /\ Close(r)
    /\ UNCHANGED <<boot, stored, account, tokens, calls, seen, changes, crashes>>

\* create_access_token and create_refresh_token.
Tokens(r, admin) ==
    {[user |-> r, type |-> "access", admin |-> admin],
     [user |-> r, type |-> "refresh", admin |-> FALSE]}

Answer(r) ==
    /\ Running(r) /\ pc[r] = "committed"
    /\ Becomes(r, "over")
    /\ tokens' = tokens \cup Tokens(r, TRUE)
    /\ UNCHANGED <<boot, open, stored, account, calls, seen, changes, crashes>>

----------------------------------------------------------------------------
(* Calls.  The account they are about is that of the token they show; a    *)
(* login shows none, but a code and an email lead to one account.          *)

MoveTo(c, s) == stage' = [stage EXCEPT ![c] = s]

\* Where a call goes when its query finds the row, and when it does not.
Proceed(c, found, s) == MoveTo(c, IF found THEN s ELSE "refused")

Arrive(c, t, s) ==
    /\ phase = "up" /\ stage[c] = "idle"
    /\ MoveTo(c, s)
    /\ token' = [token EXCEPT ![c] = t]
    /\ seen' = [seen EXCEPT ![c] = Visible(t.user)]
    /\ UNCHANGED <<boot, rows, account, tokens, context, changes, crashes>>

Login(c, r) ==
    Arrive(c, [user |-> r, type |-> "access", admin |-> FALSE], "login")

Refresh(c, t) == Arrive(c, t, "refresh")

Request(c, t) == Arrive(c, t, "bearer")

\* login asks for the tenant by its code, and scalar_one_or_none has at most
\* one to give.
FindTenant(c) ==
    LET r == token[c].user
        found == {o \in SameCode(r) : "tenant" \in stored[o] /\ account[o].tenant}
    IN /\ stage[c] = "login"
       /\ Proceed(c, found = {r}, "tenant")
       /\ UNCHANGED <<boot, rows, account, tokens, token, context, seen,
                      changes, crashes>>

\* Seeded fault: whoever knows the password is let in.
FindAnyUser(c, password) ==
    LET r == token[c].user
        found == Stored(r) /\ password
    IN /\ stage[c] = "tenant"
       /\ Proceed(c, found, "loggedIn")
       /\ tokens' = tokens \cup IF found THEN Tokens(r, account[r].admin) ELSE {}
       /\ UNCHANGED <<boot, rows, account, token, context, seen, changes,
                      crashes>>

\* And then for the user, whose password must be right.
FindUser(c, password) ==
    LET r == token[c].user
        found == Stored(r) /\ account[r].user /\ password
    IN /\ stage[c] = "tenant"
       /\ Proceed(c, found, "loggedIn")
       /\ tokens' = tokens \cup IF found THEN Tokens(r, account[r].admin) ELSE {}
       /\ UNCHANGED <<boot, rows, account, token, context, seen, changes,
                      crashes>>

\* refresh: the token may have expired.
RefreshTokens(c, valid) ==
    LET r == token[c].user
        found == /\ valid /\ token[c].type = "refresh"
                 /\ Stored(r) /\ account[r].user
    IN /\ stage[c] = "refresh"
       /\ Proceed(c, found, "refreshed")
       /\ tokens' = tokens \cup IF found THEN Tokens(r, account[r].admin) ELSE {}
       /\ UNCHANGED <<boot, rows, account, token, context, seen, changes,
                      crashes>>

\* Seeded fault: the token is believed.
LoadUserFromToken(c, valid) ==
    LET r == token[c].user
        found == /\ valid /\ token[c].type = "access"
                 /\ Stored(r) /\ account[r].user
    IN /\ stage[c] = "bearer"
       /\ Proceed(c, found, "user")
       /\ context' = [context EXCEPT
                         ![c].admin = IF found THEN token[c].admin ELSE @]
       /\ UNCHANGED <<boot, rows, account, tokens, token, seen, changes, crashes>>

\* get_current_context: the row decides on is_tenant_admin, not the token.
LoadUser(c, valid) ==
    LET r == token[c].user
        found == /\ valid /\ token[c].type = "access"
                 /\ Stored(r) /\ account[r].user
    IN /\ stage[c] = "bearer"
       /\ Proceed(c, found, "user")
       /\ context' = [context EXCEPT
                         ![c].admin = IF found THEN account[r].admin ELSE @]
       /\ UNCHANGED <<boot, rows, account, tokens, token, seen, changes, crashes>>

\* Its second query, which sees what was committed meanwhile.
LoadRoles(c) ==
    /\ stage[c] = "user"
    /\ MoveTo(c, "served")
    /\ context' = [context EXCEPT ![c].roles = account[token[c].user].roles]
    /\ UNCHANGED <<boot, rows, account, tokens, token, seen, changes, crashes>>

Answered == {"loggedIn", "refreshed", "served", "refused"}

Leave(c) ==
    /\ stage[c] \in Answered
    /\ MoveTo(c, "idle")
    /\ token' = [token EXCEPT ![c] = NoToken]
    /\ context' = [context EXCEPT ![c] = NoContext]
    /\ seen' = [seen EXCEPT ![c] = {}]
    /\ UNCHANGED <<boot, rows, account, tokens, changes, crashes>>

----------------------------------------------------------------------------
\* No route suspends, demotes or moves anybody: an operator does, in the
\* platform database.
Administer(r) ==
    /\ Stored(r) /\ changes < MaxChanges
    /\ changes' = changes + 1
    /\ \E new \in Account : account' = [account EXCEPT ![r] = new]
    /\ UNCHANGED <<boot, rows, tokens, calls, crashes>>
    /\ Watch

Register(r) ==
    \/ Check(r) \/ InsertTenant(r) \/ InsertRole(r) \/ InsertUser(r)
    \/ Commit(r) \/ Answer(r)

Call(c) ==
    \/ FindTenant(c) \/ LoadRoles(c) \/ Leave(c)
    \/ \E known \in BOOLEAN :
          FindUser(c, known) \/ RefreshTokens(c, known) \/ LoadUser(c, known)

Next ==
    \/ \E reached \in BOOLEAN : Probe(reached)
    \/ Migrate
    \/ Serve
    \/ Crash
    \/ \E r \in Registrations :
          Register(r) \/ RegistrationFails(r) \/ Administer(r)
    \/ \E c \in Calls :
          \/ Call(c)
          \/ \E r \in Registrations : Login(c, r)
          \/ \E t \in tokens : Refresh(c, t) \/ Request(c, t)

Spec == Init /\ [][Next]_vars

Proceeding(r) == pc[r] # "idle" /\ Register(r)

\* The scripts run one after the other, the database is reached at last, and
\* the event loop runs every registration that has begun; none is relied upon
\* to fail.
FairSpec ==
    /\ Spec
    /\ WF_vars(Probe(TRUE)) /\ WF_vars(Migrate) /\ WF_vars(Serve)
    /\ WF_vars(Register(Seed))
    /\ \A r \in Registrations : WF_vars(Proceeding(r))

----------------------------------------------------------------------------
(* Properties.                                                             *)

TypeOK ==
    /\ phase \in {"waiting", "migrating", "seeding", "up"}
    /\ attempts \in 0 .. MaxAttempts - 1
    /\ pc \in [Registrations -> {"idle", "checked", "tenant", "role", "user",
                                 "committed", "over"}]
    /\ open \in [Registrations -> SUBSET Kinds]
    /\ stored \in [Registrations -> SUBSET Kinds]
    /\ account \in [Registrations -> Account]
    /\ tokens \subseteq Token
    /\ stage \in [Calls -> {"idle", "login", "tenant", "refresh", "bearer",
                            "user"} \cup Answered]
    /\ token \in [Calls -> Token]
    /\ context \in [Calls -> [admin : BOOLEAN, roles : SUBSET Roles]]
    /\ seen \in [Calls -> SUBSET Account]
    /\ changes \in 0 .. MaxChanges
    /\ crashes \in 0 .. MaxCrashes

\* A code is given to one tenant, at one moment and for good, also when
\* registrations with it overlap, break off or ask for the default tenant's.
Directory ==
    INSTANCE TenantDirectory
        WITH given <- {r \in Registrations : "tenant" \in stored[r]}

CodesAreGivenOnce == Directory!Spec

\* No tenant is left without its administrator, whenever a registration or the
\* seed breaks off.
TenantsAreWhole ==
    \A r \in Registrations : stored[r] \in {{}, Kinds}

\* Tokens are for accounts that are there, and are given only in a call during
\* which the user was active and, for a login, the tenant as well.
TokensAreEarned ==
    /\ \A t \in tokens : stored[t.user] = Kinds
    /\ \A c \in Calls :
          /\ stage[c] \in {"loggedIn", "refreshed"} => \E a \in seen[c] : a.user
          /\ stage[c] = "loggedIn" => \E a \in seen[c] : a.tenant

\* A call works with what the rows said at some moment since it came in,
\* whatever the token was given for: who was suspended or demoted before is
\* turned away or is no administrator.
ContextsAreCurrent ==
    \A c \in Calls : stage[c] = "served" =>
        /\ \E a \in seen[c] : a.user /\ a.admin = context[c].admin
        /\ \E a \in seen[c] : a.roles = context[c].roles

\* A container that starts comes to serve, however often it has been started
\* on this database before.
StartupCompletes == phase # "up" ~> phase = "up"

\* A registration that has begun comes to an end, also when it waits for
\* another with the same code.
RegistrationsEnd ==
    \A r \in Registrations \ {Seed} : pc[r] = "checked" ~> pc[r] = "over"
=============================================================================
