--------------------------- MODULE SessionsProofs ---------------------------
(***************************************************************************)
(* Proofs about registrations and calls, for any number of codes, requests *)
(* and calls, any changes of accounts and any number of restarts.          *)
(***************************************************************************)
EXTENDS Sessions, TLAPS

Starting ==
    \/ \E reached \in BOOLEAN : Probe(reached)
    \/ Migrate \/ Serve \/ Crash

Registering(r) ==
    \/ Check(r) \/ InsertTenant(r) \/ InsertRole(r) \/ InsertUser(r)
    \/ Commit(r) \/ RegistrationFails(r) \/ Answer(r)

Arriving(c) ==
    \/ \E r \in Registrations : Login(c, r)
    \/ \E t \in tokens : Refresh(c, t) \/ Request(c, t)

\* Every step is one of these.
LEMMA Steps ==
    ASSUME [Next]_vars
    PROVE  \/ UNCHANGED vars
           \/ Starting
           \/ \E r \in Registrations : Registering(r) \/ Administer(r)
           \/ \E c \in Calls : Call(c) \/ Arriving(c)
  BY DEF Next, Register, Registering, Starting, Arriving

\* What an arrival is.
LEMMA Arrivals ==
    ASSUME TypeOK, NEW c \in Calls, Arriving(c)
    PROVE  \E t \in Token : \E s \in {"login", "refresh", "bearer"} :
               Arrive(c, t, s)
<1>1. \A r \in Registrations :
          [user |-> r, type |-> "access", admin |-> FALSE] \in Token
  BY DEF Token
<1>2. tokens \subseteq Token
  BY DEF TypeOK
<1> QED
  BY <1>1, <1>2 DEF Arriving, Login, Refresh, Request

----------------------------------------------------------------------------
(* Type correctness.                                                       *)

LEMMA NothingTypes ==
    /\ NoToken \in Token /\ NoContext \in [admin : BOOLEAN, roles : SUBSET Roles]
    /\ Fresh \in Account
  BY SessionsAssumption
  DEF SessionsAssumption, NoToken, NoContext, Fresh, Token, Account

LEMMA TokensTypes ==
    ASSUME NEW r \in Registrations, NEW admin \in BOOLEAN
    PROVE  Tokens(r, admin) \subseteq Token
  BY DEF Tokens, Token

\* What is watched has the type of an account.
LEMMA WatchTypes ==
    ASSUME TypeOK, Watch, account' \in [Registrations -> Account],
           token' = token
    PROVE  seen' \in [Calls -> SUBSET Account]
<1>1. \A c \in Calls : Visible(token[c].user)' \subseteq Account
  BY DEF Visible, TypeOK, Token
<1> QED
  BY <1>1 DEF Watch, TypeOK

LEMMA TypeInductive == TypeOK /\ [Next]_vars => TypeOK'
<1> SUFFICES ASSUME TypeOK, [Next]_vars PROVE TypeOK'
  OBVIOUS
<1>1. CASE UNCHANGED vars
  BY <1>1 DEF vars, boot, rows, calls, TypeOK
<1>2. CASE Starting
  <2>1. ASSUME NEW reached \in BOOLEAN, Probe(reached) PROVE TypeOK'
    BY <2>1, SessionsAssumption
    DEF Probe, TypeOK, SessionsAssumption, rows, calls
  <2>2. CASE Migrate \/ Serve
    BY <2>2 DEF Migrate, Serve, TypeOK, rows, calls
  <2>3. CASE Crash
    <3>1. crashes' \in 0 .. MaxCrashes /\ attempts' \in 0 .. MaxAttempts - 1
      BY <2>3, SessionsAssumption DEF Crash, TypeOK, SessionsAssumption
    <3>2. /\ token' \in [Calls -> Token] /\ seen' \in [Calls -> SUBSET Account]
          /\ context' \in [Calls -> [admin : BOOLEAN, roles : SUBSET Roles]]
      BY <2>3, NothingTypes DEF Crash
    <3>3. /\ pc' \in [Registrations -> {"idle", "checked", "tenant", "role",
                                        "user", "committed", "over"}]
          /\ open' \in [Registrations -> SUBSET Kinds]
      BY <2>3 DEF Crash
    <3>4. stage' \in [Calls -> {"idle", "login", "tenant", "refresh", "bearer",
                               "user"} \cup Answered]
      BY <2>3 DEF Crash
    <3>5. /\ phase' = "waiting"
          /\ UNCHANGED <<stored, account, tokens, changes>>
      BY <2>3 DEF Crash
    <3> QED
      BY <3>1, <3>2, <3>3, <3>4, <3>5 DEF TypeOK
  <2> QED
    BY <1>2, <2>1, <2>2, <2>3 DEF Starting
<1>3. ASSUME NEW r \in Registrations, Registering(r) PROVE TypeOK'
  <2>1. CASE Check(r) \/ InsertTenant(r) \/ InsertRole(r) \/ InsertUser(r)
             \/ RegistrationFails(r)
    <3>1. \/ pc' = pc
          \/ \E step \in {"checked", "tenant", "role", "user", "over"} :
                Becomes(r, step)
      BY <2>1 DEF Check, InsertTenant, InsertRole, InsertUser,
                  RegistrationFails, Close, Flush
    <3>2. \/ open' = open \/ open' = [open EXCEPT ![r] = {}]
          \/ \E kind \in {"tenant", "role", "user"} :
                open' = [open EXCEPT ![r] = @ \cup {kind}]
      BY <2>1 DEF Check, InsertTenant, InsertRole, InsertUser,
                  RegistrationFails, Close, Flush
    <3>3. pc' \in [Registrations -> {"idle", "checked", "tenant", "role",
                                     "user", "committed", "over"}]
      BY <3>1 DEF Becomes, TypeOK
    <3>4. open' \in [Registrations -> SUBSET Kinds]
      BY <3>2 DEF Kinds, TypeOK
    <3>5. UNCHANGED <<boot, stored, account, tokens, calls, seen, changes,
                      crashes>>
      BY <2>1 DEF Check, InsertTenant, InsertRole, InsertUser, RegistrationFails
    <3> QED
      BY <3>3, <3>4, <3>5 DEF TypeOK, boot, calls
  <2>2. CASE Commit(r)
    <3>1. seen' \in [Calls -> SUBSET Account]
      BY <2>2, WatchTypes DEF Commit, calls, TypeOK
    <3> QED
      BY <2>2, <3>1 DEF Commit, Becomes, Kinds, TypeOK, boot, calls
  <2>3. CASE Answer(r)
    BY <2>3, TokensTypes DEF Answer, Becomes, TypeOK, boot, calls
  <2> QED
    BY <1>3, <2>1, <2>2, <2>3 DEF Registering
<1>4. ASSUME NEW r \in Registrations, Administer(r) PROVE TypeOK'
  <2>1. account' \in [Registrations -> Account]
    BY <1>4 DEF Administer, TypeOK
  <2>2. seen' \in [Calls -> SUBSET Account]
    BY <1>4, <2>1, WatchTypes DEF Administer, calls
  <2> QED
    BY <1>4, <2>1, <2>2, SessionsAssumption
    DEF Administer, TypeOK, SessionsAssumption, boot, rows, calls
<1>5. ASSUME NEW c \in Calls, Call(c) PROVE TypeOK'
  <2>0. token[c].user \in Registrations /\ token[c].admin \in BOOLEAN
        /\ account[token[c].user] \in Account
    BY DEF TypeOK, Token
  <2>1. CASE FindTenant(c)
    BY <2>1 DEF FindTenant, Proceed, MoveTo, TypeOK, Answered, boot, rows
  <2>2. ASSUME NEW known \in BOOLEAN,
               FindUser(c, known) \/ RefreshTokens(c, known)
        PROVE  TypeOK'
    <3>1. account[token[c].user].admin \in BOOLEAN
      BY <2>0 DEF Account
    <3>2. tokens' \subseteq Token
      BY <2>0, <2>2, <3>1, TokensTypes DEF FindUser, RefreshTokens, TypeOK
    <3> QED
      BY <2>2, <3>2
      DEF FindUser, RefreshTokens, Proceed, MoveTo, TypeOK, Answered, boot, rows
  <2>3. ASSUME NEW known \in BOOLEAN, LoadUser(c, known) PROVE TypeOK'
    <3>1. account[token[c].user].admin \in BOOLEAN
      BY <2>0 DEF Account
    <3> QED
      BY <2>3, <3>1 DEF LoadUser, Proceed, MoveTo, TypeOK, Answered, boot, rows
  <2>4. CASE LoadRoles(c)
    BY <2>0, <2>4 DEF LoadRoles, MoveTo, TypeOK, Answered, Account, boot, rows
  <2>5. CASE Leave(c)
    BY <2>5, NothingTypes DEF Leave, MoveTo, TypeOK, boot, rows
  <2> QED
    BY <1>5, <2>1, <2>2, <2>3, <2>4, <2>5 DEF Call
<1>6. ASSUME NEW c \in Calls, Arriving(c) PROVE TypeOK'
  <2>1. PICK t \in Token, s \in {"login", "refresh", "bearer"} : Arrive(c, t, s)
    BY <1>6, Arrivals
  <2>2. Visible(t.user) \subseteq Account
    BY DEF Visible, TypeOK, Token
  <2> QED
    BY <2>1, <2>2 DEF Arrive, MoveTo, TypeOK, boot, rows
<1> QED
  BY <1>1, <1>2, <1>3, <1>4, <1>5, <1>6, Steps

\* The rows, the tokens and the calls keep their types.
THEOREM TypeCorrect == Spec => []TypeOK
<1>1. Init => TypeOK
  BY NothingTypes, SessionsAssumption DEF Init, TypeOK, SessionsAssumption
<1> QED
  BY <1>1, TypeInductive, PTL DEF Spec
----------------------------------------------------------------------------
(* Registrations.                                                          *)

\* The rows a transaction holds after each step.
Flushed(step) ==
    IF step = "tenant" THEN {"tenant"}
    ELSE IF step = "role" THEN {"tenant", "role"}
    ELSE IF step = "user" THEN {"tenant", "role", "user"} ELSE {}

Whole ==
    \A r \in Registrations :
        /\ open[r] = Flushed(pc[r])
        /\ stored[r] \in {{}, Kinds}
        /\ pc[r] \in {"checked", "tenant", "role", "user"} => stored[r] = {}
        /\ pc[r] = "committed" => stored[r] = Kinds

\* A tenant row counts from its flush on.
Holds(r) == "tenant" \in stored[r] \cup open[r]

OneHolder ==
    \A r, o \in Registrations :
        r # o /\ CodeOf[r] = CodeOf[o] => ~(Holds(r) /\ Holds(o))

RowsInv == TypeOK /\ Whole /\ OneHolder

LEMMA RegistrationSteps ==
    ASSUME RowsInv, NEW r \in Registrations, Registering(r)
    PROVE  /\ \A o \in Registrations \ {r} :
                 pc'[o] = pc[o] /\ open'[o] = open[o] /\ stored'[o] = stored[o]
           /\ open'[r] = Flushed(pc'[r])
           /\ stored'[r] = stored[r] \/ (Commit(r) /\ stored'[r] = Kinds)
           /\ pc'[r] \in {"checked", "tenant", "role", "user"} =>
                 stored'[r] = {}
           /\ pc'[r] = "committed" => stored'[r] = Kinds
           /\ Holds(r)' => \/ Holds(r)
                          \/ \A o \in SameCode(r) \ {r} : ~Holds(o)
<1> USE DEF RowsInv, TypeOK, Holds
<1>1. CASE Check(r)
  <2>1. UNCHANGED <<open, stored>> /\ open[r] = {}
    BY <1>1 DEF Check, Whole, Flushed
  <2>2. \/ pc' = [pc EXCEPT ![r] = "over"]
        \/ pc' = [pc EXCEPT ![r] = "checked"] /\ ~Taken(r)
    BY <1>1 DEF Check, Becomes
  <2>3. ~Taken(r) => stored[r] = {}
    BY DEF Taken, SameCode, Whole, Kinds
  <2> QED
    BY <2>1, <2>2, <2>3 DEF Flushed
<1>2. CASE InsertTenant(r)
  <2>1. UNCHANGED stored /\ open[r] = {} /\ stored[r] = {}
    BY <1>2 DEF InsertTenant, Whole, Flushed
  <2>2. CASE Close(r)
    BY <2>1, <2>2 DEF Close, Becomes, Flushed
  <2>3. CASE ~Taken(r) /\ Flush(r, "tenant")
    <3>1. /\ open' = [open EXCEPT ![r] = {"tenant"}]
          /\ pc' = [pc EXCEPT ![r] = "tenant"]
      BY <2>1, <2>3 DEF Flush, Becomes
    <3>2. \A o \in SameCode(r) \ {r} : ~Holds(o)
      BY <1>2, <2>3 DEF InsertTenant, Taken
    <3> QED
      BY <2>1, <3>1, <3>2 DEF Flushed
  <2> QED
    BY <1>2, <2>2, <2>3 DEF InsertTenant
<1>3. CASE InsertRole(r)
  <2>1. open[r] = {"tenant"} /\ stored[r] = {}
    BY <1>3 DEF InsertRole, Whole, Flushed
  <2>2. open[r] \cup {"role"} = {"tenant", "role"}
    BY <2>1
  <2>3. /\ open' = [open EXCEPT ![r] = {"tenant", "role"}]
        /\ pc' = [pc EXCEPT ![r] = "role"] /\ UNCHANGED stored
    BY <1>3, <2>2 DEF InsertRole, Flush, Becomes
  <2> QED
    BY <2>1, <2>3 DEF Flushed
<1>4. CASE InsertUser(r)
  <2>1. open[r] = {"tenant", "role"} /\ stored[r] = {}
    BY <1>4 DEF InsertUser, Whole, Flushed
  <2>2. open[r] \cup {"user"} = {"tenant", "role", "user"}
    BY <2>1
  <2>3. /\ open' = [open EXCEPT ![r] = {"tenant", "role", "user"}]
        /\ pc' = [pc EXCEPT ![r] = "user"] /\ UNCHANGED stored
    BY <1>4, <2>2 DEF InsertUser, Flush, Becomes
  <2> QED
    BY <2>1, <2>3 DEF Flushed
<1>5. CASE Commit(r)
  <2>1. stored[r] = {} /\ open[r] = {"tenant", "role", "user"}
    BY <1>5 DEF Commit, Whole, Flushed
  <2>2. stored[r] \cup open[r] \cup {"membership"} = Kinds
    BY <2>1 DEF Kinds
  <2>3. stored' = [stored EXCEPT ![r] = Kinds]
    BY <1>5, <2>2 DEF Commit
  <2>4. /\ open' = [open EXCEPT ![r] = {}]
        /\ pc' = [pc EXCEPT ![r] = IF r = Seed THEN "over" ELSE "committed"]
    BY <1>5 DEF Commit, Becomes
  <2> QED
    BY <1>5, <2>1, <2>3, <2>4 DEF Flushed
<1>6. CASE RegistrationFails(r)
  BY <1>6 DEF RegistrationFails, Close, Becomes, Whole, Flushed
<1>7. CASE Answer(r)
  BY <1>7 DEF Answer, Becomes, Whole, Flushed
<1> QED
  BY <1>1, <1>2, <1>3, <1>4, <1>5, <1>6, <1>7 DEF Registering

LEMMA CallsKeepRows ==
    ASSUME TypeOK, NEW c \in Calls, Call(c) \/ Arriving(c)
    PROVE  UNCHANGED <<boot, rows, account>>
  BY Arrivals DEF Call, FindTenant, LoadRoles, Leave, FindUser, RefreshTokens,
                  LoadUser, Arrive

LEMMA RowsInductive == RowsInv /\ [Next]_vars => RowsInv'
<1> SUFFICES ASSUME RowsInv, [Next]_vars PROVE RowsInv'
  OBVIOUS
<1>0. TypeOK /\ TypeOK'
  BY TypeInductive DEF RowsInv
<1>1. CASE UNCHANGED rows
  BY <1>0, <1>1 DEF RowsInv, rows, Whole, OneHolder, Holds
<1>2. CASE Crash
  <2>1. \A r \in Registrations :
            /\ open'[r] = {} /\ stored'[r] = stored[r]
            /\ \/ pc'[r] = "idle"
               \/ pc'[r] = "over"
    BY <1>2 DEF Crash
  <2>2. Whole'
    BY <2>1 DEF Whole, RowsInv, Flushed
  <2>3. OneHolder'
    BY <2>1 DEF OneHolder, RowsInv, Holds
  <2> QED
    BY <1>0, <2>2, <2>3 DEF RowsInv
<1>3. ASSUME NEW r \in Registrations, Registering(r) PROVE RowsInv'
  <2>1. Whole'
    BY <1>3, RegistrationSteps DEF Whole, RowsInv
  <2>2. \A o \in Registrations \ {r} : Holds(o)' = Holds(o)
    BY <1>3, RegistrationSteps DEF Holds
  <2>3. Holds(r)' => Holds(r) \/ \A o \in SameCode(r) \ {r} : ~Holds(o)
    BY <1>3, RegistrationSteps
  <2>4. OneHolder'
    BY <2>2, <2>3 DEF OneHolder, RowsInv, SameCode
  <2> QED
    BY <1>0, <2>1, <2>4 DEF RowsInv
<1>4. ASSUME NEW r \in Registrations, Administer(r) PROVE RowsInv'
  BY <1>1, <1>4 DEF Administer
<1>5. ASSUME NEW c \in Calls, Call(c) \/ Arriving(c) PROVE RowsInv'
  BY <1>0, <1>1, <1>5, CallsKeepRows
<1>6. CASE Starting
  BY <1>1, <1>2, <1>6 DEF Starting, Probe, Migrate, Serve
<1> QED
  BY <1>1, <1>3, <1>4, <1>5, <1>6, Steps DEF vars

LEMMA RowsInit == Init => RowsInv
<1>1. Init => TypeOK
  BY NothingTypes, SessionsAssumption DEF Init, TypeOK, SessionsAssumption
<1> QED
  BY <1>1 DEF Init, RowsInv, Whole, OneHolder, Holds, Flushed

\* Whatever breaks off, and whenever, a tenant has its administrator.
THEOREM TenantsStayWhole == Spec => []TenantsAreWhole
<1>1. RowsInv => TenantsAreWhole
  BY DEF RowsInv, Whole, TenantsAreWhole
<1> QED
  BY <1>1, RowsInit, RowsInductive, PTL DEF Spec

\* Registration implements the directory: every step gives one code to one
\* registration or leaves the directory as it is.
LEMMA DirectorySteps ==
    ASSUME RowsInv, [Next]_vars
    PROVE  [Directory!Next]_{r \in Registrations : "tenant" \in stored[r]}
<1> DEFINE given == {r \in Registrations : "tenant" \in stored[r]}
<1>1. CASE UNCHANGED stored
  BY <1>1
<1>2. ASSUME NEW r \in Registrations, Registering(r), ~UNCHANGED given
      PROVE  Directory!Give(r)
  <2>1. /\ \A o \in Registrations \ {r} : stored'[o] = stored[o]
        /\ stored'[r] = stored[r] \/ (Commit(r) /\ stored'[r] = Kinds)
    BY <1>2, RegistrationSteps
  <2>2. Commit(r) /\ stored'[r] = Kinds
    BY <1>2, <2>1
  <2>3. given' = given \cup {r}
    BY <2>1, <2>2 DEF Kinds
  <2>4. Holds(r)
    BY <2>2 DEF Commit, RowsInv, Whole, Flushed, Holds
  <2>5. stored[r] = {}
    BY <2>2 DEF Commit, RowsInv, Whole
  <2>6. \A o \in given : CodeOf[o] # CodeOf[r]
    BY <2>4, <2>5 DEF RowsInv, OneHolder, Holds
  <2> QED
    BY <2>3, <2>6 DEF Directory!Give
<1>3. ASSUME NEW c \in Calls, Call(c) \/ Arriving(c) PROVE UNCHANGED stored
  BY <1>3, CallsKeepRows DEF RowsInv, rows
<1> QED
  BY <1>1, <1>2, <1>3, Steps
  DEF vars, rows, Starting, Probe, Migrate, Serve, Crash, Administer,
      Directory!Next

\* A code is given to one tenant, at one moment and for good.
THEOREM CodesGivenOnce == Spec => CodesAreGivenOnce
<1>1. Init => Directory!Init
  BY DEF Init, Directory!Init
<1> QED
  BY <1>1, RowsInit, RowsInductive, DirectorySteps, PTL
  DEF Spec, CodesAreGivenOnce, Directory!Spec
----------------------------------------------------------------------------
(* Calls.                                                                  *)

\* What a call has been told was true at some moment since it came in.
Watched(c) ==
    /\ stage[c] # "idle" => Visible(token[c].user) \subseteq seen[c]
    /\ stage[c] \in {"tenant", "loggedIn"} => \E a \in seen[c] : a.tenant
    /\ stage[c] \in {"loggedIn", "refreshed"} => \E a \in seen[c] : a.user
    /\ stage[c] \in {"user", "served"} =>
          /\ Stored(token[c].user)
          /\ \E a \in seen[c] : a.user /\ a.admin = context[c].admin
    /\ stage[c] = "served" => \E a \in seen[c] : a.roles = context[c].roles

CallsInv ==
    /\ RowsInv
    /\ \A t \in tokens : stored[t.user] = Kinds
    /\ \A c \in Calls : Watched(c)

\* Time that passes takes nothing back.
LEMMA WatchedStays ==
    ASSUME NEW c \in Calls, Watched(c),
           stage'[c] = stage[c], token'[c] = token[c], context'[c] = context[c],
           stage[c] # "idle" =>
               /\ seen[c] \subseteq seen'[c]
               /\ Visible(token[c].user)' \subseteq seen'[c]
               /\ Stored(token[c].user) => Stored(token[c].user)'
    PROVE  Watched(c)'
  BY DEF Watched

LEMMA WatchShows ==
    ASSUME TypeOK, Watch, UNCHANGED calls, NEW c \in Calls, Watched(c),
           Stored(token[c].user) => Stored(token[c].user)'
    PROVE  Watched(c)'
<1>1. stage[c] # "idle" => seen'[c] = seen[c] \cup Visible(token[c].user)'
  BY DEF Watch
<1> QED
  BY <1>1, WatchedStays DEF calls

\* What is stored stays.
LEMMA StoredStays ==
    ASSUME RowsInv, [Next]_vars, NEW r \in Registrations
    PROVE  stored[r] = {} \/ stored'[r] = stored[r]
<1>1. ASSUME NEW o \in Registrations, Registering(o)
      PROVE  stored[r] = {} \/ stored'[r] = stored[r]
  BY <1>1, RegistrationSteps DEF Commit, RowsInv, Whole
<1>2. ASSUME NEW c \in Calls, Call(c) \/ Arriving(c) PROVE UNCHANGED stored
  BY <1>2, CallsKeepRows DEF RowsInv, rows
<1> QED
  BY <1>1, <1>2, Steps
  DEF vars, rows, Starting, Probe, Migrate, Serve, Crash, Administer

\* Each query of a call, and what it has found when it goes on.
LEMMA CallSteps ==
    ASSUME CallsInv, NEW c \in Calls, Call(c)
    PROVE  /\ \A o \in Calls : Watched(o)'
           /\ \A t \in tokens' : stored[t.user] = Kinds
<1> DEFINE r == token[c].user
<1>0. /\ TypeOK /\ Watched(c) /\ r \in Registrations
      /\ account[r] \in Account /\ stored[r] \in {{}, Kinds}
  BY DEF CallsInv, RowsInv, TypeOK, Token, Whole
<1>1. UNCHANGED <<stored, account>>
  BY <1>0, CallsKeepRows DEF rows
<1>2. Stored(r) => account[r] \in Visible(r) /\ stored[r] = Kinds
  BY <1>0 DEF Stored, Visible
<1>3. ASSUME NEW o \in Calls, stage'[o] = stage[o], token'[o] = token[o],
             context'[o] = context[o], seen'[o] = seen[o]
      PROVE  Watched(o)'
  BY <1>1, <1>3, WatchedStays DEF CallsInv, Watched, Visible, Stored
<1>4. CASE FindTenant(c)
  <2>1. /\ UNCHANGED <<tokens, token, context, seen>>
        /\ \A o \in Calls \ {c} : stage'[o] = stage[o]
        /\ stage[c] = "login"
    BY <1>0, <1>4 DEF FindTenant, Proceed, MoveTo, TypeOK
  <2>2. \/ stage'[c] = "refused"
        \/ /\ stage'[c] = "tenant"
           /\ "tenant" \in stored[r] /\ account[r].tenant
    <3> DEFINE found == {o \in SameCode(r) :
                            "tenant" \in stored[o] /\ account[o].tenant}
    <3>1. \/ stage'[c] = "refused"
          \/ stage'[c] = "tenant" /\ found = {r}
      BY <1>0, <1>4 DEF FindTenant, Proceed, MoveTo, TypeOK
    <3>2. r \in found => "tenant" \in stored[r] /\ account[r].tenant
      OBVIOUS
    <3>3. found = {r} => r \in found
      OBVIOUS
    <3> HIDE DEF found, r
    <3> QED
      BY <3>1, <3>2, <3>3
  <2>3. "tenant" \in stored[r] => Stored(r)
    BY <1>0 DEF Stored, Kinds
  <2>4. Watched(c)'
    BY <1>0, <1>1, <1>2, <2>1, <2>2, <2>3 DEF Watched, Visible, Stored
  <2> QED
    BY <1>3, <2>1, <2>4 DEF CallsInv
<1>5. ASSUME NEW known \in BOOLEAN, FindUser(c, known) \/ RefreshTokens(c, known)
      PROVE  /\ \A o \in Calls : Watched(o)'
             /\ \A t \in tokens' : stored[t.user] = Kinds
  <2>1. /\ UNCHANGED <<token, context, seen>>
        /\ \A o \in Calls \ {c} : stage'[o] = stage[o]
    BY <1>0, <1>5 DEF FindUser, RefreshTokens, Proceed, MoveTo, TypeOK
  <2>2. \/ stage'[c] = "refused" /\ tokens' = tokens
        \/ /\ stage'[c] = "loggedIn" /\ stage[c] = "tenant"
           /\ Stored(r) /\ account[r].user
           /\ tokens' = tokens \cup Tokens(r, account[r].admin)
        \/ /\ stage'[c] = "refreshed" /\ stage[c] = "refresh"
           /\ Stored(r) /\ account[r].user
           /\ tokens' = tokens \cup Tokens(r, account[r].admin)
    BY <1>0, <1>5 DEF FindUser, RefreshTokens, Proceed, MoveTo, TypeOK
  <2>3. Watched(c)'
    <3>1. CASE stage'[c] = "refused"
      BY <1>0, <1>1, <1>5, <2>1, <3>1
      DEF Watched, Visible, Stored, FindUser, RefreshTokens
    <3>2. CASE stage'[c] \in {"loggedIn", "refreshed"}
      <4>1. /\ stage[c] # "idle" /\ Stored(r) /\ account[r].user
            /\ stage'[c] = "loggedIn" => stage[c] = "tenant"
        BY <2>2, <3>2
      <4>2. account[r] \in seen[c]
        BY <1>0, <1>2, <4>1 DEF Watched
      <4>3. Visible(r)' = Visible(r) /\ seen'[c] = seen[c] /\ token'[c] = token[c]
        BY <1>1, <2>1 DEF Visible, Stored
      <4> HIDE DEF r
      <4>4. /\ \E a \in seen[c] : a.user
            /\ stage'[c] = "loggedIn" => \E a \in seen[c] : a.tenant
            /\ Visible(token[c].user) \subseteq seen[c]
        BY <1>0, <4>1, <4>2 DEF Watched
      <4> QED
        BY <3>2, <4>3, <4>4 DEF Watched, r
    <3> QED
      BY <2>2, <3>1, <3>2
  <2>4. \A t \in Tokens(r, account[r].admin) : t.user = r
    BY DEF Tokens
  <2> QED
    BY <1>2, <1>3, <2>1, <2>2, <2>3, <2>4 DEF CallsInv
<1>6. ASSUME NEW known \in BOOLEAN, LoadUser(c, known)
      PROVE  /\ \A o \in Calls : Watched(o)'
             /\ \A t \in tokens' : stored[t.user] = Kinds
  <2>1. /\ UNCHANGED <<tokens, token, seen>>
        /\ \A o \in Calls \ {c} :
              stage'[o] = stage[o] /\ context'[o] = context[o]
        /\ stage[c] = "bearer"
    BY <1>0, <1>6 DEF LoadUser, Proceed, MoveTo, TypeOK
  <2>2. \/ stage'[c] = "refused"
        \/ /\ stage'[c] = "user" /\ Stored(r) /\ account[r].user
           /\ context'[c].admin = account[r].admin
    BY <1>0, <1>6 DEF LoadUser, Proceed, MoveTo, TypeOK
  <2>3. Watched(c)'
    BY <1>0, <1>1, <1>2, <2>1, <2>2 DEF Watched, Visible, Stored
  <2> QED
    BY <1>3, <2>1, <2>3 DEF CallsInv
<1>7. CASE LoadRoles(c)
  <2>1. /\ UNCHANGED <<tokens, token, seen>>
        /\ \A o \in Calls \ {c} :
              stage'[o] = stage[o] /\ context'[o] = context[o]
        /\ stage[c] = "user" /\ stage'[c] = "served"
        /\ context'[c].admin = context[c].admin
        /\ context'[c].roles = account[r].roles
    BY <1>0, <1>7 DEF LoadRoles, MoveTo, TypeOK
  <2>2. Watched(c)'
    BY <1>0, <1>1, <1>2, <2>1 DEF Watched, Visible, Stored
  <2> QED
    BY <1>3, <2>1, <2>2 DEF CallsInv
<1>8. CASE Leave(c)
  <2>1. /\ UNCHANGED tokens /\ stage'[c] = "idle"
        /\ \A o \in Calls \ {c} : /\ stage'[o] = stage[o] /\ token'[o] = token[o]
                                  /\ context'[o] = context[o] /\ seen'[o] = seen[o]
    BY <1>0, <1>8 DEF Leave, MoveTo, TypeOK
  <2> QED
    BY <1>3, <2>1 DEF CallsInv, Watched
<1> QED
  BY <1>4, <1>5, <1>6, <1>7, <1>8 DEF Call

LEMMA CallsInductive == CallsInv /\ [Next]_vars => CallsInv'
<1> SUFFICES ASSUME CallsInv, [Next]_vars PROVE CallsInv'
  OBVIOUS
<1>0. RowsInv /\ RowsInv' /\ TypeOK /\ \A c \in Calls : Watched(c)
  BY RowsInductive DEF CallsInv, RowsInv
<1>1. \A r \in Registrations : stored[r] = {} \/ stored'[r] = stored[r]
  BY <1>0, StoredStays
<1>2. \A r \in Registrations : Stored(r) => Stored(r)'
  BY <1>1 DEF Stored
<1>3. \A c \in Calls : token[c].user \in Registrations
  BY <1>0 DEF TypeOK, Token
<1>4. \A t \in tokens : stored'[t.user] = Kinds
  BY <1>0, <1>1 DEF CallsInv, TypeOK, Token, Kinds
<1>5. ASSUME UNCHANGED <<calls, seen, account, stored>>
      PROVE  \A c \in Calls : Watched(c)'
  <2>1. UNCHANGED <<stage, token, context, seen, account, stored>>
    BY <1>5 DEF calls
  <2> QED
    BY <1>0, <2>1 DEF Watched, Visible, Stored
<1>6. ASSUME UNCHANGED calls, Watch PROVE \A c \in Calls : Watched(c)'
  <2>1. ASSUME NEW c \in Calls PROVE Watched(c)'
    <3>1. token'[c] = token[c] /\ token[c].user \in Registrations
      BY <1>3, <1>6 DEF calls
    <3>2. Stored(token[c].user) => Stored(token[c].user)'
      BY <1>1, <3>1 DEF Stored
    <3> QED
      BY <1>0, <1>6, <3>2, WatchShows
  <2> QED
    BY <2>1
<1>7. ASSUME NEW r \in Registrations, Registering(r) PROVE CallsInv'
  <2>1. CASE Commit(r)
    BY <1>0, <1>4, <1>6, <2>1 DEF Commit, CallsInv
  <2>2. CASE Answer(r)
    <3>1. stored[r] = Kinds /\ UNCHANGED <<calls, seen, account, stored>>
          /\ tokens' = tokens \cup Tokens(r, TRUE)
      BY <1>0, <2>2 DEF Answer, RowsInv, Whole
    <3>2. \A t \in Tokens(r, TRUE) : t.user = r
      BY DEF Tokens
    <3> QED
      BY <1>0, <1>4, <1>5, <3>1, <3>2 DEF CallsInv
  <2>3. CASE UNCHANGED <<calls, seen, account, stored, tokens>>
    BY <1>0, <1>4, <1>5, <2>3 DEF CallsInv
  <2> QED
    BY <1>7, <2>1, <2>2, <2>3
    DEF Registering, Check, InsertTenant, InsertRole, InsertUser,
        RegistrationFails
<1>8. ASSUME NEW r \in Registrations, Administer(r) PROVE CallsInv'
  BY <1>0, <1>4, <1>6, <1>8 DEF Administer, CallsInv
<1>9. CASE Starting
  <2>1. CASE Crash
    <3>1. \A c \in Calls : stage'[c] = "idle"
      BY <2>1 DEF Crash
    <3>2. \A c \in Calls : Watched(c)'
      BY <3>1 DEF Watched
    <3> QED
      BY <1>0, <1>4, <2>1, <3>2 DEF Crash, CallsInv
  <2>2. CASE UNCHANGED <<calls, seen, account, stored, tokens>>
    BY <1>0, <1>4, <1>5, <2>2 DEF CallsInv
  <2> QED
    BY <1>9, <2>1, <2>2 DEF Starting, Probe, Migrate, Serve, rows
<1>10. ASSUME NEW c \in Calls, Call(c) PROVE CallsInv'
  <2>1. UNCHANGED stored
    BY <1>0, <1>10, CallsKeepRows DEF rows
  <2> QED
    BY <1>0, <1>10, <2>1, CallSteps DEF CallsInv
<1>11. ASSUME NEW c \in Calls, Arriving(c) PROVE CallsInv'
  <2>1. PICK t \in Token, s \in {"login", "refresh", "bearer"} : Arrive(c, t, s)
    BY <1>0, <1>11, Arrivals
  <2>2. /\ UNCHANGED <<stored, account, tokens>>
        /\ token'[c] = t /\ stage'[c] = s /\ seen'[c] = Visible(t.user)
        /\ \A o \in Calls \ {c} : /\ stage'[o] = stage[o] /\ token'[o] = token[o]
                                  /\ context'[o] = context[o] /\ seen'[o] = seen[o]
    BY <1>0, <2>1 DEF Arrive, MoveTo, rows, TypeOK
  <2>3. Watched(c)'
    BY <2>2 DEF Watched, Visible, Stored
  <2>4. \A o \in Calls \ {c} : Watched(o)'
    BY <1>0, <2>2, WatchedStays DEF Watched, Visible, Stored
  <2> QED
    BY <1>0, <1>4, <2>2, <2>3, <2>4 DEF CallsInv
<1>12. CASE UNCHANGED vars
  BY <1>0, <1>4, <1>5, <1>12 DEF vars, rows, CallsInv
<1> QED
  BY <1>7, <1>8, <1>9, <1>10, <1>11, <1>12, Steps

LEMMA CallsInit == Init => CallsInv
  BY RowsInit DEF Init, CallsInv, Watched

\* Nobody gets tokens who was not active during the call, whatever is suspended
\* between its two queries.
THEOREM TokensStayEarned == Spec => []TokensAreEarned
<1>1. CallsInv => TokensAreEarned
  BY DEF CallsInv, Watched, TokensAreEarned
<1> QED
  BY <1>1, CallsInit, CallsInductive, PTL DEF Spec

\* No call works with rights that had been taken away before it came in.
THEOREM ContextsStayCurrent == Spec => []ContextsAreCurrent
<1>1. CallsInv => ContextsAreCurrent
  BY DEF CallsInv, Watched, ContextsAreCurrent
<1> QED
  BY <1>1, CallsInit, CallsInductive, PTL DEF Spec
=============================================================================
