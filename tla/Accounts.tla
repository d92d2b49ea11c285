------------------------------ MODULE Accounts ------------------------------
(***************************************************************************)
(* Users: auth.service.ts registers them, bookings.service.ts makes one    *)
(* for a guest it does not know, users.service.ts and admin.service.ts     *)
(* switch them on and off and change their role, and jwt.strategy.ts lets  *)
(* the holder of a token in, from the cache when it can.                   *)
(***************************************************************************)
EXTENDS ReadThrough

CONSTANTS
    UserIds,
    Emails,
    Roles,
    SeededUsers         \* id -> [email, role, active], made by the seed

VARIABLE
    user                \* id -> [email, role, active], for the rows that are there

-----------------------------------------------------------------------------
User == [email : Emails, role : Roles, active : BOOLEAN]

\* "email String @unique"
ASSUME AccountsAssumption ==
    /\ {"USER", "ADMIN"} \subseteq Roles
    /\ DOMAIN SeededUsers \subseteq UserIds /\ Range(SeededUsers) \subseteq User
    /\ \A u, v \in DOMAIN SeededUsers : SeededUsers[u].email = SeededUsers[v].email => u = v

AccountsInit == user = SeededUsers

SignedIn(u) == <<"jwt_user", u>>

\* What the cache keeps of a user.
Profile(u) == [email |-> user[u].email, role |-> user[u].role]

Holding(email) == {u \in DOMAIN user : user[u].email = email}

-----------------------------------------------------------------------------
\* register has found no user of this e-mail.
Register(h) ==
    /\ \E row \in User :
        /\ row.active /\ Holding(row.email) = {}
        /\ Begin(h, [op |-> "register", pc |-> "create", row |-> row])
    /\ UNCHANGED <<user, cacheVars>>

\* createPublic looks for the guest; one it finds is taken as it is.
GuestBooks(h) ==
    /\ \E email \in Emails :
        IF Holding(email) = {}
        THEN Begin(h, [op |-> "guestBooks", pc |-> "create",
                       row |-> [email |-> email, role |-> "USER", active |-> TRUE]])
        ELSE AtOnce("guestBooks")
    /\ UNCHANGED <<user, cacheVars>>

\* scripts/seed-admin.ts: the user is made, or made an active administrator.
SeedAdmin(h) ==
    /\ \E email \in Emails :
        \/ /\ Holding(email) = {}
           /\ Begin(h, [op |-> "seedAdmin", pc |-> "create",
                        row |-> [email |-> email, role |-> "ADMIN", active |-> TRUE]])
        \/ \E u \in Holding(email) :
            Begin(h, [op |-> "seedAdmin", pc |-> "write", id |-> u, role |-> "ADMIN", active |-> TRUE])
    /\ UNCHANGED <<user, cacheVars>>

\* Variant: only the look-up keeps an e-mail from being used twice.
AdmitsAny(email) == TRUE

\* email is unique: creating a second one throws.
AdmitsUser(email) == Holding(email) = {}

CreateUser(h) ==
    LET row == handler[h].row IN
    /\ AtAny(h, {"register", "guestBooks", "seedAdmin"}, "create")
    /\ IF AdmitsUser(row.email)
       THEN \E u \in UserIds \ DOMAIN user : user' = With(user, u, row)
       ELSE UNCHANGED user
    /\ Return(h)
    /\ UNCHANGED cacheVars

-----------------------------------------------------------------------------
\* activate, deactivate, toggleUserStatus and updateUserRole have found the user;
\* toggle writes the contrary of what it read.
UserCall(h) ==
    /\ \E u \in DOMAIN user :
        \/ \E active \in {TRUE, FALSE, ~user[u].active} :
            Begin(h, [op |-> "setActive", pc |-> "write", id |-> u, active |-> active])
        \/ \E role \in Roles :
            Begin(h, [op |-> "setRole", pc |-> "write", id |-> u, role |-> role])
    /\ UNCHANGED <<user, cacheVars>>

\* None of them touches the cache.
WriteUser(h) ==
    LET c == handler[h] IN
    /\ AtAny(h, {"setActive", "setRole", "seedAdmin"}, "write")
    /\ user' = CASE c.op = "setActive" -> [user EXCEPT ![c.id].active = c.active]
                 [] c.op = "setRole" -> [user EXCEPT ![c.id].role = c.role]
                 [] c.op = "seedAdmin" -> [user EXCEPT ![c.id].role = c.role, ![c.id].active = c.active]
    /\ WriteThen(h, Idle, {SignedIn(c.id)})

-----------------------------------------------------------------------------
\* A request with a token of u.
Validate(h) ==
    /\ \E u \in DOMAIN user : Hit("validate", SignedIn(u)) \/ Miss(h, "validate", SignedIn(u))
    /\ UNCHANGED user

\* Variant: being there is enough.
LetsInAll(u) == u \in DOMAIN user

LetsIn(u) == u \in DOMAIN user /\ user[u].active

LoadUser(h) ==
    LET u == handler[h].entry[2] IN
    /\ At(h, "validate", "load")
    /\ IF LetsIn(u) THEN Load(h, Profile(u)) ELSE Return(h) /\ UNCHANGED cacheVars
    /\ UNCHANGED user

FillUser(h) ==
    /\ At(h, "validate", "fill")
    /\ Fill(h)
    /\ UNCHANGED user

-----------------------------------------------------------------------------
AccountCalls(h) ==
    Register(h) \/ GuestBooks(h) \/ SeedAdmin(h) \/ UserCall(h) \/ Validate(h)

AccountSteps(h) == CreateUser(h) \/ WriteUser(h) \/ LoadUser(h) \/ FillUser(h)

-----------------------------------------------------------------------------
\* However registrations and bookings of unknown guests with one e-mail overlap,
\* there is one user of it, and a later booking finds that one.
OneUserPerEmail == \A email \in Emails : \A u, v \in Holding(email) : u = v

\* A token opens the door for at most the life of a cache entry after its user was
\* deactivated: nobody inactive is put into the cache, unless the deactivation
\* falls between the look at the user and the fill.
InactiveAreNotCached ==
    [][\A u \in DOMAIN user :
        Cached(SignedIn(u))' /\ ~Cached(SignedIn(u)) /\ ~user[u].active
            => SignedIn(u) \in overtaken']_<<user, cacheVars, requests>>
=============================================================================
