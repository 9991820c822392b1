------------------------------ MODULE Accounts ------------------------------
(***************************************************************************)
(* Signing in and out (auth.py), the user registry (user_store.py) and the *)
(* administrator's actions on users and sessions (admin_routes.py).        *)
(*                                                                         *)
(* A login is a request that runs in steps beside other logins and beside  *)
(* administrators: it reads the user's record under the store's lock and   *)
(* checks the password, decides the rights and records the session outside *)
(* it.  There is one session per user, not per browser: a cookie holds the *)
(* user it was issued to, and the rights of its requests are those of that *)
(* user's entry in _user_cache.  users.yml is rewritten in place, under    *)
(* the lock, by every change.  The cookies are signed with a key that is   *)
(* kept, so a restart forgets the sessions and not the cookies.            *)
(*                                                                         *)
(* The time a session or a failed login takes to expire may pass at any    *)
(* step.  A browser makes one request at a time.                           *)
(***************************************************************************)
EXTENDS Naturals, FiniteSets

CONSTANTS Client,     \* the browsers
          Local,      \* users that sign in with a password
          Oidc,       \* users that come from the OIDC provider
          Super,      \* the user of ADMIN_USERNAME; may be in Local too
          Listed,     \* OIDC users named in OIDC_ADMIN_EMAILS, _SUBJECTS
          None,       \* no user, no record, no session, no request
          Live,       \* a login's record is still the one in the store
          LoginMax,   \* _LOGIN_MAX
          MaxLogins, MaxChanges,
          MaxFaults   \* bounds

Record == [enabled : BOOLEAN, admin : {"unset", "yes", "no"}, local : BOOLEAN]

ASSUME AccountsAssumption ==
    /\ None \notin Client \cup Local \cup Oidc \cup {Super}
    /\ Live # None /\ {None, Live} \cap Record = {}
    /\ Oidc \cap (Local \cup {Super}) = {}
    /\ Listed \subseteq Oidc
    /\ IsFiniteSet(Client) /\ LoginMax \in Nat \ {0}
    /\ MaxLogins \in Nat /\ MaxChanges \in Nat /\ MaxFaults \in Nat

User == Local \cup Oidc \cup {Super}

Rights == [admin : BOOLEAN, super : BOOLEAN]
NoRights == [admin |-> FALSE, super |-> FALSE]

VARIABLES
    users,    \* _data["users"], the record of each user
    policy,   \* new_users_enabled
    file,     \* users.yml; None while it is being written or after that failed
    saving,   \* the browser whose request holds the store's lock to save
    session,  \* _user_cache, by user
    cookie,   \* the user each browser's cookie names
    pc,       \* how far the request of each browser is
    who,      \* the user it signs in
    held,     \* the record authenticate_local read
    rights,   \* the rights of the session it will record
    failed,   \* _failed_attempts: those of the window, by user
    snap,     \* what a request has read of it
    logins, changes, faults    \* counted for the bounds

store == <<users, policy, file, saving>>
login == <<pc, who, held, rights, snap>>
counts == <<logins, changes, faults>>
vars == <<store, session, cookie, login, failed, counts>>

TypeOK ==
    /\ users \in [User -> Record \cup {None}]
    /\ policy \in BOOLEAN
    /\ file \in [users : [User -> Record \cup {None}], policy : BOOLEAN] \cup {None}
    /\ saving \in Client \cup {None}
    /\ session \in [User -> [rights : Rights, old : BOOLEAN] \cup {None}]
    /\ cookie \in [Client -> User \cup {None}]
    /\ pc \in [Client -> {"idle", "lockout", "read", "password", "env",
                          "count", "oidc", "rights", "record", "register", "respond"}]
    /\ who \in [Client -> User \cup {None}]
    /\ held \in [Client -> Record \cup {None, Live}]
    /\ rights \in [Client -> Rights]
    /\ failed \in [Local \cup {Super} -> 0..MaxLogins]
    /\ snap \in [Client -> 0..MaxLogins]
    /\ logins \in 0..MaxLogins /\ changes \in 0..MaxChanges
    /\ faults \in 0..MaxFaults

Init ==
    /\ users = [u \in User |-> None] /\ policy = TRUE
    /\ file = [users |-> users, policy |-> policy] /\ saving = None
    /\ session = [u \in User |-> None]
    /\ cookie = [c \in Client |-> None]
    /\ pc = [c \in Client |-> "idle"]
    /\ who = [c \in Client |-> None]
    /\ held = [c \in Client |-> None]
    /\ rights = [c \in Client |-> NoRights]
    /\ failed = [u \in Local \cup {Super} |-> 0]
    /\ snap = [c \in Client |-> 0]
    /\ logins = 0 /\ changes = 0 /\ faults = 0

Go(c, p) == pc' = [pc EXCEPT ![c] = p]
Free(c) == pc[c] = "idle" /\ saving # c

(* The end of a request, whether it signed in or not. *)
End(c) ==
    /\ Go(c, "idle")
    /\ who' = [who EXCEPT ![c] = None]
    /\ held' = [held EXCEPT ![c] = None]
    /\ rights' = [rights EXCEPT ![c] = NoRights]
    /\ snap' = [snap EXCEPT ![c] = 0]

-----------------------------------------------------------------------------
(* The store.  A change is made and the file truncated under the lock,     *)
(* which is held until the file is written.                                *)

Unlocked == saving = None

ChangeUnsaved(c, us, p) ==
    /\ Unlocked
    /\ users' = us /\ policy' = p
    /\ UNCHANGED <<saving, file>>

Change(c, us, p) ==
    /\ Unlocked
    /\ users' = us /\ policy' = p
    /\ saving' = c /\ file' = None

Saved(c) ==
    /\ saving = c
    /\ saving' = None /\ file' = [users |-> users, policy |-> policy]
    /\ UNCHANGED <<users, policy, session, cookie, login, failed, counts>>

(* The write raises: the request ends in an error, with the cookie if the  *)
(* login had come that far.                                                *)
SaveFails(c) ==
    /\ saving = c /\ faults < MaxFaults
    /\ faults' = faults + 1
    /\ saving' = None
    /\ cookie' = IF pc[c] = "respond" THEN [cookie EXCEPT ![c] = who[c]] ELSE cookie
    /\ End(c)
    /\ UNCHANGED <<users, policy, file, session, failed, logins, changes>>

(* A deleted record lives on for a login that holds it. *)
Detach(u) ==
    held' = [c \in Client |-> IF who[c] = u /\ held[c] = Live THEN users[u] ELSE held[c]]

(* register_or_update: a user without a record gets one as the policy has it. *)
Registered(u) ==
    IF users[u] # None THEN users[u]
    ELSE [enabled |-> policy, admin |-> "unset", local |-> FALSE]

-----------------------------------------------------------------------------
(* Signing in with a password.                                             *)

(* The lockout drops what has left the window and writes the list back, in *)
(* two steps, as a failure does.                                           *)
LocalLogin(c, u) ==
    /\ Free(c) /\ logins < MaxLogins
    /\ logins' = logins + 1
    /\ who' = [who EXCEPT ![c] = u]
    /\ snap' = [snap EXCEPT ![c] = failed[u]]
    /\ Go(c, "lockout")
    /\ UNCHANGED <<store, session, cookie, held, rights, failed, changes, faults>>

OneMoreTry(c) ==
    /\ pc[c] = "lockout"
    /\ failed' = [failed EXCEPT ![who[c]] = snap[c]]
    /\ IF snap[c] > LoginMax
         THEN End(c)
         ELSE Go(c, "read") /\ UNCHANGED <<who, held, rights, snap>>
    /\ UNCHANGED <<store, session, cookie, counts>>

IsLockedOut(c) ==
    /\ pc[c] = "lockout"
    /\ failed' = [failed EXCEPT ![who[c]] = snap[c]]
    /\ IF snap[c] >= LoginMax
         THEN End(c)
         ELSE Go(c, "read") /\ UNCHANGED <<who, held, rights, snap>>
    /\ UNCHANGED <<store, session, cookie, counts>>

MayTry(r) == r # None /\ r.local /\ r.enabled

(* authenticate_local up to the check of the password, which takes long. *)
ReadRecord(c) ==
    /\ pc[c] = "read" /\ Unlocked
    /\ IF MayTry(users[who[c]])
         THEN held' = [held EXCEPT ![c] = Live] /\ Go(c, "password")
         ELSE Go(c, "env") /\ UNCHANGED held
    /\ UNCHANGED <<store, session, cookie, who, rights, snap, failed, counts>>

HeldRecord(c) == IF held[c] = Live THEN users[who[c]] ELSE held[c]

(* The password is right: the record is copied as it is now. *)
PasswordRight(c) ==
    /\ pc[c] = "password"
    /\ rights' = [rights EXCEPT ![c].admin = (HeldRecord(c).admin = "yes")]
    /\ Go(c, "record")
    /\ UNCHANGED <<store, session, cookie, who, held, snap, failed, counts>>

PasswordWrong(c) ==
    /\ pc[c] = "password"
    /\ held' = [held EXCEPT ![c] = None]
    /\ Go(c, "env")
    /\ UNCHANGED <<store, session, cookie, who, rights, snap, failed, counts>>

(* ADMIN_USERNAME with ADMIN_PASSWORD. *)
EnvRight(c) ==
    /\ pc[c] = "env" /\ who[c] = Super
    /\ rights' = [rights EXCEPT ![c] = [admin |-> TRUE, super |-> TRUE]]
    /\ Go(c, "record")
    /\ UNCHANGED <<store, session, cookie, who, held, snap, failed, counts>>

(* _record_failure, in two steps. *)
EnvWrongTwice(c) ==
    /\ pc[c] = "env"
    /\ snap' = [snap EXCEPT ![c] = failed[who[c]] + 2]
    /\ Go(c, "count")
    /\ UNCHANGED <<store, session, cookie, who, held, rights, failed, counts>>

EnvWrong(c) ==
    /\ pc[c] = "env"
    /\ snap' = [snap EXCEPT ![c] = failed[who[c]] + 1]
    /\ Go(c, "count")
    /\ UNCHANGED <<store, session, cookie, who, held, rights, failed, counts>>

RecordFailure(c) ==
    /\ pc[c] = "count"
    /\ failed' = [failed EXCEPT ![who[c]] = snap[c]]
    /\ End(c)
    /\ UNCHANGED <<store, session, cookie, counts>>

-----------------------------------------------------------------------------
(* Signing in with OIDC: the provider has sent the user back.              *)

OidcLogin(c, u) ==
    /\ Free(c) /\ logins < MaxLogins
    /\ logins' = logins + 1
    /\ who' = [who EXCEPT ![c] = u]
    /\ Go(c, "oidc")
    /\ UNCHANGED <<store, session, cookie, held, rights, snap, failed, changes, faults>>

RegisterUnchecked(c) ==
    /\ pc[c] = "oidc"
    /\ Change(c, [users EXCEPT ![who[c]] = Registered(who[c])], policy)
    /\ Go(c, "rights")
    /\ UNCHANGED <<who, held, rights, snap, session, cookie, failed, counts>>

(* register_or_update; the copy it returns says whether the user may enter. *)
RegisterOidc(c) ==
    /\ pc[c] = "oidc"
    /\ Change(c, [users EXCEPT ![who[c]] = Registered(who[c])], policy)
    /\ IF Registered(who[c]).enabled
         THEN Go(c, "rights") /\ UNCHANGED <<who, held, rights, snap>>
         ELSE End(c)
    /\ UNCHANGED <<session, cookie, failed, counts>>

(* _is_admin: the record's flag if it has one, else the lists. *)
IsAdmin(u) ==
    IF users[u] # None /\ users[u].admin # "unset" THEN users[u].admin = "yes"
    ELSE u \in Listed

DecideRights(c) ==
    /\ pc[c] = "rights" /\ Unlocked
    /\ rights' = [rights EXCEPT ![c].admin = IsAdmin(who[c])]
    /\ Go(c, "record")
    /\ UNCHANGED <<store, session, cookie, who, held, snap, failed, counts>>

-----------------------------------------------------------------------------
(* The end of every login, and what a session is for.                      *)

RefreshSession(c) ==
    /\ pc[c] = "record"
    /\ session' = [session EXCEPT ![who[c]] =
                     IF @ = None THEN [rights |-> rights[c], old |-> FALSE]
                     ELSE [@ EXCEPT !.old = FALSE]]
    /\ Go(c, IF held[c] # None THEN "register" ELSE "respond")
    /\ UNCHANGED <<store, cookie, who, held, rights, snap, failed, counts>>

(* _record_session replaces whatever session the user had.  A local user   *)
(* is then registered again; the others are done.                          *)
RecordSession(c) ==
    /\ pc[c] = "record"
    /\ session' = [session EXCEPT ![who[c]] = [rights |-> rights[c], old |-> FALSE]]
    /\ Go(c, IF held[c] # None THEN "register" ELSE "respond")
    /\ UNCHANGED <<store, cookie, who, held, rights, snap, failed, counts>>

(* A local user deleted since the password was read comes back without it. *)
RegisterLocal(c) ==
    /\ pc[c] = "register"
    /\ Change(c, [users EXCEPT ![who[c]] = Registered(who[c])], policy)
    /\ Go(c, "respond")
    /\ UNCHANGED <<session, cookie, who, held, rights, snap, failed, counts>>

Respond(c) ==
    /\ pc[c] = "respond" /\ saving # c
    /\ cookie' = [cookie EXCEPT ![c] = who[c]]
    /\ End(c)
    /\ UNCHANGED <<store, session, failed, counts>>

(* What load_user finds for a cookie. *)
SignedIn(c) ==
    /\ cookie[c] # None
    /\ session[cookie[c]] # None
    /\ ~session[cookie[c]].old

(* load_user takes an expired session out. *)
LoadUser(c) ==
    /\ cookie[c] # None /\ session[cookie[c]] # None /\ session[cookie[c]].old
    /\ session' = [session EXCEPT ![cookie[c]] = None]
    /\ UNCHANGED <<store, cookie, login, failed, counts>>

(* logout takes the cookie from the browser; the session stays. *)
Logout(c) ==
    /\ Free(c) /\ SignedIn(c)
    /\ cookie' = [cookie EXCEPT ![c] = None]
    /\ UNCHANGED <<store, session, login, failed, counts>>

-----------------------------------------------------------------------------
(* What an administrator does, by the rights of the session.               *)

Admin(c) ==
    /\ Free(c) /\ SignedIn(c) /\ session[cookie[c]].rights.admin
    /\ changes < MaxChanges /\ changes' = changes + 1
    /\ UNCHANGED <<cookie, pc, who, rights, snap, failed, logins, faults>>

AdminSets(c, u, r) ==
    /\ Admin(c)
    /\ users[u] # None
    /\ Change(c, [users EXCEPT ![u] = r], policy)
    /\ UNCHANGED <<session, held>>

UserEnable(c, u) == AdminSets(c, u, [users[u] EXCEPT !.enabled = TRUE])
UserDisable(c, u) == AdminSets(c, u, [users[u] EXCEPT !.enabled = FALSE])
UserSetAdmin(c, u, a) == AdminSets(c, u, [users[u] EXCEPT !.admin = a])

UserCreate(c, u, a) ==
    /\ Admin(c)
    /\ users[u] = None
    /\ Change(c, [users EXCEPT ![u] = [enabled |-> TRUE, admin |-> a, local |-> TRUE]],
              policy)
    /\ UNCHANGED <<session, held>>

UserDelete(c, u) ==
    /\ Admin(c)
    /\ u # cookie[c] /\ users[u] # None
    /\ Change(c, [users EXCEPT ![u] = None], policy)
    /\ Detach(u)
    /\ UNCHANGED session

UsersSettings(c) ==
    /\ Admin(c)
    /\ Change(c, users, ~policy)
    /\ UNCHANGED <<session, held>>

SessionRevoke(c, u) ==
    /\ Admin(c)
    /\ session' = [session EXCEPT ![u] = None]
    /\ UNCHANGED <<store, held>>

SessionsRevoke(c) ==
    /\ Admin(c)
    /\ session' = [u \in User |-> None]
    /\ UNCHANGED <<store, held>>

-----------------------------------------------------------------------------
(* Time, and the end of the process.                                       *)

SessionAges(u) ==
    /\ session[u] # None /\ ~session[u].old
    /\ session' = [session EXCEPT ![u].old = TRUE]
    /\ UNCHANGED <<store, cookie, login, failed, counts>>

WindowPasses(u) ==
    /\ failed[u] > 0
    /\ failed' = [failed EXCEPT ![u] = 0]
    /\ snap' = [c \in Client |-> IF who[c] = u THEN 0 ELSE snap[c]]
    /\ UNCHANGED <<store, session, cookie, pc, who, held, rights, counts>>

(* UserStore._load; a file cut short holds the records of some users.      *)
Loaded ==
    IF file # None THEN {file}
    ELSE {[users |-> [u \in User |-> IF u \in kept THEN users[u] ELSE None],
           policy |-> p] : kept \in SUBSET User, p \in {TRUE, policy}}

Restart ==
    /\ faults < MaxFaults /\ faults' = faults + 1
    /\ \E f \in Loaded :
         users' = f.users /\ policy' = f.policy /\ file' = f
    /\ saving' = None
    /\ session' = [u \in User |-> None]
    /\ pc' = [c \in Client |-> "idle"] /\ who' = [c \in Client |-> None]
    /\ held' = [c \in Client |-> None] /\ rights' = [c \in Client |-> NoRights]
    /\ snap' = [c \in Client |-> 0]
    /\ failed' = [u \in Local \cup {Super} |-> 0]
    /\ UNCHANGED <<cookie, logins, changes>>

Login(c) ==
    \/ \E u \in Local \cup {Super} : LocalLogin(c, u)
    \/ IsLockedOut(c) \/ ReadRecord(c) \/ PasswordRight(c) \/ PasswordWrong(c)
    \/ EnvRight(c) \/ EnvWrong(c) \/ RecordFailure(c)
    \/ \E u \in Oidc : OidcLogin(c, u)
    \/ RegisterOidc(c) \/ DecideRights(c)
    \/ RecordSession(c) \/ RegisterLocal(c) \/ Respond(c)

Administer(c) ==
    \/ \E u \in User : UserEnable(c, u) \/ UserDisable(c, u) \/ UserDelete(c, u)
    \/ \E u \in User, a \in {"yes", "no"} : UserSetAdmin(c, u, a)
    \/ \E u \in Local, a \in {"yes", "no"} : UserCreate(c, u, a)
    \/ UsersSettings(c)
    \/ \E u \in User : SessionRevoke(c, u)
    \/ SessionsRevoke(c)

Next ==
    \/ \E c \in Client : Login(c) \/ Administer(c) \/ Saved(c) \/ SaveFails(c)
                         \/ LoadUser(c) \/ Logout(c)
    \/ \E u \in User : SessionAges(u)
    \/ \E u \in Local \cup {Super} : WindowPasses(u)
    \/ Restart

Spec == Init /\ [][Next]_vars

-----------------------------------------------------------------------------
(* Properties.                                                             *)

(* What the store would tell a login of u that began now. *)
Barred(u) ==
    /\ u # Super
    /\ IF u \in Oidc THEN users[u] # None /\ ~users[u].enabled ELSE ~MayTry(users[u])

(* No login of u has passed the check that would refuse it now. *)
NoneUnderWay(u) ==
    \A c \in Client : who[c] = u =>
        pc[c] \in {"lockout", "read", "env", "count", "oidc"}

ShutOut(u) == Barred(u) /\ session[u] = None /\ NoneUnderWay(u)

(* Once a user is disabled, or a local user deleted, the session revoked   *)
(* and no login of the user is past its check, no interleaving of other    *)
(* logins, failing saves and restarts lets the user in again before an     *)
(* administrator does: user_disable, user_delete, session_revoke.  (A      *)
(* file cut short may forget that the user was disabled.)                  *)
OutStaysOut ==
    [][\A u \in User : ShutOut(u) /\ Barred(u)' => ShutOut(u)']_vars

(* The lockout, without a lock, is exact while the requests for an account *)
(* come one at a time, and lets one failure more through when two of them  *)
(* overlap, whichever way they write the list over each other:             *)
(* _is_locked_out, _record_failure.  It says nothing of three: the check   *)
(* writes back what it read, and with it can take off what two others      *)
(* counted, again and again.                                               *)
LockoutHolds ==
    Cardinality(Client) <= 2 =>
        \A u \in Local \cup {Super} : failed[u] < LoginMax + Cardinality(Client)

(* Unless a save is under way or has failed, users.yml is what the store   *)
(* holds, so that a restart forgets no administrator's change: UserStore.  *)
FileFollows ==
    file # None => file = [users |-> users, policy |-> policy]

=============================================================================
