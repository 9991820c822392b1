--------------------------- MODULE AccountsProofs ---------------------------
(***************************************************************************)
(* Theorems about Accounts, for any browsers, users, lengths of the        *)
(* lockout and values of the bounds.                                       *)
(***************************************************************************)
EXTENDS MCAccounts, FiniteSetTheorems, TLAPS

-----------------------------------------------------------------------------
(* The invariant.                                                          *)

Failing == Local \cup {Super}
N == Cardinality(Client)

(* TypeOK but for the bound on the failures, which CountInv gives.         *)
TypesOK ==
    /\ users \in [User -> Record \cup {None}]
    /\ policy \in BOOLEAN
    /\ file \in [users : [User -> Record \cup {None}], policy : BOOLEAN] \cup {None}
    /\ saving \in Client \cup {None}
    /\ session \in [User -> [rights : Rights, old : BOOLEAN] \cup {None}]
    /\ cookie \in [Client -> User \cup {None}]
    /\ pc \in [Client -> {"idle", "lockout", "read", "password", "env",
                          "count", "oidc", "rights", "record", "register", "respond"}]
    /\ who \in [Client -> User \cup {None}]
    /\ held \in [Client -> Record \cup {None, Live}]
    /\ rights \in [Client -> Rights]
    /\ failed \in [Failing -> Nat]
    /\ snap \in [Client -> Nat]
    /\ logins \in 0..MaxLogins /\ changes \in 0..MaxChanges
    /\ faults \in 0..MaxFaults

(* Whom a login is for, and the record it holds: one that is still in the  *)
(* store as long as it is Live.                                            *)
WhoInv ==
    \A c \in Client :
      /\ pc[c] = "idle" <=> who[c] = None
      /\ pc[c] \in {"lockout", "read", "password", "env", "count", "register"} => who[c] \in Failing
      /\ pc[c] \in {"oidc", "rights"} => who[c] \in Oidc
      /\ held[c] # None => pc[c] \in {"password", "record", "register", "respond"}
      /\ held[c] # None => who[c] \in Failing
      /\ pc[c] \in {"password", "register"} => held[c] # None
      /\ held[c] = Live => users[who[c]] # None
      /\ pc[c] \notin {"record", "register", "respond"} => rights[c] = NoRights

(* Each failure counted, or about to be, is one of another login.          *)
Trying(u) == {c \in Client : who[c] = u /\ pc[c] \in {"lockout", "read", "password", "env"}}
CountInv ==
    /\ \A u \in Failing : failed[u] + Cardinality(Trying(u)) <= logins
    /\ \A u \in Failing, c \in Client :
         who[c] = u => snap[c] + Cardinality(Trying(u)) <= logins
    /\ \A c \in Client : who[c] \notin Failing => snap[c] = 0

(* With two browsers at most: the failures of a user that are counted,     *)
(* about to be counted (Counts) or about to be written back (Checks),      *)
(* against the logins that may fail yet (Tries).                           *)
Tries(c, u) ==
    /\ who[c] = u
    /\ pc[c] \in {"read", "password", "env"} \/ (pc[c] = "lockout" /\ snap[c] < LoginMax)
Counts(c, u) == who[c] = u /\ pc[c] = "count"
Checks(c, u) == who[c] = u /\ pc[c] = "lockout" /\ snap[c] >= LoginMax
Holds(c, u) == Counts(c, u) \/ Checks(c, u)

LockInv ==
    \A u \in Failing :
      /\ failed[u] < LoginMax + N
      /\ \A c \in Client :
           /\ Tries(c, u) => failed[u] + 1 < LoginMax + N
           /\ Holds(c, u) => snap[c] < LoginMax + N
           /\ Holds(c, u) /\ snap[c] > LoginMax => failed[u] >= LoginMax
           /\ Counts(c, u) => failed[u] <= LoginMax
      /\ \A c, d \in Client : c # d =>
           /\ Tries(c, u) /\ Tries(d, u) => failed[u] < LoginMax
           /\ Tries(c, u) /\ Counts(d, u) => failed[u] < LoginMax
           /\ Holds(c, u) /\ (Tries(d, u) \/ Counts(d, u)) => snap[c] <= LoginMax

(* What MCAccounts records the store has granted a login so far.           *)
RightsInv ==
    \A c \in Client :
      /\ pc[c] # "idle" => GrantedNow[c] \subseteq seen[c]
      /\ pc[c] \in {"password", "rights"} => "enter" \in seen[c]
      /\ pc[c] = "password" /\ held[c] # Live /\ held[c].admin = "yes" => "admin" \in seen[c]
      /\ pc[c] = "record" =>
           \/ rights[c].super /\ who[c] = Super
           \/ /\ ~rights[c].super /\ "enter" \in seen[c]
              /\ rights[c].admin => "admin" \in seen[c]

USE AccountsAssumption DEF AccountsAssumption, Failing, N

-----------------------------------------------------------------------------
(* Types, users of the logins and users.yml.                               *)

Base == TypesOK /\ WhoInv /\ FileFollows

LEMMA RecordFields ==
  /\ \A r \in Record, b \in BOOLEAN : [r EXCEPT !.enabled = b] \in Record
  /\ \A r \in Record, a \in {"yes", "no"} : [r EXCEPT !.admin = a] \in Record
  /\ \A r \in Rights, b \in BOOLEAN : [r EXCEPT !.admin = b] \in Rights
  /\ NoRights \in Rights
BY DEF Record, Rights, NoRights

LEMMA SessionFields ==
  \A s \in [rights : Rights, old : BOOLEAN] :
    [s EXCEPT !.old = TRUE] \in [rights : Rights, old : BOOLEAN]
OBVIOUS

LEMMA RegisteredType ==
  ASSUME TypesOK, NEW u \in User
  PROVE  Registered(u) \in Record
<1>. [enabled |-> policy, admin |-> "unset", local |-> FALSE] \in Record
  BY DEF TypesOK, Record
<1>. QED  BY DEF Registered, TypesOK

LEMMA AdminSet ==
  ASSUME TypesOK, NEW c \in Client, NEW b \in BOOLEAN,
         rights' = [rights EXCEPT ![c].admin = b]
  PROVE  rights' \in [Client -> Rights]
<1>. DEFINE r == [rights[c] EXCEPT !.admin = b]
<1>1. r \in Rights
  BY RecordFields DEF TypesOK
<1>2. rights' = [rights EXCEPT ![c] = r]
  OBVIOUS
<1>. HIDE DEF r
<1>. QED  BY <1>1, <1>2 DEF TypesOK

LEMMA LoginBase ==
  ASSUME Base, NEW c \in Client, Login(c)
  PROVE  Base'
<1>. USE DEF Base, User, store, login, counts
<1>1. CASE \E u \in Failing : LocalLogin(c, u)
  <2>1. TypesOK'
    BY <1>1, RecordFields DEF LocalLogin, Free, Go, TypesOK, WhoInv,
       Record, Rights
  <2>2. WhoInv'
    BY <1>1 DEF LocalLogin, Free, Go, TypesOK, WhoInv
  <2>3. FileFollows'
    BY <1>1 DEF LocalLogin, FileFollows
  <2>. QED  BY <2>1, <2>2, <2>3
<1>2. CASE IsLockedOut(c)
  <2>1. TypesOK'
    <3>1. failed' \in [Failing -> Nat]
      BY <1>2 DEF IsLockedOut, TypesOK, WhoInv
    <3>2. CASE snap[c] >= LoginMax
      BY SMTT(30), <1>2, <3>1, <3>2, RecordFields DEF IsLockedOut, End, Go, TypesOK
    <3>3. CASE ~(snap[c] >= LoginMax)
      BY <1>2, <3>1, <3>3 DEF IsLockedOut, Go, TypesOK
    <3>. QED  BY <3>2, <3>3
  <2>2. WhoInv'
    BY <1>2 DEF IsLockedOut, End, Go, TypesOK, WhoInv
  <2>3. FileFollows'
    BY <1>2 DEF IsLockedOut, FileFollows
  <2>. QED  BY <2>1, <2>2, <2>3
<1>3. CASE ReadRecord(c)
  <2>1. TypesOK'
    <3>1. CASE MayTry(users[who[c]])
      BY <1>3, <3>1 DEF ReadRecord, Go, TypesOK
    <3>2. CASE ~MayTry(users[who[c]])
      BY <1>3, <3>2 DEF ReadRecord, Go, TypesOK
    <3>. QED  BY <3>1, <3>2
  <2>2. WhoInv'
    BY <1>3 DEF ReadRecord, MayTry, Go, TypesOK, WhoInv
  <2>3. FileFollows'
    BY <1>3 DEF ReadRecord, FileFollows
  <2>. QED  BY <2>1, <2>2, <2>3
<1>4. CASE PasswordRight(c)
  <2>1. TypesOK'
    <3>1. (HeldRecord(c).admin = "yes") \in BOOLEAN
      OBVIOUS
    <3>2. rights' \in [Client -> Rights]
      BY <1>4, <3>1, AdminSet DEF PasswordRight
    <3>. QED  BY <1>4, <3>2 DEF PasswordRight, Go, TypesOK
  <2>2. WhoInv'
    BY <1>4 DEF PasswordRight, HeldRecord, Go, TypesOK, WhoInv
  <2>3. FileFollows'
    BY <1>4 DEF PasswordRight, FileFollows
  <2>. QED  BY <2>1, <2>2, <2>3
<1>5. CASE PasswordWrong(c)
  <2>1. TypesOK'
    BY <1>5, RecordFields DEF PasswordWrong, Go, TypesOK, WhoInv,
       Record, Rights
  <2>2. WhoInv'
    BY <1>5 DEF PasswordWrong, Go, TypesOK, WhoInv
  <2>3. FileFollows'
    BY <1>5 DEF PasswordWrong, FileFollows
  <2>. QED  BY <2>1, <2>2, <2>3
<1>6. CASE EnvRight(c)
  <2>1. TypesOK'
    BY <1>6, RecordFields DEF EnvRight, Go, TypesOK, WhoInv, Record,
       Rights
  <2>2. WhoInv'
    BY <1>6 DEF EnvRight, Go, TypesOK, WhoInv
  <2>3. FileFollows'
    BY <1>6 DEF EnvRight, FileFollows
  <2>. QED  BY <2>1, <2>2, <2>3
<1>7. CASE EnvWrong(c)
  <2>1. TypesOK'
    BY <1>7, RecordFields DEF EnvWrong, Go, TypesOK, WhoInv, Record,
       Rights
  <2>2. WhoInv'
    BY <1>7 DEF EnvWrong, Go, TypesOK, WhoInv
  <2>3. FileFollows'
    BY <1>7 DEF EnvWrong, FileFollows
  <2>. QED  BY <2>1, <2>2, <2>3
<1>8. CASE RecordFailure(c)
  <2>1. TypesOK'
    BY <1>8, RecordFields DEF RecordFailure, End, Go, TypesOK, WhoInv,
       Record, Rights
  <2>2. WhoInv'
    BY <1>8 DEF RecordFailure, End, Go, TypesOK, WhoInv
  <2>3. FileFollows'
    BY <1>8 DEF RecordFailure, FileFollows
  <2>. QED  BY <2>1, <2>2, <2>3
<1>9. CASE \E u \in Oidc : OidcLogin(c, u)
  <2>1. TypesOK'
    BY <1>9, RecordFields DEF OidcLogin, Free, Go, TypesOK, WhoInv,
       Record, Rights
  <2>2. WhoInv'
    BY <1>9 DEF OidcLogin, Free, Go, TypesOK, WhoInv
  <2>3. FileFollows'
    BY <1>9 DEF OidcLogin, FileFollows
  <2>. QED  BY <2>1, <2>2, <2>3
<1>10. CASE RegisterOidc(c)
  <2>1. TypesOK'
    <3>1. who[c] \in User /\ Registered(who[c]) \in Record
      BY <1>10, RegisteredType DEF RegisterOidc, WhoInv
    <3>2. users' \in [User -> Record \cup {None}]
      BY <1>10, <3>1 DEF RegisterOidc, Change, TypesOK
    <3>3. CASE Registered(who[c]).enabled
      BY <1>10, <3>2, <3>3 DEF RegisterOidc, Change, Go, TypesOK
    <3>4. CASE ~Registered(who[c]).enabled
      BY <1>10, <3>2, <3>4, RecordFields DEF RegisterOidc, Change, Go, End, TypesOK
    <3>. QED  BY <3>3, <3>4
  <2>2. WhoInv'
    BY <1>10 DEF RegisterOidc, Change, Registered, End, Go, TypesOK,
       WhoInv
  <2>3. FileFollows'
    BY <1>10 DEF RegisterOidc, Change, FileFollows
  <2>. QED  BY <2>1, <2>2, <2>3
<1>11. CASE DecideRights(c)
  <2>1. TypesOK'
    <3>1. IsAdmin(who[c]) \in BOOLEAN
      <4>1. /\ (users[who[c]].admin = "yes") \in BOOLEAN
            /\ (who[c] \in Listed) \in BOOLEAN
        OBVIOUS
      <4>. QED  BY <4>1, Zenon DEF IsAdmin
    <3>2. rights' \in [Client -> Rights]
      BY <1>11, <3>1, AdminSet DEF DecideRights
    <3>. QED  BY <1>11, <3>2 DEF DecideRights, Go, TypesOK
  <2>2. WhoInv'
    BY <1>11 DEF DecideRights, IsAdmin, Go, TypesOK, WhoInv
  <2>3. FileFollows'
    BY <1>11 DEF DecideRights, FileFollows
  <2>. QED  BY <2>1, <2>2, <2>3
<1>12. CASE RecordSession(c)
  <2>1. TypesOK'
    BY <1>12, RecordFields DEF RecordSession, Go, TypesOK, WhoInv,
       Record, Rights
  <2>2. WhoInv'
    BY <1>12 DEF RecordSession, Go, TypesOK, WhoInv
  <2>3. FileFollows'
    BY <1>12 DEF RecordSession, FileFollows
  <2>. QED  BY <2>1, <2>2, <2>3
<1>13. CASE RegisterLocal(c)
  <2>1. TypesOK'
    <3>1. who[c] \in User /\ Registered(who[c]) \in Record
      BY <1>13, RegisteredType DEF RegisterLocal, WhoInv
    <3>. QED  BY <1>13, <3>1 DEF RegisterLocal, Change, Go, TypesOK
  <2>2. WhoInv'
    BY <1>13 DEF RegisterLocal, Change, Registered, Go, TypesOK, WhoInv
  <2>3. FileFollows'
    BY <1>13 DEF RegisterLocal, Change, FileFollows
  <2>. QED  BY <2>1, <2>2, <2>3
<1>14. CASE Respond(c)
  <2>1. TypesOK'
    BY <1>14, RecordFields DEF Respond, End, Go, TypesOK, WhoInv,
       Record, Rights
  <2>2. WhoInv'
    BY <1>14 DEF Respond, End, Go, TypesOK, WhoInv
  <2>3. FileFollows'
    BY <1>14 DEF Respond, FileFollows
  <2>. QED  BY <2>1, <2>2, <2>3
<1>. QED
  BY <1>1, <1>2, <1>3, <1>4, <1>5, <1>6, <1>7, <1>8, <1>9, <1>10, <1>11,
     <1>12, <1>13, <1>14 DEF Login

LEMMA AdminSetsBase ==
  ASSUME Base, NEW c \in Client, NEW u \in User, NEW r \in Record, AdminSets(c, u, r)
  PROVE  Base'
<1>. USE DEF Base, User, store, login, counts, AdminSets, Change, Admin
<1>1. TypesOK'
  BY DEF TypesOK
<1>2. WhoInv'
  BY DEF TypesOK, WhoInv
<1>3. FileFollows'
  BY DEF FileFollows
<1>. QED  BY <1>1, <1>2, <1>3

LEMMA AdministerBase ==
  ASSUME Base, NEW c \in Client, Administer(c)
  PROVE  Base'
<1>. USE DEF Base, User, store, login, counts
<1>1. CASE \E u \in User : UserEnable(c, u)
  <2>1. PICK u \in User : UserEnable(c, u)
    BY <1>1
  <2>2. AdminSets(c, u, [users[u] EXCEPT !.enabled = TRUE])
    BY <2>1 DEF UserEnable
  <2>3. [users[u] EXCEPT !.enabled = TRUE] \in Record
    BY <2>2, RecordFields DEF AdminSets, TypesOK
  <2>. QED  BY <2>2, <2>3, AdminSetsBase
<1>2. CASE \E u \in User : UserDisable(c, u)
  <2>1. PICK u \in User : UserDisable(c, u)
    BY <1>2
  <2>2. AdminSets(c, u, [users[u] EXCEPT !.enabled = FALSE])
    BY <2>1 DEF UserDisable
  <2>3. [users[u] EXCEPT !.enabled = FALSE] \in Record
    BY <2>2, RecordFields DEF AdminSets, TypesOK
  <2>. QED  BY <2>2, <2>3, AdminSetsBase
<1>3. CASE \E u \in User, a \in {"yes", "no"} : UserSetAdmin(c, u, a)
  <2>1. PICK u \in User, a \in {"yes", "no"} : UserSetAdmin(c, u, a)
    BY <1>3
  <2>2. AdminSets(c, u, [users[u] EXCEPT !.admin = a])
    BY <2>1 DEF UserSetAdmin
  <2>3. [users[u] EXCEPT !.admin = a] \in Record
    BY <2>2, RecordFields DEF AdminSets, TypesOK
  <2>. QED  BY <2>2, <2>3, AdminSetsBase
<1>4. CASE \E u \in Local, a \in {"yes", "no"} : UserCreate(c, u, a)
  <2>1. TypesOK'
    BY <1>4, RecordFields DEF UserCreate, Change, Admin, TypesOK, Record
  <2>2. WhoInv'
    BY <1>4 DEF UserCreate, Change, Admin, TypesOK, WhoInv
  <2>3. FileFollows'
    BY <1>4 DEF UserCreate, Change, Admin, FileFollows
  <2>. QED  BY <2>1, <2>2, <2>3
<1>5. CASE \E u \in User : UserDelete(c, u)
  <2>1. TypesOK'
    BY <1>5, RecordFields DEF UserDelete, Change, Detach, Admin,
       TypesOK, Record
  <2>2. WhoInv'
    BY <1>5 DEF UserDelete, Change, Detach, Admin, TypesOK, WhoInv
  <2>3. FileFollows'
    BY <1>5 DEF UserDelete, Change, Detach, Admin, FileFollows
  <2>. QED  BY <2>1, <2>2, <2>3
<1>6. CASE UsersSettings(c)
  <2>1. TypesOK'
    BY <1>6, RecordFields DEF UsersSettings, Change, Admin, TypesOK,
       Record
  <2>2. WhoInv'
    BY <1>6 DEF UsersSettings, Change, Admin, TypesOK, WhoInv
  <2>3. FileFollows'
    BY <1>6 DEF UsersSettings, Change, Admin, FileFollows
  <2>. QED  BY <2>1, <2>2, <2>3
<1>7. CASE \E u \in User : SessionRevoke(c, u)
  <2>1. TypesOK'
    BY <1>7, RecordFields DEF SessionRevoke, Admin, TypesOK, Record
  <2>2. WhoInv'
    BY <1>7 DEF SessionRevoke, Admin, TypesOK, WhoInv
  <2>3. FileFollows'
    BY <1>7 DEF SessionRevoke, Admin, FileFollows
  <2>. QED  BY <2>1, <2>2, <2>3
<1>8. CASE SessionsRevoke(c)
  <2>1. TypesOK'
    BY <1>8, RecordFields DEF SessionsRevoke, Admin, TypesOK, Record
  <2>2. WhoInv'
    BY <1>8 DEF SessionsRevoke, Admin, TypesOK, WhoInv
  <2>3. FileFollows'
    BY <1>8 DEF SessionsRevoke, Admin, FileFollows
  <2>. QED  BY <2>1, <2>2, <2>3
<1>. QED
  BY <1>1, <1>2, <1>3, <1>4, <1>5, <1>6, <1>7, <1>8 DEF Administer

LEMMA NextBase ==
  ASSUME Base, [Next]_vars
  PROVE  Base'
<1>. USE DEF Base, User, store, login, counts
<1>1. CASE \E c \in Client : Saved(c)
  <2>1. TypesOK'
    BY <1>1, RecordFields DEF Saved, TypesOK
  <2>2. WhoInv'
    BY <1>1 DEF Saved, TypesOK, WhoInv
  <2>3. FileFollows'
    BY <1>1 DEF Saved, FileFollows, TypesOK
  <2>. QED  BY <2>1, <2>2, <2>3
<1>2. CASE \E c \in Client : SaveFails(c)
  <2>1. TypesOK'
    BY <1>2, RecordFields DEF SaveFails, End, Go, TypesOK
  <2>2. WhoInv'
    BY <1>2 DEF SaveFails, End, Go, TypesOK, WhoInv
  <2>3. FileFollows'
    BY <1>2 DEF SaveFails, End, Go, FileFollows, TypesOK
  <2>. QED  BY <2>1, <2>2, <2>3
<1>3. CASE \E c \in Client : LoadUser(c)
  <2>1. TypesOK'
    BY <1>3, RecordFields DEF LoadUser, TypesOK
  <2>2. WhoInv'
    BY <1>3 DEF LoadUser, TypesOK, WhoInv
  <2>3. FileFollows'
    BY <1>3 DEF LoadUser, FileFollows, TypesOK
  <2>. QED  BY <2>1, <2>2, <2>3
<1>4. CASE \E c \in Client : Logout(c)
  <2>1. TypesOK'
    BY <1>4, RecordFields DEF Logout, TypesOK
  <2>2. WhoInv'
    BY <1>4 DEF Logout, TypesOK, WhoInv
  <2>3. FileFollows'
    BY <1>4 DEF Logout, FileFollows, TypesOK
  <2>. QED  BY <2>1, <2>2, <2>3
<1>5. CASE \E u \in User : SessionAges(u)
  <2>1. TypesOK'
    <3>1. PICK u \in User : SessionAges(u)
      BY <1>5
    <3>2. [session[u] EXCEPT !.old = TRUE] \in [rights : Rights, old : BOOLEAN]
      BY <3>1, SessionFields DEF SessionAges, TypesOK
    <3>3. session' \in [User -> [rights : Rights, old : BOOLEAN] \cup {None}]
      BY <3>1, <3>2 DEF SessionAges, TypesOK
    <3>. QED  BY <3>1, <3>3 DEF SessionAges, TypesOK
  <2>2. WhoInv'
    BY <1>5 DEF SessionAges, TypesOK, WhoInv
  <2>3. FileFollows'
    BY <1>5 DEF SessionAges, FileFollows, TypesOK
  <2>. QED  BY <2>1, <2>2, <2>3
<1>6. CASE \E u \in Failing : WindowPasses(u)
  <2>1. TypesOK'
    BY <1>6, RecordFields DEF WindowPasses, TypesOK
  <2>2. WhoInv'
    BY <1>6 DEF WindowPasses, TypesOK, WhoInv
  <2>3. FileFollows'
    BY <1>6 DEF WindowPasses, FileFollows, TypesOK
  <2>. QED  BY <2>1, <2>2, <2>3
<1>7. CASE Restart
  <2>1. TypesOK'
    <3>1. PICK f \in Loaded : users' = f.users /\ policy' = f.policy /\ file' = f
      BY <1>7 DEF Restart
    <3>2. f \in [users : [User -> Record \cup {None}], policy : BOOLEAN]
      <4>1. CASE file # None
        BY <3>1, <4>1 DEF Loaded, TypesOK
      <4>2. CASE file = None
        <5>1. PICK kept \in SUBSET User, p \in {TRUE, policy} :
                f = [users |-> [u \in User |-> IF u \in kept THEN users[u] ELSE None],
                     policy |-> p]
          BY <3>1, <4>2 DEF Loaded
        <5>2. p \in BOOLEAN
          BY DEF TypesOK
        <5>. QED  BY <5>1, <5>2 DEF TypesOK
      <4>. QED  BY <4>1, <4>2
    <3>. QED  BY <1>7, <3>1, <3>2, RecordFields DEF Restart, TypesOK
  <2>2. WhoInv'
    BY <1>7 DEF Restart, Loaded, TypesOK, WhoInv
  <2>3. FileFollows'
    BY <1>7 DEF Restart, Loaded, FileFollows, TypesOK
  <2>. QED  BY <2>1, <2>2, <2>3
<1>8. CASE UNCHANGED vars
  <2>1. TypesOK'
    BY <1>8, RecordFields DEF vars, TypesOK
  <2>2. WhoInv'
    BY <1>8 DEF vars, TypesOK, WhoInv
  <2>3. FileFollows'
    BY <1>8 DEF vars, FileFollows, TypesOK
  <2>. QED  BY <2>1, <2>2, <2>3
<1>. QED
  BY <1>1, <1>2, <1>3, <1>4, <1>5, <1>6, <1>7, <1>8, LoginBase,
     AdministerBase DEF Next

-----------------------------------------------------------------------------
(* The count of the failures.                                              *)

LEMMA TryingType ==
  ASSUME NEW u
  PROVE  /\ IsFiniteSet(Trying(u)) /\ Cardinality(Trying(u)) \in Nat
         /\ IsFiniteSet(Trying(u)') /\ Cardinality(Trying(u)') \in Nat
<1>1. Trying(u) \in SUBSET Client /\ Trying(u)' \in SUBSET Client
  BY DEF Trying
<1>. QED  BY <1>1, FS_Subset, FS_CardinalityType

LEMMA OneLess ==
  ASSUME NEW S, IsFiniteSet(S), NEW c \in S
  PROVE  Cardinality(S \ {c}) = Cardinality(S) - 1
BY FS_RemoveElement

(* Every step but the start of a login and a failure takes logins off.     *)
LEMMA CountKept ==
  ASSUME Base, Base', CountInv, logins' \in {logins, logins + 1},
         \A u \in Failing : Trying(u)' \subseteq Trying(u),
         \A u \in Failing :
           \/ failed'[u] <= failed[u]
           \/ \E c \in Client : who[c] = u /\ failed'[u] <= snap[c],
         \A c \in Client :
           \/ who'[c] = who[c] /\ snap'[c] <= snap[c]
           \/ who'[c] \notin Failing /\ snap'[c] = 0
  PROVE  CountInv'
<1>0. logins \in Nat /\ failed \in [Failing -> Nat] /\ failed' \in [Failing -> Nat]
      /\ snap \in [Client -> Nat] /\ snap' \in [Client -> Nat]
  BY DEF Base, TypesOK
<1>1. \A u \in Failing :
        /\ Cardinality(Trying(u)') <= Cardinality(Trying(u))
        /\ Cardinality(Trying(u)) \in Nat /\ Cardinality(Trying(u)') \in Nat
  BY TryingType, FS_Subset
<1>2. \A u \in Failing : failed'[u] + Cardinality(Trying(u)') <= logins'
  BY <1>0, <1>1 DEF CountInv
<1>3. ASSUME NEW u \in Failing, NEW c \in Client, who'[c] = u
      PROVE  snap'[c] + Cardinality(Trying(u)') <= logins'
  <2>1. who[c] = u /\ snap'[c] <= snap[c]
    BY <1>3
  <2>2. snap[c] + Cardinality(Trying(u)) <= logins
    BY <2>1 DEF CountInv
  <2>3. snap[c] \in Nat /\ snap'[c] \in Nat
    BY <1>0
  <2>. QED  BY <1>0, <1>1, <2>1, <2>2, <2>3
<1>4. \A c \in Client : who'[c] \notin Failing => snap'[c] = 0
  BY <1>0 DEF CountInv
<1>. QED  BY <1>2, <1>3, <1>4 DEF CountInv

LEMMA LocalLoginCount ==
  ASSUME Base, Base', CountInv, NEW c \in Client, NEW u \in Failing, LocalLogin(c, u)
  PROVE  CountInv'
<1>0. /\ logins' = logins + 1 /\ logins \in Nat /\ failed' = failed
      /\ snap' = [snap EXCEPT ![c] = failed[u]] /\ who' = [who EXCEPT ![c] = u]
      /\ failed \in [Failing -> Nat] /\ snap \in [Client -> Nat]
  BY DEF LocalLogin, Base, TypesOK
<1>1. c \notin Trying(u) /\ Trying(u)' = Trying(u) \cup {c}
  BY DEF LocalLogin, Free, Go, Trying, Base, TypesOK, WhoInv
<1>2. \A v \in Failing \ {u} : Trying(v)' = Trying(v)
  BY DEF LocalLogin, Free, Go, Trying, Base, TypesOK, WhoInv
<1>3. Cardinality(Trying(u)') = Cardinality(Trying(u)) + 1
  BY <1>1, TryingType, FS_AddElement
<1>4. \A v \in Failing : failed'[v] + Cardinality(Trying(v)') <= logins'
  BY <1>0, <1>2, <1>3, TryingType DEF CountInv
<1>5. ASSUME NEW v \in Failing, NEW d \in Client, who'[d] = v
      PROVE  snap'[d] + Cardinality(Trying(v)') <= logins'
  <2>1. CASE d = c
    BY <1>0, <1>4, <1>5, <2>1 DEF Base, TypesOK
  <2>2. CASE d # c
    <3>1. snap'[d] = snap[d] /\ snap[d] \in Nat /\ who[d] = v
      BY <1>0, <1>5, <2>2 DEF Base, TypesOK
    <3>2. snap[d] + Cardinality(Trying(v)) <= logins
      BY <3>1 DEF CountInv
    <3>3. Cardinality(Trying(v)') <= Cardinality(Trying(v)) + 1
      BY <1>2, <1>3, TryingType
    <3>. QED  BY <1>0, <3>1, <3>2, <3>3, TryingType
  <2>. QED  BY <2>1, <2>2
<1>6. \A d \in Client : who'[d] \notin Failing => snap'[d] = 0
  BY <1>0 DEF CountInv, Base, TypesOK
<1>. QED  BY <1>4, <1>5, <1>6 DEF CountInv

LEMMA EnvWrongCount ==
  ASSUME Base, Base', CountInv, NEW c \in Client, EnvWrong(c)
  PROVE  CountInv'
<1>. PICK u : u = who[c]
  OBVIOUS
<1>0. /\ logins' = logins /\ logins \in Nat /\ failed' = failed /\ who' = who
      /\ u \in Failing /\ snap' = [snap EXCEPT ![c] = failed[u] + 1]
      /\ failed \in [Failing -> Nat] /\ snap \in [Client -> Nat]
  BY DEF EnvWrong, Base, TypesOK, WhoInv, login, counts
<1>1. c \in Trying(u) /\ Trying(u)' = Trying(u) \ {c}
  BY DEF EnvWrong, Go, Trying, Base, TypesOK
<1>2. \A v \in Failing \ {u} : Trying(v)' = Trying(v)
  BY <1>0 DEF EnvWrong, Go, Trying, Base, TypesOK
<1>3. Cardinality(Trying(u)') = Cardinality(Trying(u)) - 1
  <2>1. IsFiniteSet(Trying(u))
    BY TryingType
  <2>. QED  BY <1>1, <2>1, OneLess
<1>4. \A v \in Failing : failed'[v] + Cardinality(Trying(v)') <= logins'
  BY <1>0, <1>2, <1>3, TryingType DEF CountInv
<1>5. ASSUME NEW v \in Failing, NEW d \in Client, who'[d] = v
      PROVE  snap'[d] + Cardinality(Trying(v)') <= logins'
  <2>1. CASE d = c
    <3>1. failed[u] + Cardinality(Trying(u)) <= logins
      BY <1>0 DEF CountInv
    <3>2. v = u /\ snap'[d] = failed[u] + 1 /\ failed[u] \in Nat
      BY <1>0, <1>5, <2>1
    <3>. QED  BY <1>0, <1>3, <3>1, <3>2, TryingType
  <2>2. CASE d # c
    <3>1. snap'[d] = snap[d] /\ snap[d] \in Nat /\ who[d] = v
      BY <1>0, <1>5, <2>2
    <3>2. snap[d] + Cardinality(Trying(v)) <= logins
      BY <3>1 DEF CountInv
    <3>3. Cardinality(Trying(v)') <= Cardinality(Trying(v))
      <4>1. Cardinality(Trying(v)) \in Nat
        BY TryingType
      <4>2. CASE v = u
        BY <1>3, <4>1, <4>2
      <4>3. CASE v # u
        BY <1>2, <4>1, <4>3
      <4>. QED  BY <4>2, <4>3
    <3>. QED  BY <1>0, <3>1, <3>2, <3>3, TryingType
  <2>. QED  BY <2>1, <2>2
<1>6. \A d \in Client : who'[d] \notin Failing => snap'[d] = 0
  BY <1>0 DEF CountInv
<1>. QED  BY <1>4, <1>5, <1>6 DEF CountInv

LEMMA LoginCount ==
  ASSUME Base, Base', CountInv, NEW c \in Client, Login(c)
  PROVE  CountInv'
<1>. USE DEF Trying, Go, store, login, counts
<1>. TypesOK /\ WhoInv
  BY DEF Base
<1>1. CASE IsLockedOut(c)
  BY <1>1, CountKept DEF IsLockedOut, End, TypesOK, WhoInv
<1>2. CASE ReadRecord(c)
  BY <1>2, CountKept DEF ReadRecord, TypesOK
<1>3. CASE PasswordRight(c)
  BY <1>3, CountKept DEF PasswordRight, TypesOK
<1>4. CASE PasswordWrong(c)
  BY <1>4, CountKept DEF PasswordWrong, TypesOK
<1>5. CASE EnvRight(c)
  BY <1>5, CountKept DEF EnvRight, TypesOK
<1>6. CASE RecordFailure(c)
  BY <1>6, CountKept DEF RecordFailure, End, TypesOK, WhoInv
<1>7. CASE \E u \in Oidc : OidcLogin(c, u)
  <2>1. PICK u \in Oidc : OidcLogin(c, u)
    BY <1>7
  <2>2. \A v \in Failing : Trying(v)' \subseteq Trying(v)
    BY <2>1 DEF OidcLogin, TypesOK
  <2>3. \A d \in Client : who'[d] = who[d] \/ (who'[d] \notin Failing /\ snap[d] = 0)
    BY <2>1 DEF OidcLogin, Free, TypesOK, WhoInv, CountInv
  <2>4. logins' = logins + 1 /\ failed' = failed /\ snap' = snap
    BY <2>1 DEF OidcLogin
  <2>. QED  BY SMTT(30), <2>2, <2>3, <2>4, CountKept DEF TypesOK
<1>8. CASE RegisterOidc(c)
  BY <1>8, CountKept DEF RegisterOidc, End, TypesOK
<1>9. CASE DecideRights(c)
  BY <1>9, CountKept DEF DecideRights, TypesOK
<1>10. CASE RecordSession(c)
  BY <1>10, CountKept DEF RecordSession, TypesOK
<1>11. CASE RegisterLocal(c)
  BY <1>11, CountKept DEF RegisterLocal, TypesOK
<1>12. CASE Respond(c)
  BY <1>12, CountKept DEF Respond, End, TypesOK
<1>. QED
  BY <1>1, <1>2, <1>3, <1>4, <1>5, <1>6, <1>7, <1>8, <1>9, <1>10, <1>11, <1>12,
     LocalLoginCount, EnvWrongCount DEF Login

(* Administrators do not touch the logins under way.                       *)
LEMMA AdministerAlone ==
  ASSUME NEW c \in Client, Administer(c)
  PROVE  logins' = logins /\ failed' = failed /\ who' = who /\ snap' = snap /\ pc' = pc
BY DEF Administer, UserEnable, UserDisable, UserSetAdmin, AdminSets, UserCreate,
   UserDelete, UsersSettings, SessionRevoke, SessionsRevoke, Admin

LEMMA NextCount ==
  ASSUME Base, Base', CountInv, [Next]_vars
  PROVE  CountInv'
<1>. USE DEF Trying, store, login, counts
<1>. TypesOK /\ WhoInv
  BY DEF Base
<1>2. CASE logins' = logins /\ failed' = failed /\ who' = who /\ snap' = snap /\ pc' = pc
  BY <1>2, CountKept DEF TypesOK
<1>3. CASE \E c \in Client : SaveFails(c)
  BY <1>3, CountKept DEF SaveFails, End, Go, TypesOK
<1>4. CASE \E u \in Failing : WindowPasses(u)
  BY <1>4, CountKept DEF WindowPasses, TypesOK
<1>5. CASE Restart
  BY <1>5, CountKept DEF Restart, TypesOK
<1>6. CASE \E c \in Client : Saved(c) \/ LoadUser(c) \/ Logout(c)
  BY <1>2, <1>6 DEF Saved, LoadUser, Logout
<1>7. CASE \E u \in User : SessionAges(u)
  BY <1>2, <1>7 DEF SessionAges
<1>8. CASE UNCHANGED vars
  BY <1>2, <1>8 DEF vars
<1>. QED
  BY <1>2, <1>3, <1>4, <1>5, <1>6, <1>7, <1>8, LoginCount, AdministerAlone
  DEF Next

-----------------------------------------------------------------------------
(* The lockout.                                                            *)

LEMMA OneMore ==
  ASSUME NEW S, NEW x, IsFiniteSet(S), x \notin S
  PROVE  IsFiniteSet(S \cup {x}) /\ Cardinality(S \cup {x}) = Cardinality(S) + 1
BY FS_AddElement

LEMMA FewBrowsers ==
  /\ N \in Nat
  /\ \A c \in Client : N >= 1
  /\ \A c, d \in Client : c # d => N >= 2
  /\ N <= 2 => \A c, d, e \in Client : c = d \/ c = e \/ d = e
<1>1. N \in Nat
  BY FS_CardinalityType
<1>2. \A c : Cardinality({c}) = 1 /\ IsFiniteSet({c})
  BY FS_Singleton
<1>3. \A c, d : c # d => Cardinality({c, d}) = 2 /\ IsFiniteSet({c, d})
  <2>. SUFFICES ASSUME NEW c, NEW d, c # d
                PROVE  Cardinality({c, d}) = 2 /\ IsFiniteSet({c, d})
    OBVIOUS
  <2>1. {c, d} = {c} \cup {d} /\ d \notin {c}
    OBVIOUS
  <2>2. IsFiniteSet({c} \cup {d}) /\ Cardinality({c} \cup {d}) = Cardinality({c}) + 1
    BY <1>2, <2>1, OneMore
  <2>3. Cardinality({c}) = 1
    BY <1>2
  <2>4. Cardinality({c} \cup {d}) = 2
    BY <2>2, <2>3
  <2>. QED  BY <2>1, <2>2, <2>4
<1>4. \A c, d, e : c # d /\ c # e /\ d # e => Cardinality({c, d, e}) = 3
  <2>. SUFFICES ASSUME NEW c, NEW d, NEW e, c # d, c # e, d # e
                PROVE  Cardinality({c, d, e}) = 3
    OBVIOUS
  <2>1. {c, d, e} = {c, d} \cup {e} /\ e \notin {c, d}
    OBVIOUS
  <2>2. Cardinality({c, d} \cup {e}) = Cardinality({c, d}) + 1
    BY <1>3, <2>1, OneMore
  <2>3. Cardinality({c, d}) = 2
    BY <1>3
  <2>4. Cardinality({c, d} \cup {e}) = 3
    BY <2>2, <2>3
  <2>. QED  BY <2>1, <2>4
<1>5. \A S \in SUBSET Client : Cardinality(S) <= N
  BY FS_Subset
<1>6. ASSUME NEW c \in Client
      PROVE  N >= 1
  BY <1>1, <1>2, <1>5, {c} \in SUBSET Client
<1>7. ASSUME NEW c \in Client, NEW d \in Client, c # d
      PROVE  N >= 2
  BY <1>1, <1>3, <1>5, <1>7, {c, d} \in SUBSET Client
<1>8. ASSUME NEW c \in Client, NEW d \in Client, NEW e \in Client,
             c # d, c # e, d # e
      PROVE  N >= 3
  BY <1>1, <1>4, <1>5, <1>8, {c, d, e} \in SUBSET Client
<1>. QED  BY <1>1, <1>6, <1>7, <1>8

(* Steps that fail, start and check no login.                              *)
LEMMA LockKept ==
  ASSUME LockInv, failed' = failed,
         \A u \in Failing, c \in Client :
           /\ Tries(c, u)' => Tries(c, u)
           /\ Counts(c, u)' => Counts(c, u) /\ snap'[c] = snap[c]
           /\ Checks(c, u)' => Checks(c, u) /\ snap'[c] = snap[c]
  PROVE  LockInv'
BY DEF LockInv, Holds

LEMMA LocalLoginLock ==
  ASSUME N <= 2, Base, LockInv, NEW c \in Client, NEW v \in Failing, LocalLogin(c, v)
  PROVE  LockInv'
<1>0. /\ failed' = failed /\ failed \in [Failing -> Nat] /\ snap \in [Client -> Nat]
      /\ who' = [who EXCEPT ![c] = v] /\ snap' = [snap EXCEPT ![c] = failed[v]]
      /\ pc' = [pc EXCEPT ![c] = "lockout"]
      /\ pc \in [Client -> {"idle", "lockout", "read", "password", "env",
                     "count", "oidc", "rights", "record", "register", "respond"}]
      /\ who \in [Client -> User \cup {None}] /\ who[c] = None
  BY DEF LocalLogin, Free, Go, Base, TypesOK, WhoInv
<1>1. \A u \in Failing, d \in Client : d # c \/ u # v =>
        /\ Tries(d, u)' => Tries(d, u)
        /\ Counts(d, u)' => Counts(d, u) /\ snap'[d] = snap[d]
        /\ Checks(d, u)' => Checks(d, u) /\ snap'[d] = snap[d]
  BY <1>0 DEF Tries, Counts, Checks
<1>2. /\ Tries(c, v)' => failed[v] < LoginMax
      /\ ~Counts(c, v)'
      /\ Checks(c, v)' => failed[v] >= LoginMax /\ snap'[c] = failed[v]
  BY <1>0 DEF Tries, Counts, Checks
<1>. QED  BY <1>0, <1>1, <1>2, FewBrowsers DEF LockInv, Holds

LEMMA IsLockedOutLock ==
  ASSUME N <= 2, Base, LockInv, NEW c \in Client, IsLockedOut(c)
  PROVE  LockInv'
<1>. PICK v \in Failing : v = who[c]
  BY DEF Base, WhoInv, IsLockedOut
<1>0. /\ failed' = [failed EXCEPT ![v] = snap[c]]
      /\ failed \in [Failing -> Nat] /\ snap \in [Client -> Nat] /\ pc[c] = "lockout"
  BY DEF IsLockedOut, Base, TypesOK
<1>1. \A u \in Failing, d \in Client : d # c =>
        /\ Tries(d, u)' <=> Tries(d, u)
        /\ Counts(d, u)' <=> Counts(d, u)
        /\ Checks(d, u)' <=> Checks(d, u)
        /\ snap'[d] = snap[d]
  BY DEF Tries, Counts, Checks, IsLockedOut, End, Go, Base, TypesOK
<1>2. \A u \in Failing : ~Counts(c, u)' /\ ~Checks(c, u)' /\ (u # v => ~Tries(c, u)')
  BY DEF Tries, Counts, Checks, IsLockedOut, End, Go, Base, TypesOK
<1>3. CASE snap[c] >= LoginMax
  <2>1. Checks(c, v) /\ ~Tries(c, v)'
    BY <1>0, <1>3 DEF Tries, Checks, IsLockedOut, End, Go, Base, TypesOK
  <2>. QED  BY <1>0, <1>1, <1>2, <1>3, <2>1, FewBrowsers DEF LockInv, Holds
<1>4. CASE snap[c] < LoginMax
  <2>1. Tries(c, v)
    BY <1>0, <1>4 DEF Tries
  <2>. QED  BY <1>0, <1>1, <1>2, <1>4, <2>1, FewBrowsers DEF LockInv, Holds
<1>. QED  BY <1>0, <1>3, <1>4

LEMMA EnvWrongLock ==
  ASSUME N <= 2, Base, LockInv, NEW c \in Client, EnvWrong(c)
  PROVE  LockInv'
<1>. PICK v \in Failing : v = who[c]
  BY DEF Base, WhoInv, EnvWrong
<1>0. /\ failed' = failed /\ failed \in [Failing -> Nat] /\ snap \in [Client -> Nat]
      /\ snap' = [snap EXCEPT ![c] = failed[v] + 1]
  BY DEF EnvWrong, Base, TypesOK
<1>1. \A u \in Failing, d \in Client : d # c =>
        /\ Tries(d, u)' <=> Tries(d, u)
        /\ Counts(d, u)' <=> Counts(d, u)
        /\ Checks(d, u)' <=> Checks(d, u)
        /\ snap'[d] = snap[d]
  BY DEF Tries, Counts, Checks, EnvWrong, Go, login, Base, TypesOK
<1>2. /\ \A u \in Failing : ~Tries(c, u)' /\ ~Checks(c, u)' /\ (u # v => ~Counts(c, u)')
      /\ Tries(c, v)
  BY DEF Tries, Counts, Checks, EnvWrong, Go, login, Base, TypesOK
<1>. QED  BY <1>0, <1>1, <1>2, FewBrowsers DEF LockInv, Holds

LEMMA RecordFailureLock ==
  ASSUME N <= 2, Base, LockInv, NEW c \in Client, RecordFailure(c)
  PROVE  LockInv'
<1>. PICK v \in Failing : v = who[c]
  BY DEF Base, WhoInv, RecordFailure
<1>0. /\ failed' = [failed EXCEPT ![v] = snap[c]]
      /\ failed \in [Failing -> Nat] /\ snap \in [Client -> Nat]
  BY DEF RecordFailure, Base, TypesOK
<1>1. \A u \in Failing, d \in Client : d # c =>
        /\ Tries(d, u)' <=> Tries(d, u)
        /\ Counts(d, u)' <=> Counts(d, u)
        /\ Checks(d, u)' <=> Checks(d, u)
        /\ snap'[d] = snap[d]
  BY DEF Tries, Counts, Checks, RecordFailure, End, Go, Base, TypesOK
<1>2. /\ \A u \in Failing : ~Tries(c, u)' /\ ~Checks(c, u)' /\ ~Counts(c, u)'
      /\ Counts(c, v)
  BY DEF Tries, Counts, Checks, RecordFailure, End, Go, Base, TypesOK
<1>. QED  BY <1>0, <1>1, <1>2, FewBrowsers DEF LockInv, Holds

LEMMA WindowPassesLock ==
  ASSUME N <= 2, Base, LockInv, NEW v \in Failing, WindowPasses(v)
  PROVE  LockInv'
<1>0. /\ failed' = [failed EXCEPT ![v] = 0] /\ pc' = pc /\ who' = who
      /\ snap' = [c \in Client |-> IF who[c] = v THEN 0 ELSE snap[c]]
      /\ failed \in [Failing -> Nat] /\ snap \in [Client -> Nat]
  BY DEF WindowPasses, Base, TypesOK
<1>1. \A u \in Failing \ {v}, c \in Client :
        /\ Tries(c, u)' <=> Tries(c, u)
        /\ Counts(c, u)' <=> Counts(c, u)
        /\ Checks(c, u)' <=> Checks(c, u)
        /\ Holds(c, u) => snap'[c] = snap[c]
  BY <1>0 DEF Tries, Counts, Checks, Holds
<1>2. \A c \in Client : Holds(c, v)' => snap'[c] = 0
  BY <1>0 DEF Counts, Checks, Holds
<1>3. ASSUME NEW u \in Failing, u # v
      PROVE  failed'[u] = failed[u]
  BY <1>0, <1>3
<1>. QED  BY <1>0, <1>1, <1>2, <1>3, FewBrowsers DEF LockInv, Holds

LEMMA NextLock ==
  ASSUME N <= 2, Base, LockInv, [Next]_vars
  PROVE  LockInv'
<1>. USE DEF Tries, Counts, Checks, Go, store, login, counts
<1>. TypesOK /\ WhoInv
  BY DEF Base
<1>1. ASSUME NEW c \in Client, Login(c)
      PROVE  LockInv'
  <2>1. CASE ReadRecord(c)
    BY <2>1, LockKept DEF ReadRecord, TypesOK
  <2>2. CASE PasswordRight(c)
    BY <2>2, LockKept DEF PasswordRight, TypesOK
  <2>3. CASE PasswordWrong(c)
    BY <2>3, LockKept DEF PasswordWrong, TypesOK
  <2>4. CASE EnvRight(c)
    BY <2>4, LockKept DEF EnvRight, TypesOK
  <2>5. CASE \E u \in Oidc : OidcLogin(c, u)
    BY <2>5, LockKept DEF OidcLogin, TypesOK
  <2>6. CASE RegisterOidc(c)
    BY <2>6, LockKept DEF RegisterOidc, End, TypesOK
  <2>7. CASE DecideRights(c)
    BY <2>7, LockKept DEF DecideRights, TypesOK
  <2>8. CASE RecordSession(c)
    BY <2>8, LockKept DEF RecordSession, TypesOK
  <2>9. CASE RegisterLocal(c)
    BY <2>9, LockKept DEF RegisterLocal, TypesOK
  <2>10. CASE Respond(c)
    BY <2>10, LockKept DEF Respond, End, TypesOK
  <2>. QED
    BY <1>1, <2>1, <2>2, <2>3, <2>4, <2>5, <2>6, <2>7, <2>8, <2>9, <2>10,
       LocalLoginLock, IsLockedOutLock, EnvWrongLock, RecordFailureLock DEF Login
<1>2. CASE logins' = logins /\ failed' = failed /\ who' = who /\ snap' = snap /\ pc' = pc
  BY <1>2, LockKept
<1>3. CASE \E c \in Client : SaveFails(c)
  BY <1>3, LockKept DEF SaveFails, End, TypesOK
<1>4. CASE Restart
  BY <1>4, FewBrowsers DEF Restart, LockInv, Holds
<1>5. CASE \E c \in Client : Saved(c) \/ LoadUser(c) \/ Logout(c)
  BY <1>2, <1>5 DEF Saved, LoadUser, Logout
<1>6. CASE \E u \in User : SessionAges(u)
  BY <1>2, <1>6 DEF SessionAges
<1>7. CASE UNCHANGED vars
  BY <1>2, <1>7 DEF vars
<1>. QED
  BY <1>1, <1>2, <1>3, <1>4, <1>5, <1>6, <1>7, AdministerAlone, WindowPassesLock
  DEF Next

-----------------------------------------------------------------------------
(* The rights of a login, as MCAccounts records them.                      *)

SeenStep ==
    seen' = [c \in Client |->
               IF pc'[c] = "idle" THEN {} ELSE seen[c] \cup GrantedNow'[c]]

(* Steps that bring no login to its check, to its rights or to its record, *)
(* and take no record from it but the one it may be holding.               *)
Keeps(c) ==
    \/ pc'[c] \notin {"password", "rights", "record"}
    \/ /\ pc'[c] = pc[c] /\ who'[c] = who[c] /\ rights'[c] = rights[c]
       /\ held'[c] = held[c] \/ (held[c] = Live /\ held'[c] = users[who[c]])

LEMMA GrantedSeen ==
  ASSUME Base, RightsInv, SeenStep, NEW c \in Client, pc[c] # "idle", pc'[c] # "idle"
  PROVE  /\ Granted(who[c]) \subseteq seen[c]
         /\ seen[c] \subseteq seen'[c]
         /\ GrantedNow'[c] \subseteq seen'[c]
BY DEF Base, WhoInv, RightsInv, SeenStep, GrantedNow

LEMMA AdminGranted ==
  ASSUME NEW u, IsAdmin(u)
  PROVE  "admin" \in Granted(u)
BY DEF Granted

LEMMA EnterGranted ==
  ASSUME NEW u, MayEnter(u)
  PROVE  "enter" \in Granted(u)
BY DEF Granted

LEMMA HeldIsAdmin ==
  ASSUME Base, NEW c \in Client, held[c] = Live, users[who[c]].admin = "yes"
  PROVE  IsAdmin(who[c])
BY DEF Base, WhoInv, IsAdmin

LEMMA RightsKept ==
  ASSUME Base, Base', RightsInv, SeenStep, NEW c \in Client, Keeps(c)
  PROVE  /\ pc'[c] # "idle" => GrantedNow'[c] \subseteq seen'[c]
         /\ pc'[c] \in {"password", "rights"} => "enter" \in seen'[c]
         /\ pc'[c] = "password" /\ held'[c] # Live /\ held'[c].admin = "yes" =>
              "admin" \in seen'[c]
         /\ pc'[c] = "record" =>
              \/ rights'[c].super /\ who'[c] = Super
              \/ /\ ~rights'[c].super /\ "enter" \in seen'[c]
                 /\ rights'[c].admin => "admin" \in seen'[c]
<1>1. pc'[c] # "idle" => GrantedNow'[c] \subseteq seen'[c]
  BY DEF SeenStep
<1>2. CASE pc'[c] \notin {"password", "rights", "record"}
  BY <1>1, <1>2
<1>3. CASE /\ pc'[c] \in {"password", "rights", "record"}
           /\ pc'[c] = pc[c] /\ who'[c] = who[c] /\ rights'[c] = rights[c]
           /\ held'[c] = held[c] \/ (held[c] = Live /\ held'[c] = users[who[c]])
  <2>1. seen[c] \subseteq seen'[c] /\ Granted(who[c]) \subseteq seen[c]
    BY <1>3, GrantedSeen
  <2>2. pc'[c] = "password" /\ held'[c] # Live /\ held'[c].admin = "yes" =>
          "admin" \in seen'[c]
    BY <1>3, <2>1, HeldIsAdmin, AdminGranted DEF RightsInv
  <2>. QED  BY <1>1, <1>3, <2>1, <2>2 DEF RightsInv
<1>. QED  BY <1>2, <1>3 DEF Keeps

LEMMA NextRights ==
  ASSUME Base, Base', RightsInv, [MCNext]_<<vars, seen>>
  PROVE  RightsInv'
<1>. USE DEF Go, store, login, counts
<1>. TypesOK /\ WhoInv
  BY DEF Base
<1>0. SUFFICES ASSUME Next, SeenStep PROVE RightsInv'
  <2>1. CASE UNCHANGED <<vars, seen>>
    BY <2>1 DEF vars, RightsInv, GrantedNow, Granted, MayEnter, Registered, MayTry, IsAdmin
  <2>. QED  BY <2>1 DEF MCNext, SeenStep
<1>1. CASE \A c \in Client : Keeps(c)
  BY <1>0, <1>1, RightsKept DEF RightsInv
<1>2. ASSUME NEW c \in Client, \A d \in Client \ {c} : Keeps(d),
             pc'[c] = "password" => "enter" \in seen'[c] /\ held'[c] = Live,
             pc'[c] = "rights" => "enter" \in seen'[c],
             pc'[c] = "record" =>
               \/ rights'[c].super /\ who'[c] = Super
               \/ /\ ~rights'[c].super /\ "enter" \in seen'[c]
                  /\ rights'[c].admin => "admin" \in seen'[c]
      PROVE  RightsInv'
  <2>1. pc'[c] # "idle" => GrantedNow'[c] \subseteq seen'[c]
    BY <1>0 DEF SeenStep
  <2>. QED  BY <1>0, <1>2, <2>1, RightsKept DEF RightsInv
<1>3. ASSUME NEW c \in Client, ReadRecord(c)
      PROVE  RightsInv'
  <2>1. \A d \in Client \ {c} : Keeps(d)
    BY <1>3 DEF ReadRecord, Keeps, TypesOK
  <2>2. pc'[c] = "password" => "enter" \in seen'[c] /\ held'[c] = Live
    <3>. SUFFICES ASSUME pc'[c] = "password"
                  PROVE  "enter" \in seen'[c] /\ held'[c] = Live
      OBVIOUS
    <3>1. MayTry(users[who[c]]) /\ held'[c] = Live
      BY <1>3 DEF ReadRecord, TypesOK
    <3>2. MayEnter(who[c])
      BY <1>3, <3>1 DEF ReadRecord, WhoInv, MayEnter
    <3>. QED  BY <1>0, <1>3, <3>1, <3>2, GrantedSeen, EnterGranted DEF ReadRecord
  <2>3. pc'[c] \notin {"rights", "record"}
    BY <1>3 DEF ReadRecord, TypesOK
  <2>. QED  BY <1>2, <2>1, <2>2, <2>3
<1>4. ASSUME NEW c \in Client, RegisterOidc(c)
      PROVE  RightsInv'
  <2>1. \A d \in Client \ {c} : Keeps(d)
    BY <1>4 DEF RegisterOidc, Change, End, Keeps, TypesOK
  <2>2. pc'[c] \in {"rights", "idle"}
    BY <1>4 DEF RegisterOidc, Change, End, TypesOK
  <2>3. pc'[c] = "rights" => "enter" \in seen'[c]
    <3>. SUFFICES ASSUME pc'[c] = "rights"
                  PROVE  "enter" \in seen'[c]
      OBVIOUS
    <3>1. Registered(who[c]).enabled
      BY <1>4 DEF RegisterOidc, End, TypesOK
    <3>2. MayEnter(who[c])
      BY <1>4, <3>1 DEF RegisterOidc, WhoInv, MayEnter
    <3>. QED  BY <1>0, <1>4, <3>2, GrantedSeen, EnterGranted DEF RegisterOidc
  <2>. QED  BY <1>2, <2>1, <2>2, <2>3
<1>5. ASSUME NEW c \in Client, PasswordRight(c)
      PROVE  RightsInv'
  <2>1. \A d \in Client \ {c} : Keeps(d)
    BY <1>5 DEF PasswordRight, Keeps, TypesOK
  <2>2. pc'[c] = "record" /\ pc[c] = "password" /\ rights[c] = NoRights /\ held' = held
    BY <1>5 DEF PasswordRight, TypesOK, WhoInv
  <2>3. rights'[c].super = FALSE /\ rights'[c].admin = (HeldRecord(c).admin = "yes")
    BY <1>5, <2>2 DEF PasswordRight, TypesOK, NoRights, Rights
  <2>4. "enter" \in seen'[c]
    BY <1>0, <2>2, GrantedSeen DEF RightsInv
  <2>5. HeldRecord(c).admin = "yes" => "admin" \in seen'[c]
    <3>1. CASE held[c] = Live
      BY <1>0, <2>2, <3>1, HeldIsAdmin, AdminGranted, GrantedSeen DEF HeldRecord
    <3>2. CASE held[c] # Live
      BY <1>0, <2>2, <3>2, GrantedSeen DEF HeldRecord, RightsInv
    <3>. QED  BY <3>1, <3>2
  <2>. QED  BY <1>2, <2>1, <2>2, <2>3, <2>4, <2>5
<1>6. ASSUME NEW c \in Client, DecideRights(c)
      PROVE  RightsInv'
  <2>1. \A d \in Client \ {c} : Keeps(d)
    BY <1>6 DEF DecideRights, Keeps, TypesOK
  <2>2. pc'[c] = "record" /\ pc[c] = "rights" /\ rights[c] = NoRights
    BY <1>6 DEF DecideRights, TypesOK, WhoInv
  <2>3. rights'[c].super = FALSE /\ rights'[c].admin = IsAdmin(who[c])
    BY <1>6, <2>2 DEF DecideRights, TypesOK, NoRights, Rights
  <2>4. "enter" \in seen'[c] /\ (IsAdmin(who[c]) => "admin" \in seen'[c])
    BY <1>0, <2>2, AdminGranted, GrantedSeen DEF RightsInv
  <2>. QED  BY <1>2, <2>1, <2>2, <2>3, <2>4
<1>7. ASSUME NEW c \in Client, EnvRight(c)
      PROVE  RightsInv'
  <2>1. \A d \in Client \ {c} : Keeps(d)
    BY <1>7 DEF EnvRight, Keeps, TypesOK
  <2>2. pc'[c] = "record" /\ who'[c] = Super /\ rights'[c].super
    BY <1>7 DEF EnvRight, TypesOK
  <2>. QED  BY <1>2, <2>1, <2>2
<1>8. ASSUME NEW c \in Client,
             \/ \E u \in Failing : LocalLogin(c, u)
             \/ \E u \in Oidc : OidcLogin(c, u)
             \/ IsLockedOut(c) \/ PasswordWrong(c) \/ EnvWrong(c) \/ RecordFailure(c)
             \/ RecordSession(c) \/ RegisterLocal(c) \/ Respond(c) \/ SaveFails(c)
      PROVE  \A d \in Client : Keeps(d)
  BY <1>8 DEF Keeps, LocalLogin, OidcLogin, IsLockedOut, PasswordWrong, EnvWrong,
     RecordFailure, RecordSession, RegisterLocal, Respond, SaveFails, Change, End,
     TypesOK
<1>9. ASSUME NEW c \in Client, Administer(c) \/ Saved(c) \/ LoadUser(c) \/ Logout(c)
      PROVE  \A d \in Client : Keeps(d)
  <2>1. pc' = pc /\ who' = who /\ rights' = rights
    BY <1>9 DEF Administer, UserEnable, UserDisable, UserSetAdmin, AdminSets,
       UserCreate, UserDelete, UsersSettings, SessionRevoke, SessionsRevoke,
       Admin, Saved, LoadUser, Logout
  <2>2. CASE held' = held
    BY <2>1, <2>2 DEF Keeps
  <2>3. CASE \E u \in User : Detach(u)
    BY <2>1, <2>3 DEF Keeps, Detach, TypesOK
  <2>. QED
    BY <1>9, <2>2, <2>3 DEF Administer, UserEnable, UserDisable, UserSetAdmin,
       AdminSets, UserCreate, UserDelete, UsersSettings, SessionRevoke,
       SessionsRevoke, Saved, LoadUser, Logout
<1>10. CASE Restart \/ (\E u \in User : SessionAges(u)) \/ (\E u \in Failing : WindowPasses(u))
  <2>1. \A d \in Client : Keeps(d)
    BY <1>10 DEF Keeps, Restart, SessionAges, WindowPasses
  <2>. QED  BY <1>1, <2>1
<1>. QED
  BY <1>0, <1>1, <1>3, <1>4, <1>5, <1>6, <1>7, <1>8, <1>9, <1>10 DEF Next, Login

-----------------------------------------------------------------------------
(* The theorems.                                                           *)

(* Nobody is registered, signed in or signing in at first.                 *)
LEMMA InitBase == Init => Base /\ CountInv /\ LockInv
<1>. SUFFICES ASSUME Init PROVE Base /\ CountInv /\ LockInv
  OBVIOUS
<1>1. TypesOK
  <2>1. NoRights \in Rights
    BY RecordFields
  <2>2. rights \in [Client -> Rights]
    BY <2>1 DEF Init
  <2>. QED  BY <2>2 DEF Init, TypesOK
<1>2. WhoInv /\ FileFollows
  BY DEF Init, WhoInv, FileFollows
<1>3. CountInv
  <2>1. \A u \in Failing : Trying(u) = {}
    BY DEF Init, Trying
  <2>2. \A u \in Failing : Cardinality(Trying(u)) = 0
    BY <2>1, FS_EmptySet
  <2>. QED  BY <2>2 DEF Init, CountInv
<1>4. LockInv
  BY FewBrowsers DEF Init, LockInv, Tries, Counts, Checks, Holds
<1>. QED  BY <1>1, <1>2, <1>3, <1>4 DEF Base

(* Logins, administrators, failing saves and restarts, with any number of  *)
(* browsers: whom a login is for, the record it holds and what is in       *)
(* users.yml stay as WhoInv and FileFollows say.                           *)
THEOREM Invariance == Spec => [](Base /\ CountInv)
<1>1. Base /\ CountInv /\ [Next]_vars => (Base /\ CountInv)'
  BY NextBase, NextCount
<1>. QED  BY <1>1, InitBase, PTL DEF Spec

(* The variables keep their types, and no more failures are counted than   *)
(* there were logins.                                                      *)
THEOREM TypeCorrect == Spec => []TypeOK
<1>1. Base /\ CountInv => TypeOK
  <2>. SUFFICES ASSUME Base, CountInv PROVE TypeOK
    OBVIOUS
  <2>1. \A u \in Failing : failed[u] \in 0..MaxLogins
    BY TryingType DEF Base, TypesOK, CountInv
  <2>2. ASSUME NEW c \in Client
        PROVE  snap[c] \in 0..MaxLogins
    <3>1. snap[c] \in Nat /\ logins \in 0..MaxLogins
      BY DEF Base, TypesOK
    <3>2. CASE who[c] \notin Failing
      BY <3>1, <3>2 DEF CountInv
    <3>3. CASE who[c] \in Failing
      <4>1. PICK u \in Failing : who[c] = u
        BY <3>3
      <4>2. Cardinality(Trying(u)) \in Nat
        BY TryingType
      <4>3. snap[c] + Cardinality(Trying(u)) <= logins
        BY <4>1 DEF CountInv
      <4>. QED  BY <3>1, <4>2, <4>3
    <3>. QED  BY <3>2, <3>3
  <2>. QED  BY <2>1, <2>2 DEF Base, TypesOK, TypeOK
<1>. QED  BY <1>1, Invariance, PTL

(* Unless a save is under way or has failed, users.yml is what the store   *)
(* holds, whatever requests and faults come together.                      *)
THEOREM FileKeepsUp == Spec => []FileFollows
<1>1. Base => FileFollows
  BY DEF Base
<1>. QED  BY <1>1, Invariance, PTL

(* The lockout, which has no lock, is exact for one request at a time and  *)
(* one failure off for two, however they interleave.                       *)
THEOREM LockedOutInTime == Spec => []LockoutHolds
<1>1. CASE N <= 2
  <2>1. Base /\ LockInv /\ [Next]_vars => (Base /\ LockInv)'
    BY <1>1, NextBase, NextLock
  <2>2. LockInv => LockoutHolds
    BY DEF LockInv, LockoutHolds
  <2>. QED  BY <2>1, <2>2, InitBase, PTL DEF Spec
<1>2. CASE ~(N <= 2)
  <2>1. LockoutHolds
    BY <1>2 DEF LockoutHolds
  <2>. QED  BY <2>1, PTL
<1>. QED  BY <1>1, <1>2

(* Who has been shut out stays out until an administrator says otherwise:  *)
(* no login under way, late save or restart lets the user in.              *)
THEOREM ShutOutForGood == Spec => OutStaysOut
<1>1. Base /\ [Next]_vars =>
        [\A u \in User : ShutOut(u) /\ Barred(u)' => ShutOut(u)']_vars
  <2>. SUFFICES ASSUME Base, [Next]_vars, NEW u \in User, ShutOut(u), Barred(u)'
                PROVE  session'[u] = None /\ NoneUnderWay(u)'
    BY DEF ShutOut
  <2>. USE DEF User, Go, store, login, counts
  <2>. TypesOK /\ WhoInv /\ Barred(u) /\ session[u] = None /\ NoneUnderWay(u)
    BY DEF Base, ShutOut
  <2>1. CASE session' = session /\ pc' = pc /\ who' = who
    BY <2>1 DEF NoneUnderWay
  <2>2. ASSUME NEW c \in Client, Login(c)
        PROVE  session'[u] = None /\ NoneUnderWay(u)'
    <3>1. CASE \/ \E v \in Failing : LocalLogin(c, v)
               \/ \E v \in Oidc : OidcLogin(c, v)
               \/ IsLockedOut(c) \/ PasswordRight(c) \/ PasswordWrong(c) \/ EnvWrong(c)
               \/ RecordFailure(c) \/ DecideRights(c) \/ RegisterLocal(c) \/ Respond(c)
      BY <3>1 DEF LocalLogin, OidcLogin, IsLockedOut, PasswordRight, PasswordWrong,
         EnvWrong, RecordFailure, DecideRights, RegisterLocal, Respond, Change, End,
         NoneUnderWay, TypesOK
    <3>2. CASE ReadRecord(c)
      BY <3>2 DEF ReadRecord, NoneUnderWay, Barred, TypesOK, WhoInv
    <3>3. CASE EnvRight(c)
      BY <3>3 DEF EnvRight, NoneUnderWay, Barred, TypesOK
    <3>4. CASE RegisterOidc(c)
      BY <3>4 DEF RegisterOidc, Registered, End, NoneUnderWay, Barred, TypesOK, WhoInv
    <3>5. CASE RecordSession(c)
      BY <3>5 DEF RecordSession, NoneUnderWay, TypesOK
    <3>. QED  BY <2>2, <3>1, <3>2, <3>3, <3>4, <3>5 DEF Login
  <2>3. ASSUME NEW c \in Client, Administer(c)
        PROVE  session'[u] = None /\ NoneUnderWay(u)'
    <3>1. pc' = pc /\ who' = who
      BY <2>3, AdministerAlone
    <3>2. session'[u] = None
      BY <2>3 DEF Administer, UserEnable, UserDisable, UserSetAdmin, AdminSets,
         UserCreate, UserDelete, UsersSettings, SessionRevoke, SessionsRevoke, TypesOK
    <3>. QED  BY <3>1, <3>2 DEF NoneUnderWay
  <2>4. CASE \E c \in Client : SaveFails(c)
    BY <2>4 DEF SaveFails, End, NoneUnderWay, TypesOK
  <2>5. CASE \E c \in Client : Saved(c) \/ LoadUser(c) \/ Logout(c)
    BY <2>5 DEF Saved, LoadUser, Logout, NoneUnderWay, TypesOK
  <2>6. CASE \E v \in User : SessionAges(v)
    BY <2>6 DEF SessionAges, NoneUnderWay, TypesOK
  <2>7. CASE \E v \in Failing : WindowPasses(v)
    BY <2>1, <2>7 DEF WindowPasses
  <2>8. CASE Restart
    BY <2>8 DEF Restart, NoneUnderWay
  <2>9. CASE UNCHANGED vars
    BY <2>1, <2>9 DEF vars
  <2>. QED  BY <2>2, <2>3, <2>4, <2>5, <2>6, <2>7, <2>8, <2>9 DEF Next
<1>. QED  BY <1>1, Invariance, PTL DEF Spec, OutStaysOut

(* A session gives the rights the store granted at some moment of the      *)
(* login that recorded it, and no others.                                  *)
THEOREM RightsAreTrue == MCSpec => RightsWereTrue
<1>1. MCInit => Base /\ RightsInv
  BY InitBase DEF MCInit, RightsInv, Init
<1>2. Base /\ RightsInv /\ [MCNext]_<<vars, seen>> => (Base /\ RightsInv)'
  <2>. SUFFICES ASSUME Base, RightsInv, [MCNext]_<<vars, seen>>
                PROVE  (Base /\ RightsInv)'
    OBVIOUS
  <2>1. [Next]_vars
    BY DEF MCNext
  <2>. QED  BY <2>1, NextBase, NextRights
<1>3. Base /\ RightsInv /\ [MCNext]_<<vars, seen>> =>
        [\A c \in Client :
           (pc[c] = "record" /\ pc'[c] # "record" /\ session'[who[c]] # session[who[c]]
              /\ session'[who[c]] # None) =>
             LET new == session'[who[c]].rights
             IN  \/ new.super /\ who[c] = Super
                 \/ /\ "enter" \in seen[c]
                    /\ new.admin => "admin" \in seen[c]
                    /\ ~new.super]_<<vars, seen>>
  <2>. SUFFICES ASSUME Base, RightsInv, Next, NEW c \in Client,
                       pc[c] = "record", pc'[c] # "record",
                       session'[who[c]] # session[who[c]], session'[who[c]] # None
                PROVE  session'[who[c]].rights = rights[c]
    BY DEF MCNext, RightsInv
  <2>. USE DEF Go, store, login, counts
  <2>. TypesOK /\ WhoInv
    BY DEF Base
  <2>1. ASSUME NEW d \in Client, Login(d)
        PROVE  d = c /\ RecordSession(c)
    BY <2>1 DEF Login, LocalLogin, OidcLogin, IsLockedOut, ReadRecord, PasswordRight,
       PasswordWrong, EnvRight, EnvWrong, RecordFailure, RegisterOidc, DecideRights,
       RecordSession, RegisterLocal, Respond, Free, End, TypesOK
  <2>2. ASSUME NEW d \in Client, Administer(d) PROVE FALSE
    BY <2>2, AdministerAlone
  <2>3. ASSUME NEW d \in Client, SaveFails(d) \/ Saved(d) \/ LoadUser(d) \/ Logout(d)
        PROVE  FALSE
    BY <2>3 DEF SaveFails, Saved, LoadUser, Logout
  <2>4. ASSUME \/ \E u \in User : SessionAges(u)
               \/ \E u \in Failing : WindowPasses(u)
               \/ Restart
        PROVE  FALSE
    BY <2>4 DEF SessionAges, WindowPasses, Restart, WhoInv, TypesOK
  <2>5. RecordSession(c)
    BY <2>1, <2>2, <2>3, <2>4 DEF Next
  <2>. QED  BY <2>5 DEF RecordSession, WhoInv, TypesOK
<1>. QED  BY <1>1, <1>2, <1>3, PTL DEF MCSpec, RightsWereTrue

=============================================================================
