----------------------------- MODULE MCAccounts -----------------------------
(***************************************************************************)
(* Accounts with a history variable: what the store granted the user of    *)
(* each login at some moment since the login began.                        *)
(***************************************************************************)
EXTENDS Accounts, TLC

Browsers == Permutations(Client)

VARIABLE seen

MayEnter(u) ==
    IF u \in Oidc THEN Registered(u).enabled ELSE MayTry(users[u])

Granted(u) ==
    (IF MayEnter(u) THEN {"enter"} ELSE {}) \cup
    (IF IsAdmin(u) THEN {"admin"} ELSE {})

GrantedNow == [c \in Client |-> IF who[c] = None THEN {} ELSE Granted(who[c])]

MCInit == Init /\ seen = [c \in Client |-> {}]

MCNext ==
    /\ Next
    /\ seen' = [c \in Client |->
                  IF pc'[c] = "idle" THEN {} ELSE seen[c] \cup GrantedNow'[c]]

MCSpec == MCInit /\ [][MCNext]_<<vars, seen>>

(* A session that a login records gives its user what the store granted    *)
(* the user at some moment of that login and nothing more, although the    *)
(* record is read, the password checked and the session recorded in        *)
(* separate steps: local_login, callback.  Only the user of ADMIN_USERNAME *)
(* has rights the store does not give.                                     *)
RightsWereTrue ==
    [][\A c \in Client :
         (pc[c] = "record" /\ pc'[c] # "record" /\ session'[who[c]] # session[who[c]]
            /\ session'[who[c]] # None) =>
           LET new == session'[who[c]].rights
           IN  \/ new.super /\ who[c] = Super
               \/ /\ "enter" \in seen[c]
                  /\ new.admin => "admin" \in seen[c]
                  /\ ~new.super]_<<vars, seen>>
=============================================================================
