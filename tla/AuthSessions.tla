---------------------------- MODULE AuthSessions ----------------------------
(***************************************************************************)
(* Login with one account of a provider, the sessions it opens, and their  *)
(* refresh tokens (backend/app/domains/auth/).                             *)
(*                                                                         *)
(* A login of the web gets a session at once; a login of the app gets a    *)
(* one-time code that the web view exchanges for one.  A session lives on  *)
(* by rotation: its refresh token is revoked and a successor issued.  A    *)
(* token that is presented after its revocation ends all sessions of the   *)
(* user.  Every handler reads in one statement and commits in a later one, *)
(* by primary key; only the use of a code is a single conditional UPDATE.  *)
(***************************************************************************)
EXTENDS Integers, FiniteSets

CONSTANTS
    Requests,     \* HTTP requests in flight
    MaxUser,      \* bound: users are numbered 1 .. MaxUser,
    MaxToken,     \* refresh tokens 1 .. MaxToken,
    MaxCode       \* and app login codes 1 .. MaxCode

VARIABLES
    users,      \* the rows of users
    identity,   \* the user of the account's row in auth_identities, if any
    token,      \* the rows of refresh_tokens
    code,       \* the rows of app_login_codes
    req,        \* what each request has read
    closed,     \* history: tokens that a reuse found and closed
    escaped     \* history: rotations that were under way then

vars == <<users, identity, token, code, req, closed, escaped>>

Users == 1 .. MaxUser
Tokens == 1 .. MaxToken
Codes == 1 .. MaxCode
None == 0

TokenRow ==
    [state : {"absent", "live", "revoked"}, expired : BOOLEAN,
     user : Users \cup {None},
     from : Tokens \cup {None},      \* rotated_from
     code : Codes \cup {None}]       \* history: the code it was issued for
CodeRow ==
    [state : {"absent", "fresh", "used"}, expired : BOOLEAN,
     user : Users \cup {None}]
RequestState ==
    [at : {"idle", "unknown", "user", "rotate", "reuse"},
     user : Users \cup {None}, code : Codes \cup {None},
     token : Tokens \cup {None}]

NoToken == [state |-> "absent", expired |-> FALSE, user |-> None,
            from |-> None, code |-> None]
NoCode == [state |-> "absent", expired |-> FALSE, user |-> None]
Holding(at, u, c, k) == [at |-> at, user |-> u, code |-> c, token |-> k]
Idle == Holding("idle", None, None, None)
LoggedIn(u, c) == Holding("user", u, c, None)

(* Rows are numbered as they are inserted.                                 *)
NextToken(k) == {j \in Tokens : token[j].state # "absent"} = 1 .. k - 1
NextCode(c) == {d \in Codes : code[d].state # "absent"} = 1 .. c - 1

Insert(k, row) ==
    /\ NextToken(k)
    /\ token' = [token EXCEPT ![k] = row]
Fresh(u, from, c) ==
    [state |-> "live", expired |-> FALSE, user |-> u, from |-> from,
     code |-> c]

Init ==
    /\ users = {} /\ identity = None
    /\ token = [k \in Tokens |-> NoToken]
    /\ code = [c \in Codes |-> NoCode]
    /\ req = [r \in Requests |-> Idle]
    /\ closed = {} /\ escaped = 0

-----------------------------------------------------------------------------
(* The provider's callback.                                                *)

LoginRead(r) ==
    /\ req[r].at = "idle"
    /\ req' = [req EXCEPT ![r] =
                 IF identity = None
                 THEN Holding("unknown", None, None, None)
                 ELSE LoggedIn(identity, None)]
    /\ UNCHANGED <<users, identity, token, code, closed, escaped>>

(* Mutant: the user is committed before its identity.                      *)
LoginCreateUserFirst(r) ==
    /\ req[r].at = "unknown"
    /\ \E u \in Users \ users :
         /\ users' = users \cup {u}
         /\ identity' = IF identity = None THEN u ELSE identity
         /\ req' = [req EXCEPT ![r] = IF identity = None
                                     THEN LoggedIn(u, None)
                                     ELSE Idle]
    /\ UNCHANGED <<token, code, closed, escaped>>

(* User and identity are inserted in one transaction.  The identity is     *)
(* unique, so the second of two first logins fails and leaves nothing.     *)
LoginCreate(r) ==
    /\ req[r].at = "unknown"
    /\ IF identity # None
       THEN /\ req' = [req EXCEPT ![r] = Idle]
            /\ UNCHANGED <<users, identity>>
       ELSE \E u \in Users \ users :
              /\ users' = users \cup {u}
              /\ identity' = u
              /\ req' = [req EXCEPT ![r] = LoggedIn(u, None)]
    /\ UNCHANGED <<token, code, closed, escaped>>

(* issue_session, of the web callback and of the app's exchange.           *)
IssueSession(r) ==
    /\ req[r].at = "user"
    /\ \E k \in Tokens : Insert(k, Fresh(req[r].user, None, req[r].code))
    /\ req' = [req EXCEPT ![r] = Idle]
    /\ UNCHANGED <<users, identity, code, closed, escaped>>

(* issue_app_login_code: the app's callback gets a code instead.           *)
IssueCode(r) ==
    /\ req[r].at = "user" /\ req[r].code = None
    /\ \E c \in Codes :
         /\ NextCode(c)
         /\ code' = [code EXCEPT ![c] = [state |-> "fresh", expired |-> FALSE,
                                         user |-> req[r].user]]
    /\ req' = [req EXCEPT ![r] = Idle]
    /\ UNCHANGED <<users, identity, token, closed, escaped>>

(* Mutant: used_at is not looked at.                                       *)
ConsumableAgain(c) == code[c].state # "absent" /\ ~code[c].expired

(* consume_app_login_code: UPDATE ... WHERE used_at IS NULL RETURNING.     *)
Consumable(c) == code[c].state = "fresh" /\ ~code[c].expired

ConsumeCode(r, c) ==
    /\ req[r].at = "idle"
    /\ Consumable(c)
    /\ code' = [code EXCEPT ![c].state = "used"]
    /\ req' = [req EXCEPT ![r] = LoggedIn(code[c].user, c)]
    /\ UNCHANGED <<users, identity, token, closed, escaped>>

-----------------------------------------------------------------------------
(* rotate_refresh_token.                                                   *)

(* Mutant: a revoked token is rotated like a live one.                     *)
RotateReadAny(r, k) ==
    /\ req[r].at = "idle"
    /\ \/ /\ token[k].state = "revoked"
          /\ req' = [req EXCEPT ![r] = Holding("reuse", None, None, k)]
       \/ /\ token[k].state # "absent" /\ ~token[k].expired
          /\ req' = [req EXCEPT ![r] = Holding("rotate", None, None, k)]
    /\ UNCHANGED <<users, identity, token, code, closed, escaped>>

(* What becomes of a presented token is decided by the row as it is read.  *)
RotateRead(r, k) ==
    /\ req[r].at = "idle"
    /\ \/ /\ token[k].state = "revoked"
          /\ req' = [req EXCEPT ![r] = Holding("reuse", None, None, k)]
       \/ /\ token[k].state = "live" /\ ~token[k].expired
          /\ req' = [req EXCEPT ![r] = Holding("rotate", None, None, k)]
    /\ UNCHANGED <<users, identity, token, code, closed, escaped>>

(* The token is revoked by primary key, whatever it has become.            *)
RotateCommit(r) ==
    /\ req[r].at = "rotate"
    /\ \E k \in Tokens :
         /\ NextToken(k)
         /\ token' = [token EXCEPT
                        ![req[r].token].state = "revoked",
                        ![k] = Fresh(token[req[r].token].user,
                                     req[r].token, None)]
    /\ req' = [req EXCEPT ![r] = Idle]
    /\ UNCHANGED <<users, identity, code, closed, escaped>>

OfUser(u) == {k \in Tokens : token[k].user = u}
UnderWay(u) ==
    {s \in Requests : /\ req[s].at = "rotate"
                      /\ req[s].token \in OfUser(u) \ closed}

(* revoke_all_sessions                                                     *)
RevokeAll(r) ==
    /\ req[r].at = "reuse"
    /\ LET u == token[req[r].token].user IN
         /\ token' = [k \in Tokens |->
                        IF k \in OfUser(u)
                        THEN [token[k] EXCEPT !.state = "revoked"]
                        ELSE token[k]]
         /\ closed' = closed \cup OfUser(u)
         /\ escaped' = escaped + Cardinality(UnderWay(u))
    /\ req' = [req EXCEPT ![r] = Idle]
    /\ UNCHANGED <<users, identity, code>>

(* Mutant: a logged-out token is no longer marked as revoked.              *)
LogoutUnknown(k) ==
    /\ token[k].state = "live"
    /\ token' = [token EXCEPT ![k].state = "logged_out"]
    /\ UNCHANGED <<users, identity, code, req, closed, escaped>>

(* revoke_refresh_token *)
Logout(k) ==
    /\ token[k].state = "live"
    /\ token' = [token EXCEPT ![k].state = "revoked"]
    /\ UNCHANGED <<users, identity, code, req, closed, escaped>>

-----------------------------------------------------------------------------
(* Time passes; it makes no difference to what is revoked or used.         *)
ExpireToken(k) ==
    /\ token[k].state = "live" /\ ~token[k].expired
    /\ token' = [token EXCEPT ![k].expired = TRUE]
    /\ UNCHANGED <<users, identity, code, req, closed, escaped>>

ExpireCode(c) ==
    /\ code[c].state = "fresh" /\ ~code[c].expired
    /\ code' = [code EXCEPT ![c].expired = TRUE]
    /\ UNCHANGED <<users, identity, token, req, closed, escaped>>

(* The process dies, or a client goes away, between two transactions.      *)
Abandon(r) ==
    /\ req[r].at # "idle"
    /\ req' = [req EXCEPT ![r] = Idle]
    /\ UNCHANGED <<users, identity, token, code, closed, escaped>>

Next ==
    \/ \E r \in Requests : LoginRead(r)
    \/ \E r \in Requests : LoginCreate(r)
    \/ \E r \in Requests : IssueSession(r)
    \/ \E r \in Requests : IssueCode(r)
    \/ \E r \in Requests, c \in Codes : ConsumeCode(r, c)
    \/ \E r \in Requests, k \in Tokens : RotateRead(r, k)
    \/ \E r \in Requests : RotateCommit(r)
    \/ \E r \in Requests : RevokeAll(r)
    \/ \E k \in Tokens : Logout(k)
    \/ \E k \in Tokens : ExpireToken(k)
    \/ \E c \in Codes : ExpireCode(c)
    \/ \E r \in Requests : Abandon(r)

Spec == Init /\ [][Next]_vars

-----------------------------------------------------------------------------
(* Every variable keeps its type.                                          *)
TypeOK ==
    /\ users \subseteq Users /\ identity \in Users \cup {None}
    /\ token \in [Tokens -> TokenRow]
    /\ code \in [Codes -> CodeRow]
    /\ req \in [Requests -> RequestState]
    /\ closed \subseteq Tokens /\ escaped \in Nat

(* Simultaneous first logins make one user, and none that no identity      *)
(* leads to (get_or_create_user).                                          *)
OneUserPerIdentity == users = {identity} \ {None}

(* A code opens at most one session, however many exchange it at once      *)
(* ("exactly one succeeds", service.py:224), and only for its user.        *)
CodeYieldsOneSession ==
    \A j, k \in Tokens :
      token[j].code # None /\ token[j].code = token[k].code =>
        /\ j = k
        /\ token[k].user = code[token[k].code].user

(* Once a reuse has closed the sessions of a user, a closed token is       *)
(* succeeded only by rotations that had read it before: there are never    *)
(* more such successors than rotations were under way.                     *)
ReuseClosesSessions ==
    Cardinality({k \in Tokens \ closed : token[k].from \in closed}) <= escaped
=============================================================================
