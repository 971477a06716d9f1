--------------------------- MODULE ServicesProofs ---------------------------
(***************************************************************************)
(* Proofs about what ServicesMC runs.  The first part is about sign-in,    *)
(* AuthSessions itself: simultaneous first logins make one user, a login   *)
(* code opens one session, and a reuse closes the sessions of its user,    *)
(* for any number of requests, users, tokens and codes.                    *)
(*                                                                         *)
(* That a code is exchanged once does not follow from the tokens alone:    *)
(* between the UPDATE that uses the code and the INSERT of the token, only *)
(* the request knows of it.  CodesOK says what a request, a code and a     *)
(* token know of each other.                                               *)
(*                                                                         *)
(* That closed tokens have no successors but those of rotations under way  *)
(* is a matter of counting: Accounted adds the successors there are to the *)
(* rotations still to come, and every step keeps the sum within escaped.   *)
(*                                                                         *)
(* The second part brings the proofs about Onboarding, Reminders,          *)
(* CycleCalendar, MealDrafting, FridgeStock and OrderGate to ServicesMC,   *)
(* where these run next to one another: a part that does not run stutters, *)
(* and the constants each is given satisfy the hypotheses of its proofs.   *)
(***************************************************************************)
EXTENDS ServicesMC, FiniteSetTheorems, TLAPS

RowsOK ==
    /\ identity \in Users \cup {None}
    /\ token \in [Tokens -> TokenRow]
    /\ code \in [Codes -> CodeRow]
    /\ req \in [Requests -> RequestState]

(* A request that rotates has found its token, one that logs in its user.  *)
FoundOK ==
    \A r \in Requests :
      /\ req[r].at \in {"rotate", "reuse"} => req[r].token \in Tokens
      /\ req[r].code # None => req[r].at = "user"

(* A used code belongs to one request or one token, and to its user.       *)
HeldBy(c, u) == code[c].state = "used" /\ code[c].user = u

CodesOK ==
    /\ \A r \in Requests :
         req[r].code # None => HeldBy(req[r].code, req[r].user)
    /\ \A k \in Tokens :
         token[k].code # None => HeldBy(token[k].code, token[k].user)
    /\ \A r, s \in Requests :
         req[r].code # None /\ req[r].code = req[s].code => r = s
    /\ \A j, k \in Tokens :
         token[j].code # None /\ token[j].code = token[k].code => j = k
    /\ \A r \in Requests, k \in Tokens :
         req[r].code # None => req[r].code # token[k].code

IInv == RowsOK /\ FoundOK /\ CodesOK

-----------------------------------------------------------------------------
(* At the start there are no rows.                                         *)
LEMMA Start == Init => IInv
  BY DEF Init, IInv, RowsOK, FoundOK, CodesOK, NoToken, NoCode, Idle, Holding,
         TokenRow, CodeRow, RequestState, None

(* What a request holds between its statements has its type.               *)
LEMMA HoldingTyped ==
    ASSUME NEW a \in {"idle", "unknown", "user", "rotate", "reuse"},
           NEW u \in Users \cup {None}, NEW c \in Codes \cup {None},
           NEW k \in Tokens \cup {None}
    PROVE  Holding(a, u, c, k) \in RequestState
  BY DEF Holding, RequestState

(* A request only changes what it holds itself, and to one of these.       *)
Steps(r) ==
    \E a \in {"idle", "unknown", "user", "rotate", "reuse"},
       u \in Users \cup {None}, c \in Codes \cup {None},
       k \in Tokens \cup {None} :
      /\ req' = [req EXCEPT ![r] = Holding(a, u, c, k)]
      /\ c # None => a = "user"
      /\ a \in {"rotate", "reuse"} => k \in Tokens

(* Naming what a request holds next is enough for Steps.                   *)
LEMMA StepsTo ==
    ASSUME NEW r, NEW a \in {"idle", "unknown", "user", "rotate", "reuse"},
           NEW u \in Users \cup {None}, NEW c \in Codes \cup {None},
           NEW k \in Tokens \cup {None},
           req' = [req EXCEPT ![r] = Holding(a, u, c, k)],
           c # None => a = "user",
           a \in {"rotate", "reuse"} => k \in Tokens
    PROVE  Steps(r)
  BY Zenon DEF Steps

(* Every statement of a request is such a step.                            *)
LEMMA OwnOnly ==
    ASSUME IInv, NEW r \in Requests,
           \/ LoginRead(r) \/ LoginCreate(r) \/ IssueSession(r)
           \/ IssueCode(r) \/ RotateCommit(r) \/ RevokeAll(r) \/ Abandon(r)
           \/ \E c \in Codes : ConsumeCode(r, c)
           \/ \E k \in Tokens : RotateRead(r, k)
    PROVE  Steps(r)
<1>0. None \in Users \cup {None} /\ None \in Codes \cup {None}
        /\ None \in Tokens \cup {None}
  OBVIOUS
<1>1. CASE req' = [req EXCEPT ![r] = Idle]
  BY <1>0, <1>1, StepsTo DEF Idle
<1>2. ASSUME NEW u \in Users \cup {None}, NEW c \in Codes \cup {None},
             req' = [req EXCEPT ![r] = LoggedIn(u, c)]
      PROVE Steps(r)
  BY <1>0, <1>2, StepsTo DEF LoggedIn
<1>3. CASE LoginRead(r)
  <2>1. CASE req' = [req EXCEPT ![r] = Holding("unknown", None, None, None)]
    BY <1>0, <2>1, StepsTo
  <2> QED
    BY <1>0, <1>2, <1>3, <2>1 DEF LoginRead, IInv, RowsOK
<1>4. CASE LoginCreate(r)
  BY <1>0, <1>1, <1>2, <1>4 DEF LoginCreate
<1>5. ASSUME NEW c \in Codes, ConsumeCode(r, c) PROVE Steps(r)
  <2>1. code[c].user \in Users \cup {None}
    BY DEF IInv, RowsOK, CodeRow
  <2> QED
    BY <1>2, <1>5, <2>1 DEF ConsumeCode
<1>6. ASSUME NEW k \in Tokens, RotateRead(r, k) PROVE Steps(r)
  <2>1. \/ req' = [req EXCEPT ![r] = Holding("reuse", None, None, k)]
        \/ req' = [req EXCEPT ![r] = Holding("rotate", None, None, k)]
    BY <1>6 DEF RotateRead
  <2> QED
    BY <1>0, <2>1, StepsTo
<1> QED
  BY <1>1, <1>3, <1>4, <1>5, <1>6
     DEF IssueSession, IssueCode, RotateCommit, RevokeAll, Abandon

(* A step of one request keeps types and what requests have found.         *)
LEMMA HoldingKept ==
    ASSUME IInv, NEW r \in Requests, Steps(r)
    PROVE  req' \in [Requests -> RequestState] /\ FoundOK'
<1>1. PICK a \in {"idle", "unknown", "user", "rotate", "reuse"},
           u \in Users \cup {None}, c \in Codes \cup {None},
           k \in Tokens \cup {None} :
        /\ req' = [req EXCEPT ![r] = Holding(a, u, c, k)]
        /\ c # None => a = "user"
        /\ a \in {"rotate", "reuse"} => k \in Tokens
  BY DEF Steps
<1>2. req' \in [Requests -> RequestState]
  BY <1>1, HoldingTyped DEF IInv, RowsOK
<1>3. \A s \in Requests :
        req'[s] = IF s = r THEN Holding(a, u, c, k) ELSE req[s]
  BY <1>1 DEF IInv, RowsOK
<1> QED
  BY <1>1, <1>2, <1>3 DEF IInv, FoundOK, Holding

(* Tokens and codes keep their columns.                                    *)
LEMMA RowsKept ==
    ASSUME IInv, Next
    PROVE  /\ identity' \in Users \cup {None}
           /\ token' \in [Tokens -> TokenRow]
           /\ code' \in [Codes -> CodeRow]
<1> USE DEF IInv, RowsOK
<1>0. ASSUME NEW u \in Users \cup {None}, NEW k \in Tokens \cup {None},
             NEW c \in Codes \cup {None}
      PROVE  Fresh(u, k, c) \in TokenRow
  BY DEF Fresh, TokenRow
<1>1. ASSUME NEW r \in Requests, LoginCreate(r) PROVE identity' \in Users
  BY <1>1 DEF LoginCreate
<1>2. ASSUME NEW r \in Requests, IssueSession(r)
      PROVE  token' \in [Tokens -> TokenRow]
  <2>1. Fresh(req[r].user, None, req[r].code) \in TokenRow
    BY <1>0 DEF RequestState
  <2> QED
    BY <1>2, <2>1 DEF IssueSession, Insert
<1>3. ASSUME NEW r \in Requests, IssueCode(r)
      PROVE  code' \in [Codes -> CodeRow]
  BY <1>3 DEF IssueCode, CodeRow, RequestState
<1>4. ASSUME NEW r \in Requests, NEW c \in Codes, ConsumeCode(r, c)
      PROVE  code' \in [Codes -> CodeRow]
  BY <1>4 DEF ConsumeCode, CodeRow
<1>5. ASSUME NEW r \in Requests, RotateCommit(r)
      PROVE  token' \in [Tokens -> TokenRow]
  <2>1. req[r].token \in Tokens
    BY <1>5 DEF RotateCommit, FoundOK
  <2>2. Fresh(token[req[r].token].user, req[r].token, None) \in TokenRow
    BY <1>0, <2>1 DEF TokenRow
  <2>3. [token EXCEPT ![req[r].token].state = "revoked"]
          \in [Tokens -> TokenRow]
    BY <2>1 DEF TokenRow
  <2> QED
    BY <1>5, <2>1, <2>2, <2>3 DEF RotateCommit
<1>6. ASSUME NEW r \in Requests, RevokeAll(r)
      PROVE  token' \in [Tokens -> TokenRow]
  BY <1>6 DEF RevokeAll, TokenRow
<1>7. ASSUME NEW k \in Tokens, Logout(k) \/ ExpireToken(k)
      PROVE  token' \in [Tokens -> TokenRow]
  <2>1. CASE Logout(k)
    BY <2>1 DEF Logout, TokenRow
  <2>2. CASE ExpireToken(k)
    BY <2>2 DEF ExpireToken, TokenRow
  <2> QED
    BY <1>7, <2>1, <2>2
<1>8. ASSUME NEW c \in Codes, ExpireCode(c)
      PROVE  code' \in [Codes -> CodeRow]
  BY <1>8 DEF ExpireCode, CodeRow
<1> QED
  BY <1>1, <1>2, <1>3, <1>4, <1>5, <1>6, <1>7, <1>8
     DEF Next, LoginRead, LoginCreate, IssueSession, IssueCode, ConsumeCode,
         RotateRead, RotateCommit, RevokeAll, Logout, ExpireToken,
         ExpireCode, Abandon

(* Steps that hand on no code: nobody comes to hold one, and no row that   *)
(* is held changes its code, its user or that it is used.                  *)
NoCodeMoves ==
    /\ \A r \in Requests :
         req'[r].code # None => /\ req'[r].code = req[r].code
                                /\ req'[r].user = req[r].user
    /\ \A k \in Tokens :
         token'[k].code # None => /\ token'[k].code = token[k].code
                                  /\ token'[k].user = token[k].user
    /\ \A c \in Codes, u \in Users \cup {None} :
         HeldBy(c, u) => HeldBy(c, u)'

(* Where no code changes its holder, codes stay with their holders.        *)
LEMMA CodesStay ==
    ASSUME IInv, NoCodeMoves
    PROVE  CodesOK'
<1>1. \A r \in Requests : /\ req[r].code \in Codes \cup {None}
                          /\ req[r].user \in Users \cup {None}
  BY DEF IInv, RowsOK, RequestState
<1>2. \A k \in Tokens : /\ token[k].code \in Codes \cup {None}
                        /\ token[k].user \in Users \cup {None}
  BY DEF IInv, RowsOK, TokenRow
<1>3. ASSUME NEW r \in Requests, req'[r].code # None
      PROVE  HeldBy(req[r].code, req[r].user)'
  <2>1. HeldBy(req[r].code, req[r].user)
    BY <1>3 DEF NoCodeMoves, IInv, CodesOK
  <2>2. req[r].code \in Codes /\ req[r].user \in Users \cup {None}
    BY <1>1, <1>3 DEF NoCodeMoves
  <2> QED
    BY <1>3, <2>1, <2>2 DEF NoCodeMoves, HeldBy
<1>4. ASSUME NEW k \in Tokens, token'[k].code # None
      PROVE  HeldBy(token[k].code, token[k].user)'
  <2>1. HeldBy(token[k].code, token[k].user)
    BY <1>4 DEF NoCodeMoves, IInv, CodesOK
  <2>2. token[k].code \in Codes /\ token[k].user \in Users \cup {None}
    BY <1>2, <1>4 DEF NoCodeMoves
  <2> QED
    BY <1>4, <2>1, <2>2 DEF NoCodeMoves, HeldBy
<1>5. \A r, s \in Requests :
        req'[r].code # None /\ req'[r].code = req'[s].code => r = s
  BY DEF NoCodeMoves, IInv, CodesOK
<1>6. \A j, k \in Tokens :
        token'[j].code # None /\ token'[j].code = token'[k].code => j = k
  BY DEF NoCodeMoves, IInv, CodesOK
<1>7. \A r \in Requests, k \in Tokens :
        req'[r].code # None => req'[r].code # token'[k].code
  BY DEF NoCodeMoves, IInv, CodesOK
<1> QED
  BY <1>3, <1>4, <1>5, <1>6, <1>7 DEF CodesOK

(* Every step keeps what requests, codes and tokens know of each other:    *)
(* a code passes from the request that uses it to the token it inserts.    *)
LEMMA CodesKept ==
    ASSUME IInv, Next
    PROVE  CodesOK'
<1> USE DEF IInv, RowsOK
<1>1. ASSUME NEW r \in Requests,
             \/ LoginRead(r) \/ LoginCreate(r) \/ Abandon(r)
             \/ \E k \in Tokens : RotateRead(r, k)
      PROVE  CodesOK'
  <2>1. \A s \in Requests \ {r} : req'[s] = req[s]
    BY <1>1 DEF LoginRead, LoginCreate, Abandon, RotateRead
  <2>2. req'[r].code = None
    BY <1>1 DEF LoginRead, LoginCreate, Abandon, RotateRead, Idle, LoggedIn,
                Holding
  <2>3. token' = token /\ code' = code
    BY <1>1 DEF LoginRead, LoginCreate, Abandon, RotateRead
  <2>4. NoCodeMoves
    BY <2>1, <2>2, <2>3 DEF NoCodeMoves, HeldBy
  <2> QED
    BY <2>4, CodesStay
<1>2. ASSUME NEW k \in Tokens, Logout(k) \/ ExpireToken(k)
      PROVE  CodesOK'
  <2>1. \A j \in Tokens : /\ token'[j].code = token[j].code
                          /\ token'[j].user = token[j].user
    <3>1. CASE Logout(k)
      BY <3>1 DEF Logout, TokenRow
    <3>2. CASE ExpireToken(k)
      BY <3>2 DEF ExpireToken, TokenRow
    <3> QED
      BY <1>2, <3>1, <3>2
  <2>2. req' = req /\ code' = code
    BY <1>2 DEF Logout, ExpireToken
  <2> QED
    BY <2>1, <2>2, CodesStay DEF NoCodeMoves, HeldBy
<1>3. ASSUME NEW c \in Codes, ExpireCode(c) PROVE CodesOK'
  <2>1. \A d \in Codes : /\ code'[d].state = code[d].state
                         /\ code'[d].user = code[d].user
    BY <1>3 DEF ExpireCode, CodeRow
  <2>2. req' = req /\ token' = token
    BY <1>3 DEF ExpireCode
  <2> QED
    BY <2>1, <2>2, CodesStay DEF NoCodeMoves, HeldBy
<1>4. ASSUME NEW r \in Requests, RotateCommit(r) \/ RevokeAll(r)
      PROVE  CodesOK'
  <2>1. req' = [req EXCEPT ![r] = Idle] /\ code' = code
    BY <1>4 DEF RotateCommit, RevokeAll
  <2>2. \A s \in Requests : req'[s].code # None => req'[s] = req[s]
    BY <2>1 DEF Idle, Holding
  <2>3. \A j \in Tokens :
          token'[j].code # None => /\ token'[j].code = token[j].code
                                   /\ token'[j].user = token[j].user
    <3>1. CASE RotateCommit(r)
      <4>1. req[r].token \in Tokens
        BY <3>1 DEF RotateCommit, FoundOK
      <4>2. PICK k \in Tokens :
              token' = [token EXCEPT
                          ![req[r].token].state = "revoked",
                          ![k] = Fresh(token[req[r].token].user,
                                       req[r].token, None)]
        BY <3>1 DEF RotateCommit
      <4>3. token'[k].code = None
        BY <4>1, <4>2 DEF Fresh
      <4>4. \A j \in Tokens \ {k} : /\ token'[j].code = token[j].code
                                    /\ token'[j].user = token[j].user
        BY <4>1, <4>2 DEF TokenRow
      <4> QED
        BY <4>3, <4>4
    <3>2. CASE RevokeAll(r)
      BY <3>2 DEF RevokeAll, TokenRow
    <3> QED
      BY <1>4, <3>1, <3>2
  <2> QED
    BY <2>1, <2>2, <2>3, CodesStay DEF NoCodeMoves, HeldBy
<1>5. ASSUME NEW r \in Requests, IssueCode(r) PROVE CodesOK'
  <2>1. PICK c \in Codes :
          /\ NextCode(c)
          /\ code' = [code EXCEPT ![c] = [state |-> "fresh", expired |-> FALSE,
                                          user |-> req[r].user]]
    BY <1>5 DEF IssueCode
  <2>2. code[c].state = "absent"
    BY <2>1 DEF NextCode, Codes
  <2>3. req' = [req EXCEPT ![r] = Idle] /\ token' = token
    BY <1>5 DEF IssueCode
  <2>4. \A s \in Requests : req'[s].code # None => req'[s] = req[s]
    BY <2>3 DEF Idle, Holding
  <2>5. \A d \in Codes, u \in Users \cup {None} :
          HeldBy(d, u) => HeldBy(d, u)'
    BY <2>1, <2>2 DEF HeldBy
  <2> QED
    BY <2>3, <2>4, <2>5, CodesStay DEF NoCodeMoves
<1>6. ASSUME NEW r \in Requests, NEW c \in Codes, ConsumeCode(r, c)
      PROVE  CodesOK'
  <2>1. code[c].state = "fresh"
    BY <1>6 DEF ConsumeCode, Consumable
  <2>2. /\ \A s \in Requests : req[s].code # c
        /\ \A k \in Tokens : token[k].code # c
    BY <2>1 DEF CodesOK, HeldBy, Codes, None
  <2>3. req' = [req EXCEPT ![r] = LoggedIn(code[c].user, c)] /\ token' = token
    BY <1>6 DEF ConsumeCode
  <2>4. \A s \in Requests :
          req'[s] = IF s = r THEN LoggedIn(code[c].user, c) ELSE req[s]
    BY <2>3
  <2>5. /\ LoggedIn(code[c].user, c).code = c
        /\ LoggedIn(code[c].user, c).user = code[c].user
    BY DEF LoggedIn, Holding
  <2>6. \A d \in Codes : /\ code'[d].user = code[d].user
                         /\ code[d].state = "used" => code'[d].state = "used"
    BY <1>6 DEF ConsumeCode, CodeRow
  <2>7. code'[c].state = "used"
    BY <1>6 DEF ConsumeCode, CodeRow
  <2>8. /\ \A s \in Requests : req[s].code \in Codes \cup {None}
        /\ \A k \in Tokens : token[k].code \in Codes \cup {None}
    BY DEF RequestState, TokenRow
  <2> QED
    BY <2>2, <2>3, <2>4, <2>5, <2>6, <2>7, <2>8 DEF CodesOK, HeldBy
<1>7. ASSUME NEW r \in Requests, IssueSession(r) PROVE CodesOK'
  <2>1. PICK k \in Tokens :
          token' = [token EXCEPT ![k] = Fresh(req[r].user, None, req[r].code)]
    BY <1>7 DEF IssueSession, Insert
  <2>2. req' = [req EXCEPT ![r] = Idle] /\ code' = code
    BY <1>7 DEF IssueSession
  <2>3. \A j \in Tokens :
          token'[j] = IF j = k THEN Fresh(req[r].user, None, req[r].code)
                      ELSE token[j]
    BY <2>1
  <2>4. \A s \in Requests : req'[s] = IF s = r THEN Idle ELSE req[s]
    BY <2>2
  <2>5. /\ Fresh(req[r].user, None, req[r].code).code = req[r].code
        /\ Fresh(req[r].user, None, req[r].code).user = req[r].user
        /\ Idle.code = None
    BY DEF Fresh, Idle, Holding
  <2> QED
    BY <2>2, <2>3, <2>4, <2>5 DEF CodesOK, HeldBy
<1> QED
  BY <1>1, <1>2, <1>3, <1>4, <1>5, <1>6, <1>7 DEF Next

-----------------------------------------------------------------------------
(* Every step keeps the inductive invariant.                               *)
LEMMA StepKeeps == IInv /\ [Next]_vars => IInv'
<1>1. ASSUME IInv, Next PROVE IInv'
  <2>1. ASSUME NEW r \in Requests, Steps(r) PROVE RowsOK' /\ FoundOK'
    BY <1>1, <2>1, HoldingKept, RowsKept DEF RowsOK
  <2>2. CASE req' = req
    <3>1. RowsOK'
      BY <1>1, <2>2, RowsKept DEF IInv, RowsOK
    <3> QED
      BY <1>1, <2>2, <3>1, CodesKept DEF IInv, FoundOK
  <2>3. CASE \E r \in Requests : Steps(r)
    BY <1>1, <2>1, <2>3, CodesKept DEF IInv
  <2> QED
    BY <1>1, <2>2, <2>3, OwnOnly DEF Next, Logout, ExpireToken, ExpireCode
<1>2. CASE UNCHANGED vars
  BY <1>2 DEF vars, IInv, RowsOK, FoundOK, CodesOK, HeldBy
<1> QED
  BY <1>1, <1>2

(* The invariant: what requests, codes and tokens know of each other, in   *)
(* every reachable state.                                                  *)
THEOREM Inductive == Spec => []IInv
  BY Start, StepKeeps, PTL DEF Spec

(* A login code opens one session and only for its user, however many      *)
(* requests exchange it at once (consume_app_login_code).                  *)
THEOREM OneSessionPerCode == Spec => []CodeYieldsOneSession
<1>1. IInv => CodeYieldsOneSession
  BY DEF IInv, CodesOK, HeldBy, CodeYieldsOneSession
<1> QED
  BY <1>1, Inductive, PTL

(* First logins with one account, however many at once, leave one user     *)
(* and no user without an identity (get_or_create_user).                   *)
THEOREM OneUser == Spec => []OneUserPerIdentity
<1> DEFINE One == OneUserPerIdentity /\ identity \in Users \cup {None}
<1>1. Init => One
  BY DEF Init, OneUserPerIdentity
<1>2. One /\ [Next]_vars => One'
  <2> SUFFICES ASSUME One, [Next]_vars PROVE One'
    OBVIOUS
  <2>1. ASSUME NEW r \in Requests, LoginCreate(r) PROVE One'
    BY <2>1 DEF LoginCreate, OneUserPerIdentity, Users, None
  <2>2. CASE UNCHANGED <<users, identity>>
    BY <2>2 DEF OneUserPerIdentity
  <2> QED
    BY <2>1, <2>2
       DEF Next, vars, LoginRead, IssueSession, IssueCode, ConsumeCode,
           RotateRead, RotateCommit, RevokeAll, Logout, ExpireToken,
           ExpireCode, Abandon
<1> QED
  BY <1>1, <1>2, PTL DEF Spec

-----------------------------------------------------------------------------
(* Reuse of a revoked token.  That a closed token has no more successors   *)
(* than rotations were under way needs a count of what is still under way  *)
(* (Accounted), and that successors belong to the user of the token they   *)
(* come from (FamilyOK): otherwise closing one user's tokens would make    *)
(* successors of another's.                                                *)

FamilyOK ==
    /\ \A c \in Codes : code[c].state # "absent" => code[c].user # None
    /\ \A r \in Requests :
         /\ req[r].at = "user" => req[r].user # None
         /\ req[r].at \in {"rotate", "reuse"} =>
                token[req[r].token].state # "absent"
    /\ \A k \in Tokens :
         /\ token[k].state = "absent" =>
                token[k].user = None /\ token[k].from = None
         /\ token[k].state # "absent" => token[k].user # None
         /\ token[k].from # None =>
                /\ token[token[k].from].state # "absent"
                /\ token[token[k].from].user = token[k].user
         /\ k \in closed => token[k].state = "revoked"
    /\ closed \subseteq Tokens

Issued == {k \in Tokens : token[k].state # "absent"}
Busy == {r \in Requests : req[r].at # "idle"}
Successors == {k \in Tokens \ closed : token[k].from \in closed}
Pending == {s \in Requests : req[s].at = "rotate" /\ req[s].token \in closed}

FiniteOK == IsFiniteSet(Issued) /\ IsFiniteSet(Busy)
Accounted ==
    /\ escaped \in Nat
    /\ Cardinality(Successors) + Cardinality(Pending) <= escaped

ReuseInv == IInv /\ FamilyOK /\ FiniteOK /\ Accounted

(* A finite set that gains one element at most stays finite.               *)
LEMMA FiniteByOne ==
    ASSUME NEW S, IsFiniteSet(S), NEW T, NEW x, T \subseteq S \cup {x}
    PROVE  IsFiniteSet(T)
<1>1. IsFiniteSet(S \cup {x})
  BY FS_AddElement
<1> QED
  BY <1>1, FS_Subset

(* A subset of a finite set has no more elements.                          *)
LEMMA Smaller ==
    ASSUME NEW S, IsFiniteSet(S), NEW T \in SUBSET S
    PROVE  /\ Cardinality(T) \in Nat /\ Cardinality(S) \in Nat
           /\ Cardinality(T) <= Cardinality(S)
<1>1. IsFiniteSet(T) /\ Cardinality(T) <= Cardinality(S)
  BY FS_Subset
<1> QED
  BY <1>1, FS_CardinalityType

(* Tokens that are numbered next do not exist yet.                         *)
LEMMA NextIsAbsent ==
    ASSUME NEW k \in Tokens, NextToken(k)
    PROVE  token[k].state = "absent"
  BY DEF NextToken, Tokens

(* A session or a rotation inserts one row and revokes another at most.    *)
Inserts(k, row) ==
    /\ token'[k] = row /\ token[k].state = "absent"
    /\ \A j \in Tokens \ {k} :
         /\ token'[j].user = token[j].user /\ token'[j].from = token[j].from
         /\ token'[j].state \in {token[j].state, "revoked"}
         /\ token[j].state = "absent" => token'[j].state = "absent"

(* issue_session inserts one token and changes no other.                   *)
LEMMA IssueInserts ==
    ASSUME IInv, NEW r \in Requests, IssueSession(r)
    PROVE  \E k \in Tokens : Inserts(k, Fresh(req[r].user, None, req[r].code))
<1>1. PICK k \in Tokens : Insert(k, Fresh(req[r].user, None, req[r].code))
  BY DEF IssueSession
<1>2. token[k].state = "absent"
  BY <1>1, NextIsAbsent DEF Insert
<1> QED
  BY <1>1, <1>2 DEF Insert, Inserts, IInv, RowsOK

(* A rotation inserts one token and changes the one it rotates.            *)
LEMMA RotateInserts ==
    ASSUME IInv, FamilyOK, NEW r \in Requests, RotateCommit(r)
    PROVE  /\ req[r].token \in Tokens
           /\ \E k \in Tokens \ {req[r].token} :
                Inserts(k, Fresh(token[req[r].token].user, req[r].token, None))
<1> DEFINE j == req[r].token
<1>1. j \in Tokens /\ token[j].state # "absent"
  BY DEF IInv, FoundOK, FamilyOK, RotateCommit
<1>2. PICK k \in Tokens :
        /\ NextToken(k)
        /\ token' = [token EXCEPT ![j].state = "revoked",
                                  ![k] = Fresh(token[j].user, j, None)]
  BY DEF RotateCommit
<1>3. token[k].state = "absent" /\ k # j
  BY <1>1, <1>2, NextIsAbsent
<1>4. \A i \in Tokens \ {k} :
        token'[i] = IF i = j THEN [token[i] EXCEPT !.state = "revoked"]
                    ELSE token[i]
  BY <1>1, <1>2 DEF IInv, RowsOK
<1>5. token'[k] = Fresh(token[j].user, j, None)
  BY <1>1, <1>2 DEF IInv, RowsOK
<1> HIDE DEF j
<1>6. ASSUME NEW i \in Tokens \ {k}
      PROVE  /\ token'[i].user = token[i].user /\ token'[i].from = token[i].from
             /\ token'[i].state = IF i = j THEN "revoked" ELSE token[i].state
  <2>1. token[i] \in TokenRow
    BY DEF IInv, RowsOK
  <2> QED
    BY <1>4, <2>1 DEF TokenRow
<1>7. Inserts(k, Fresh(token[j].user, j, None))
  BY <1>1, <1>3, <1>5, <1>6 DEF Inserts
<1> QED
  BY <1>1, <1>3, <1>7 DEF j

(* Tokens, their users and their successors stay consistent.               *)
LEMMA FamilyKept ==
    ASSUME IInv, FamilyOK, Next
    PROVE  FamilyOK'
<1> USE DEF IInv, RowsOK
<1>1. ASSUME NEW r \in Requests,
             LoginRead(r) \/ LoginCreate(r) \/ Abandon(r)
      PROVE  FamilyOK'
  <2>1. /\ \A s \in Requests \ {r} : req'[s] = req[s]
        /\ req'[r].at \in {"idle", "unknown", "user"}
        /\ req'[r].at = "user" => req'[r].user # None
        /\ UNCHANGED <<token, code, closed>>
    BY <1>1 DEF LoginRead, LoginCreate, Abandon, Idle, LoggedIn, Holding,
                Users, None
  <2> QED
    BY <2>1 DEF FamilyOK
<1>2. ASSUME NEW r \in Requests, NEW k \in Tokens, RotateRead(r, k)
      PROVE  FamilyOK'
  <2>1. /\ \A s \in Requests \ {r} : req'[s] = req[s]
        /\ req'[r].at # "user" /\ req'[r].token = k
        /\ token[k].state # "absent"
        /\ UNCHANGED <<token, code, closed>>
    BY <1>2 DEF RotateRead, Holding
  <2> QED
    BY <2>1 DEF FamilyOK
<1>3. ASSUME NEW r \in Requests, NEW c \in Codes, ConsumeCode(r, c)
      PROVE  FamilyOK'
  <2>1. /\ \A s \in Requests \ {r} : req'[s] = req[s]
        /\ req'[r].at = "user" /\ req'[r].user = code[c].user
        /\ code[c].state # "absent" /\ UNCHANGED <<token, closed>>
    BY <1>3 DEF ConsumeCode, Consumable, LoggedIn, Holding
  <2>2. \A d \in Codes : /\ code'[d].user = code[d].user
                         /\ code'[d].state # "absent"
                                => code[d].state # "absent"
    BY <1>3 DEF ConsumeCode, Consumable, CodeRow
  <2> QED
    BY <2>1, <2>2 DEF FamilyOK
<1>4. ASSUME NEW r \in Requests, IssueCode(r) PROVE FamilyOK'
  <2>1. PICK c \in Codes :
          code' = [code EXCEPT ![c] = [state |-> "fresh", expired |-> FALSE,
                                       user |-> req[r].user]]
    BY <1>4 DEF IssueCode
  <2>2. /\ req' = [req EXCEPT ![r] = Idle] /\ UNCHANGED <<token, closed>>
        /\ req[r].user # None
    BY <1>4 DEF IssueCode, FamilyOK
  <2>3. \A s \in Requests : req'[s].at # "idle" => req'[s] = req[s]
    BY <2>2 DEF Idle, Holding
  <2>4. \A d \in Codes : code'[d].state # "absent" => code'[d].user # None
    BY <2>1, <2>2 DEF FamilyOK
  <2> QED
    BY <2>2, <2>3, <2>4 DEF FamilyOK
<1>5. ASSUME NEW c \in Codes, ExpireCode(c) PROVE FamilyOK'
  <2>1. /\ \A d \in Codes : /\ code'[d].user = code[d].user
                            /\ code'[d].state = code[d].state
        /\ UNCHANGED <<token, req, closed>>
    BY <1>5 DEF ExpireCode, CodeRow
  <2> QED
    BY <2>1 DEF FamilyOK
<1>6. ASSUME NEW k \in Tokens, Logout(k) \/ ExpireToken(k) PROVE FamilyOK'
  <2>1. /\ \A j \in Tokens : /\ token'[j].user = token[j].user
                             /\ token'[j].from = token[j].from
                             /\ token'[j].state = token[j].state
                                  \/ (token[j].state = "live"
                                      /\ token'[j].state = "revoked")
        /\ UNCHANGED <<code, req, closed>>
    BY <1>6 DEF Logout, ExpireToken, TokenRow
  <2>2. \A r \in Requests : req[r].at \in {"rotate", "reuse"}
                               => req[r].token \in Tokens
    BY DEF FoundOK
  <2>3. \A j \in Tokens : token[j].from \in Tokens \cup {None}
    BY DEF TokenRow
  <2> QED
    BY <2>1, <2>2, <2>3 DEF FamilyOK
<1>7. ASSUME NEW r \in Requests, RevokeAll(r) PROVE FamilyOK'
  <2> DEFINE u == token[req[r].token].user
  <2>1. u # None /\ req[r].token \in Tokens
    BY <1>7 DEF RevokeAll, FamilyOK, FoundOK
  <2>2. \A j \in Tokens : token[j].user = u => token[j].state # "absent"
    BY <2>1 DEF FamilyOK
  <2>3. \A j \in Tokens :
          /\ token'[j].user = token[j].user /\ token'[j].from = token[j].from
          /\ token'[j].state = IF token[j].user = u THEN "revoked"
                               ELSE token[j].state
    BY <1>7 DEF RevokeAll, OfUser, TokenRow
  <2>4. /\ \A j \in Tokens : j \in closed' <=> j \in closed \/ token[j].user = u
        /\ closed' \subseteq Tokens
    BY <1>7 DEF RevokeAll, OfUser, FamilyOK
  <2>5. /\ req' = [req EXCEPT ![r] = Idle] /\ code' = code
    BY <1>7 DEF RevokeAll
  <2>6. \A s \in Requests : req'[s].at # "idle" => req'[s] = req[s]
    BY <2>5 DEF Idle, Holding
  <2>7. \A s \in Requests : req[s].at \in {"rotate", "reuse"}
                               => req[s].token \in Tokens
    BY DEF FoundOK
  <2>8. \A j \in Tokens : token[j].from \in Tokens \cup {None}
    BY DEF TokenRow
  <2> HIDE DEF u
  <2> QED
    BY <2>2, <2>3, <2>4, <2>5, <2>6, <2>7, <2>8 DEF FamilyOK
<1>8. ASSUME NEW r \in Requests, IssueSession(r) \/ RotateCommit(r)
      PROVE  FamilyOK'
  <2>1. PICK k, u, f, c :
          /\ k \in Tokens /\ Inserts(k, Fresh(u, f, c)) /\ u # None
          /\ f # None => /\ f \in Tokens \ {k} /\ token[f].state # "absent"
                         /\ token[f].user = u
    <3>1. CASE IssueSession(r)
      <4>1. req[r].user # None
        BY <3>1 DEF IssueSession, FamilyOK
      <4> QED
        BY <3>1, <4>1, IssueInserts
    <3>2. CASE RotateCommit(r)
      <4>1. /\ token[req[r].token].state # "absent"
            /\ token[req[r].token].user # None /\ req[r].token \in Tokens
        BY <3>2, RotateInserts DEF RotateCommit, FamilyOK
      <4> QED
        BY <3>2, <4>1, RotateInserts
    <3> QED
      BY <1>8, <3>1, <3>2
  <2>2. /\ req' = [req EXCEPT ![r] = Idle] /\ UNCHANGED <<code, closed>>
    BY <1>8 DEF IssueSession, RotateCommit
  <2>3. \A s \in Requests : req'[s].at # "idle" => req'[s] = req[s]
    BY <2>2 DEF Idle, Holding
  <2>4. \A s \in Requests : req[s].at \in {"rotate", "reuse"}
                               => req[s].token \in Tokens
    BY DEF FoundOK
  <2>5. /\ token'[k].state = "live" /\ token'[k].user = u
        /\ token'[k].from = f /\ token[k].state = "absent" /\ k \notin closed
    BY <2>1 DEF Inserts, Fresh, FamilyOK
  <2>6. \A j \in Tokens \ {k} :
          /\ token'[j].user = token[j].user /\ token'[j].from = token[j].from
          /\ token'[j].state \in {token[j].state, "revoked"}
          /\ token[j].state = "absent" => token'[j].state = "absent"
    BY <2>1 DEF Inserts
  <2>7. \A j \in Tokens : token[j].from \in Tokens \cup {None}
    BY DEF TokenRow
  <2>8. \A j \in Tokens : token'[j].from # None =>
          /\ token'[token'[j].from].state # "absent"
          /\ token'[token'[j].from].user = token'[j].user
    BY <2>1, <2>5, <2>6, <2>7 DEF FamilyOK
  <2>9. \A j \in Tokens :
          /\ token'[j].state = "absent" =>
                token'[j].user = None /\ token'[j].from = None
          /\ token'[j].state # "absent" => token'[j].user # None
          /\ j \in closed => token'[j].state = "revoked"
    BY <2>1, <2>5, <2>6 DEF FamilyOK
  <2>10. \A s \in Requests :
           /\ req'[s].at = "user" => req'[s].user # None
           /\ req'[s].at \in {"rotate", "reuse"} =>
                token'[req'[s].token].state # "absent"
    BY <2>3, <2>4, <2>5, <2>6 DEF FamilyOK
  <2> QED
    BY <2>2, <2>8, <2>9, <2>10 DEF FamilyOK
<1> QED
  BY <1>1, <1>2, <1>3, <1>4, <1>5, <1>6, <1>7, <1>8 DEF Next

(* Finitely many tokens exist and finitely many requests are under way.    *)
LEMMA FiniteKept ==
    ASSUME IInv, FamilyOK, FiniteOK, Next
    PROVE  FiniteOK'
<1> USE DEF IInv, RowsOK
<1>1. IsFiniteSet(Busy')
  <2>1. CASE req' = req
    BY <2>1 DEF FiniteOK, Busy
  <2>2. ASSUME NEW r \in Requests, Steps(r) PROVE IsFiniteSet(Busy')
    <3>1. \A s \in Requests \ {r} : req'[s] = req[s]
      BY <2>2 DEF Steps
    <3>2. Busy' \subseteq Busy \cup {r}
      BY <3>1 DEF Busy
    <3> QED
      BY <3>2, FiniteByOne DEF FiniteOK
  <2> QED
    BY <2>1, <2>2, OwnOnly DEF Next, Logout, ExpireToken, ExpireCode
<1>2. IsFiniteSet(Issued')
  <2>1. ASSUME NEW k, \A j \in Tokens \ {k} : token[j].state = "absent"
                                               => token'[j].state = "absent"
        PROVE  IsFiniteSet(Issued')
    <3>1. Issued' \subseteq Issued \cup {k}
      BY <2>1 DEF Issued
    <3> QED
      BY <3>1, FiniteByOne DEF FiniteOK
  <2>2. ASSUME NEW r \in Requests, IssueSession(r) \/ RotateCommit(r)
        PROVE  IsFiniteSet(Issued')
    BY <2>1, <2>2, IssueInserts, RotateInserts DEF Inserts
  <2>3. ASSUME NEW r \in Requests, RevokeAll(r) PROVE IsFiniteSet(Issued')
    <3>1. token[req[r].token].user # None
      BY <2>3 DEF RevokeAll, FoundOK, FamilyOK
    <3>2. \A j \in Tokens : token[j].state = "absent" => token'[j] = token[j]
      BY <2>3, <3>1 DEF RevokeAll, OfUser, FamilyOK
    <3> QED
      BY <2>1, <3>2
  <2>4. ASSUME NEW k \in Tokens, Logout(k) \/ ExpireToken(k)
        PROVE  IsFiniteSet(Issued')
    <3>1. \A j \in Tokens \ {k} : token'[j] = token[j]
      BY <2>4 DEF Logout, ExpireToken
    <3> QED
      BY <2>1, <3>1
  <2>5. CASE UNCHANGED token
    BY <2>5 DEF FiniteOK, Issued
  <2> QED
    BY <2>2, <2>3, <2>4, <2>5
       DEF Next, LoginRead, LoginCreate, IssueCode, ConsumeCode, RotateRead,
           ExpireCode, Abandon
<1> QED
  BY <1>1, <1>2 DEF FiniteOK, Busy, Issued

(* Nothing is owed anew while nothing is closed and no closed token gets a *)
(* successor or a rotation.                                                *)
LEMMA NoneOwed ==
    ASSUME FiniteOK, FamilyOK, Accounted, UNCHANGED escaped,
           Successors' \subseteq Successors, Pending' \subseteq Pending
    PROVE  Accounted'
<1>1. Successors \in SUBSET Issued /\ Pending \in SUBSET Busy
  BY DEF Successors, Pending, Issued, Busy, FamilyOK, None, Tokens
<1>2. IsFiniteSet(Successors) /\ IsFiniteSet(Pending)
  BY <1>1, FS_Subset DEF FiniteOK
<1>3. /\ Cardinality(Successors') <= Cardinality(Successors)
      /\ Cardinality(Successors') \in Nat /\ Cardinality(Successors) \in Nat
  BY <1>2, Smaller
<1>4. /\ Cardinality(Pending') <= Cardinality(Pending)
      /\ Cardinality(Pending') \in Nat /\ Cardinality(Pending) \in Nat
  BY <1>2, Smaller
<1>5. escaped' \in Nat
      /\ Cardinality(Successors') + Cardinality(Pending') <= escaped'
  BY <1>3, <1>4 DEF Accounted
<1> QED
  BY <1>5 DEF Accounted, Successors, Pending

(* What is accounted for is finite at any time.                            *)
LEMMA OwedIsFinite ==
    ASSUME FiniteOK, FamilyOK
    PROVE  /\ IsFiniteSet(Successors) /\ Cardinality(Successors) \in Nat
           /\ IsFiniteSet(Pending) /\ Cardinality(Pending) \in Nat
<1>1. Successors \in SUBSET Issued /\ Pending \in SUBSET Busy
  BY DEF Successors, Pending, Issued, Busy, FamilyOK, None, Tokens
<1>2. IsFiniteSet(Successors) /\ IsFiniteSet(Pending)
  BY <1>1, FS_Subset DEF FiniteOK
<1> QED
  BY <1>2, FS_CardinalityType

(* A rotation that had read a token before it was closed pays for the      *)
(* successor it makes.                                                     *)
LEMMA RotationAccounted ==
    ASSUME IInv, FamilyOK, FiniteOK, Accounted,
           NEW r \in Requests, RotateCommit(r)
    PROVE  Accounted'
<1> DEFINE j == req[r].token
<1>1. PICK k \in Tokens \ {j} :
         Inserts(k, Fresh(token[j].user, j, None))
  BY RotateInserts
<1>2. j \in Tokens /\ req[r].at = "rotate"
  BY RotateInserts DEF RotateCommit
<1>3. UNCHANGED <<closed, escaped>>
  BY DEF RotateCommit
<1>4. /\ token'[k].from = j /\ k \notin closed /\ token[k].from = None
      /\ \A i \in Tokens \ {k} : token'[i].from = token[i].from
  BY <1>1 DEF Inserts, Fresh, FamilyOK
<1>5. /\ req'[r].at = "idle"
      /\ \A s \in Requests \ {r} : req'[s] = req[s]
  BY DEF RotateCommit, Idle, Holding, IInv, RowsOK
<1>6. None \notin closed
  BY DEF FamilyOK, None, Tokens
<1>7. CASE j \in closed
  <2>1. Successors' = Successors \cup {k} /\ k \notin Successors
    BY <1>3, <1>4, <1>6, <1>7 DEF Successors
  <2>2. Pending' = Pending \ {r} /\ r \in Pending
    BY <1>2, <1>3, <1>5, <1>7 DEF Pending
  <2>3. Cardinality(Successors \cup {k}) = Cardinality(Successors) + 1
    BY <2>1, OwedIsFinite, FS_AddElement
  <2>4. Cardinality(Pending \ {r}) = Cardinality(Pending) - 1
    BY <2>2, OwedIsFinite, FS_RemoveElement
  <2>5. Cardinality(Successors') = Cardinality(Successors) + 1
    BY <2>1, <2>3
  <2>6. Cardinality(Pending') = Cardinality(Pending) - 1
    BY <2>2, <2>4
  <2>7. /\ escaped' \in Nat
        /\ Cardinality(Successors') + Cardinality(Pending') <= escaped'
    BY <1>3, <2>5, <2>6, OwedIsFinite DEF Accounted
  <2> QED
    BY <2>7 DEF Accounted, Successors, Pending
<1>8. CASE j \notin closed
  <2>1. Successors' \subseteq Successors
    BY <1>3, <1>4, <1>8 DEF Successors
  <2>2. Pending' \subseteq Pending
    BY <1>3, <1>5 DEF Pending
  <2> QED
    BY <1>3, <2>1, <2>2, NoneOwed
<1> QED
  BY <1>7, <1>8

(* Closing the tokens of a user adds the rotations that are under way to   *)
(* what is accounted for, and no successor.                                *)
LEMMA ClosingAccounted ==
    ASSUME IInv, FamilyOK, FiniteOK, Accounted,
           NEW r \in Requests, RevokeAll(r)
    PROVE  Accounted'
<1> DEFINE u == token[req[r].token].user
<1>1. /\ closed' = closed \cup OfUser(u)
      /\ escaped' = escaped + Cardinality(UnderWay(u))
      /\ \A k \in Tokens : token'[k].from = token[k].from
  BY DEF RevokeAll, OfUser, IInv, RowsOK, TokenRow
<1>2. u # None
  BY DEF RevokeAll, FamilyOK, IInv, FoundOK
<1>3. /\ req[r].at = "reuse" /\ req'[r].at = "idle"
      /\ \A s \in Requests \ {r} : req'[s] = req[s]
  BY DEF RevokeAll, Idle, Holding, IInv, RowsOK
<1>4. Successors' \in SUBSET Successors
  <2> SUFFICES ASSUME NEW k \in Tokens, k \notin closed, k \notin OfUser(u),
                      token[k].from \in closed \cup OfUser(u)
               PROVE  token[k].from \in closed
    BY <1>1 DEF Successors
  <2>1. token[k].from \in OfUser(u) => token[k].user = u
    BY DEF OfUser, FamilyOK, Tokens, None
  <2> QED
    BY <2>1 DEF OfUser
<1>5. Pending' = Pending \cup UnderWay(u) /\ Pending \cap UnderWay(u) = {}
  <2>1. \A s \in Requests : req'[s].at = "rotate" <=> req[s].at = "rotate"
    BY <1>3
  <2>2. \A s \in Requests : req[s].at = "rotate" => req'[s] = req[s]
    BY <1>3
  <2> HIDE DEF u
  <2> QED
    BY <1>1, <2>1, <2>2 DEF Pending, UnderWay
<1>6. IsFiniteSet(UnderWay(u)) /\ Cardinality(UnderWay(u)) \in Nat
  <2>1. UnderWay(u) \in SUBSET Busy
    BY DEF UnderWay, Busy
  <2>2. IsFiniteSet(UnderWay(u))
    BY <2>1, FS_Subset DEF FiniteOK
  <2> QED
    BY <2>2, FS_CardinalityType
<1>7. Cardinality(Pending') = Cardinality(Pending) + Cardinality(UnderWay(u))
  <2>1. Cardinality(Pending \cup UnderWay(u))
           = Cardinality(Pending) + Cardinality(UnderWay(u))
                - Cardinality(Pending \cap UnderWay(u))
    BY <1>6, OwedIsFinite, FS_Union
  <2>2. Cardinality(Pending \cap UnderWay(u)) = 0
    BY <1>5, FS_EmptySet
  <2>3. Cardinality(Pending') = Cardinality(Pending \cup UnderWay(u))
    BY <1>5
  <2> HIDE DEF u
  <2> QED
    BY <1>6, <2>1, <2>2, <2>3, OwedIsFinite
<1>8. /\ Cardinality(Successors') <= Cardinality(Successors)
      /\ Cardinality(Successors') \in Nat
  BY <1>4, OwedIsFinite, Smaller
<1>9. /\ escaped' \in Nat
      /\ Cardinality(Successors') + Cardinality(Pending') <= escaped'
  <2> HIDE DEF u
  <2> QED
    BY <1>1, <1>6, <1>7, <1>8, OwedIsFinite DEF Accounted
<1> QED
  BY <1>9 DEF Accounted, Successors, Pending

(* Every step keeps the account of escaped rotations.                      *)
LEMMA AccountedKept ==
    ASSUME IInv, FamilyOK, FiniteOK, Accounted, Next
    PROVE  Accounted'
<1>0. None \notin closed
  BY DEF FamilyOK, None, Tokens
<1>1. ASSUME NEW r \in Requests,
             \/ LoginRead(r) \/ LoginCreate(r) \/ IssueCode(r) \/ Abandon(r)
             \/ \E c \in Codes : ConsumeCode(r, c)
             \/ \E k \in Tokens : RotateRead(r, k)
      PROVE  Accounted'
  <2>1. /\ \A s \in Requests \ {r} : req'[s] = req[s]
        /\ UNCHANGED <<token, closed, escaped>>
    BY <1>1 DEF LoginRead, LoginCreate, IssueCode, Abandon, ConsumeCode,
                RotateRead, IInv, RowsOK
  <2>2. req'[r].at = "rotate" => req'[r].token \notin closed
    BY <1>1 DEF LoginRead, LoginCreate, IssueCode, Abandon, ConsumeCode,
                RotateRead, Idle, LoggedIn, Holding, FamilyOK, IInv, RowsOK
  <2>3. Successors' \subseteq Successors /\ Pending' \subseteq Pending
    BY <2>1, <2>2 DEF Successors, Pending
  <2> QED
    BY <2>1, <2>3, NoneOwed
<1>2. ASSUME NEW r \in Requests, IssueSession(r) PROVE Accounted'
  <2>1. PICK k \in Tokens : Inserts(k, Fresh(req[r].user, None, req[r].code))
    BY <1>2, IssueInserts
  <2>2. /\ token'[k].from = None
        /\ \A j \in Tokens \ {k} : token'[j].from = token[j].from
    BY <2>1 DEF Inserts, Fresh
  <2>3. /\ req' = [req EXCEPT ![r] = Idle] /\ UNCHANGED <<closed, escaped>>
    BY <1>2 DEF IssueSession
  <2>4. \A s \in Requests : req'[s].at = "rotate" => req'[s] = req[s]
    BY <2>3 DEF Idle, Holding, IInv, RowsOK
  <2>5. Successors' \subseteq Successors /\ Pending' \subseteq Pending
    BY <1>0, <2>2, <2>3, <2>4 DEF Successors, Pending
  <2> QED
    BY <2>3, <2>5, NoneOwed
<1>3. ASSUME NEW k \in Tokens, Logout(k) \/ ExpireToken(k) PROVE Accounted'
  <2>1. /\ \A j \in Tokens : token'[j].from = token[j].from
        /\ UNCHANGED <<req, closed, escaped>>
    BY <1>3 DEF Logout, ExpireToken, IInv, RowsOK, TokenRow
  <2>2. Successors' \subseteq Successors /\ Pending' \subseteq Pending
    BY <2>1 DEF Successors, Pending
  <2> QED
    BY <2>1, <2>2, NoneOwed
<1>4. ASSUME NEW c \in Codes, ExpireCode(c) PROVE Accounted'
  BY <1>4 DEF ExpireCode, Accounted, Successors, Pending
<1> QED
  BY <1>1, <1>2, <1>3, <1>4, RotationAccounted, ClosingAccounted DEF Next

(* At the start nothing is closed and nothing is owed.                     *)
LEMMA StartAccounted == Init => ReuseInv
<1> SUFFICES ASSUME Init PROVE ReuseInv
  OBVIOUS
<1>1. FamilyOK
  BY DEF Init, FamilyOK, NoToken, NoCode, Idle, Holding, None
<1>2. Issued = {} /\ Busy = {} /\ Successors = {} /\ Pending = {}
  BY DEF Init, Issued, Busy, Successors, Pending, NoToken, Idle, Holding
<1>3. escaped = 0
  BY DEF Init
<1> QED
  BY <1>1, <1>2, <1>3, Start, FS_EmptySet DEF ReuseInv, FiniteOK, Accounted

(* What the account of escaped rotations rests on is kept by every step.   *)
LEMMA ReuseStep == ReuseInv /\ [Next]_vars => ReuseInv'
<1> SUFFICES ASSUME ReuseInv, [Next]_vars PROVE ReuseInv'
  OBVIOUS
<1>1. IInv'
  BY StepKeeps DEF ReuseInv
<1>2. CASE Next
  BY <1>1, <1>2, FamilyKept, FiniteKept, AccountedKept DEF ReuseInv
<1>3. CASE UNCHANGED vars
  <2>1. FamilyOK' /\ FiniteOK' /\ Accounted'
    BY <1>3 DEF vars, ReuseInv, FamilyOK, FiniteOK, Accounted, Issued, Busy,
                Successors, Pending
  <2> QED
    BY <1>1, <2>1 DEF ReuseInv
<1> QED
  BY <1>2, <1>3

(* Once a reuse has closed a user's sessions, its tokens have successors   *)
(* only from rotations that had read them before: rotate_refresh_token     *)
(* decides by the row it reads, and revoke_all_sessions leaves none live.  *)
THEOREM ReuseCloses == Spec => []ReuseClosesSessions
<1>1. ReuseInv => ReuseClosesSessions
  BY OwedIsFinite DEF ReuseInv, Accounted, ReuseClosesSessions, Successors
<1> QED
  BY <1>1, StartAccounted, ReuseStep, PTL DEF Spec

(* Every variable keeps its type: the users are those of the account's one *)
(* identity, and escaped counts rotations of which there are finitely many *)
(* at any time.                                                            *)
THEOREM Types == Spec => []TypeOK
<1>1. ReuseInv /\ OneUserPerIdentity => TypeOK
  BY DEF ReuseInv, IInv, RowsOK, OneUserPerIdentity, TypeOK, FamilyOK,
         Accounted
<1> QED
  BY <1>1, StartAccounted, ReuseStep, OneUser, PTL DEF Spec
-----------------------------------------------------------------------------
(* The instances that are proved about, ...                                *)
OP == INSTANCE OnboardingProofs WITH
        Payloads <- MCPayloads, MaxSaves <- 2, req <- save
RP == INSTANCE RemindersProofs WITH
        Requests <- SettingRequests, DayLength <- 2, MaxTime <- 2,
        MaxFailures <- 1, MaxLate <- 1, MaxOvertaken <- 1, req <- put
KP == INSTANCE CycleCalendarProofs WITH
        Step <- 8, MaxLate <- 12, FirstDay <- 7, LastDay <- 24, MaxMoves <- 1
DP == INSTANCE QuantitiesProofs WITH
        Book <- MCBook, Answers <- MCAnswers, Bank <- MCBank,
        Days <- 2, PerDay <- 1, People <- 2, Allergies <- {"soy", "egg"},
        UnitCost <- MCUnitCost, Limit <- 500, Durations <- {1, 4, 12},
        CallLimit <- 12, RetryBefore <- 5, MaxRetries <- 3,
        Requests <- Tappers, MaxMeal <- 2, Need <- 2, MaxLot <- 3,
        MaxSupply <- 3, MaxCrashes <- 1, req <- tap,
        Items <- DOMAIN MCNameOf, NameOf <- MCNameOf, Prices <- {1, 3},
        MaxCycle <- 3, FirstStart <- 0, Spacing <- 2, MonthDays <- 5,
        BudgetAmounts <- {2, 3}, Threshold <- 30

(* ... which are those of ServicesMC.                                      *)

(* Onboarding.                                                             *)
LEMMA SameOnboarding ==
    /\ O!Init <=> OP!Init
    /\ [O!Next]_(O!vars) <=> [OP!Next]_(OP!vars)
    /\ O!OnboardedIsComplete <=> OP!OnboardedIsComplete
    /\ O!LastHouseholdKept <=> OP!LastHouseholdKept
    /\ O!TypeOK <=> OP!TypeOK
  BY DEF O!TypeOK, OP!TypeOK, O!UserRow, OP!UserRow, O!PlanRow, OP!PlanRow,
         O!Session, OP!Session, O!vars, OP!vars, O!CountryCurrency,
         OP!CountryCurrency, O!Countries, OP!Countries, O!NoPlan, OP!NoPlan,
         O!NewUser, OP!NewUser, O!Idle, OP!Idle, O!Init, OP!Init, O!Done,
         OP!Done, O!Others, OP!Others, O!PlanLocked, OP!PlanLocked,
         O!Ensured, OP!Ensured, O!Finish, OP!Finish, O!Authenticate,
         OP!Authenticate, O!Create, OP!Create, O!CreateCommit,
         OP!CreateCommit, O!Upsert, OP!Upsert, O!Inserted, OP!Inserted,
         O!Duplicate, OP!Duplicate, O!UpsertFlush, OP!UpsertFlush,
         O!UpsertFails, OP!UpsertFails, O!Written, OP!Written,
         O!UpsertCommit, OP!UpsertCommit, O!ReplaceStart, OP!ReplaceStart,
         O!MembersLocked, OP!MembersLocked, O!ReplaceCheck, OP!ReplaceCheck,
         O!ReplaceCommit, OP!ReplaceCommit, O!Region, OP!Region,
         O!FindSettings, OP!FindSettings, O!CreateSettings,
         OP!CreateSettings, O!ChangeSettings, OP!ChangeSettings, O!Abandon,
         OP!Abandon, O!Next, OP!Next, O!OnboardedIsComplete,
         OP!OnboardedIsComplete, O!LastHouseholdKept, OP!LastHouseholdKept

(* The reminders.                                                          *)
LEMMA SameReminders ==
    /\ R!Init <=> RP!Init
    /\ [R!Next]_(R!vars) <=> [RP!Next]_(RP!vars)
    /\ R!RepeatsExplained <=> RP!RepeatsExplained
    /\ R!EnabledIsScheduled <=> RP!EnabledIsScheduled
    /\ R!TypeOK <=> RP!TypeOK
  BY DEF R!TypeOK, RP!TypeOK, R!SettingRow, RP!SettingRow, R!ScanState,
         RP!ScanState, R!Slots, RP!Slots, R!history, RP!history, R!vars,
         RP!vars, R!Never, RP!Never, R!SlotsOfDay, RP!SlotsOfDay,
         R!ComputeNext, RP!ComputeNext, R!NoSetting, RP!NoSetting,
         R!Scheduled, RP!Scheduled, R!IdleScan, RP!IdleScan, R!Columns,
         RP!Columns, R!Updated, RP!Updated, R!NoRequest, RP!NoRequest,
         R!Due, RP!Due, R!Mine, RP!Mine, R!Init, RP!Init, R!Tick, RP!Tick,
         R!CreateSetting, RP!CreateSetting, R!LoadSetting, RP!LoadSetting,
         R!CommitSetting, RP!CommitSetting, R!Overtake, RP!Overtake,
         R!RegisterDevice, RP!RegisterDevice, R!DropDevice, RP!DropDevice,
         R!StartScan, RP!StartScan, R!Skip, RP!Skip, R!Push, RP!Push,
         R!RecordPush, RP!RecordPush, R!RecordFails, RP!RecordFails,
         R!FlushPending, RP!FlushPending, R!CommitScan, RP!CommitScan,
         R!ScanFails, RP!ScanFails, R!Crash, RP!Crash, R!Next, RP!Next,
         R!Cardinality, RP!Cardinality, R!RepeatsExplained,
         RP!RepeatsExplained, R!EnabledIsScheduled, RP!EnabledIsScheduled

(* The calendar.                                                           *)
LEMMA SameCalendar ==
    /\ K!Init <=> KP!Init
    /\ [K!Next]_(K!vars) <=> [KP!Next]_(KP!vars)
    /\ K!StageOfItsCycle <=> KP!StageOfItsCycle
    /\ K!TypeOK <=> KP!TypeOK
  BY DEF K!TypeOK, KP!TypeOK, K!Anchors, KP!Anchors, K!vars, KP!vars,
         K!Weekday, KP!Weekday, K!DeliveryWeekdays, KP!DeliveryWeekdays,
         K!IsDelivery, KP!IsDelivery, K!NextCycleStart, KP!NextCycleStart,
         K!LocalDay, KP!LocalDay, K!WindowStart, KP!WindowStart,
         K!CycleDays, KP!CycleDays, K!StageAt, KP!StageAt, K!GenerationAt,
         KP!GenerationAt, K!DraftAt, KP!DraftAt, K!NextGenerationAt,
         KP!NextGenerationAt, K!InitialNextRun, KP!InitialNextRun,
         K!Schedule, KP!Schedule, K!NoPlan, KP!NoPlan, K!Window, KP!Window,
         K!Init, KP!Init, K!Tick, KP!Tick, K!Due, KP!Due, K!DraftDue,
         KP!DraftDue, K!Generate, KP!Generate, K!Draft, KP!Draft,
         K!UpdateSettings, KP!UpdateSettings, K!Next, KP!Next,
         K!Frequencies, KP!Frequencies, K!StageOfItsCycle,
         KP!StageOfItsCycle

(* The dictionaries.                                                       *)
LEMMA SameWords ==
    /\ D!PerPerson = DP!PerPerson
    /\ D!Keys = DP!Keys
    /\ D!Others = DP!Others
    /\ D!Fats = DP!Fats
    /\ D!Salty = DP!Salty
    /\ D!Composites = DP!Composites
    /\ D!MadeOf = DP!MadeOf
    /\ D!NameHas = DP!NameHas
    /\ D!MealTypes = DP!MealTypes
    /\ D!Undecided = DP!Undecided
  BY DEF D!PerPerson, DP!PerPerson, D!Keys, DP!Keys, D!Others, DP!Others,
         D!Fats, DP!Fats, D!Salty, DP!Salty, D!Composites, DP!Composites,
         D!MadeOf, DP!MadeOf, D!NameHas, DP!NameHas, D!MealTypes, DP!MealTypes,
         D!Undecided, DP!Undecided

(* Amounts.                                                                *)
LEMMA SameAmounts ==
    /\ \A rows, k : D!Amount(rows, k) = DP!Amount(rows, k)
    /\ \A rows, k : D!Present(rows, k) = DP!Present(rows, k)
    /\ \A rows, k : D!Listed(rows, k) = DP!Listed(rows, k)
    /\ \A S : D!Max(S) = DP!Max(S)
    /\ \A S : D!Min(S) = DP!Min(S)
  BY DEF D!Amount, DP!Amount, D!Present, DP!Present, D!Listed, DP!Listed,
         D!NotListed, DP!NotListed, D!Max, DP!Max, D!Min, DP!Min

(* What is missing, and what is refused.                                   *)
LEMMA SameRefused ==
    /\ \A k : D!Refused(k) = DP!Refused(k)
    /\ \A rows, keys : D!Missing(rows, keys) = DP!Missing(rows, keys)
    /\ \A dish, rows : D!CurryBase(dish, rows) = DP!CurryBase(dish, rows)
  BY SameWords, SameAmounts DEF D!Refused, DP!Refused, D!Missing,
         DP!Missing, D!CurryBase, DP!CurryBase

(* What is added.                                                          *)
LEMMA SameFill ==
    /\ \A rows, keys : D!Fill(rows, keys) = DP!Fill(rows, keys)
    /\ \A dish, rows : D!Basics(dish, rows) = DP!Basics(dish, rows)
  BY SameWords, SameRefused, SameAmounts DEF D!Fill, DP!Fill, D!Basics,
         DP!Basics

(* The water that is needed to cook, ...                                   *)
LEMMA SameNeed ==
    \A dish, rows : D!CookingWater(dish, rows) = DP!CookingWater(dish, rows)
  BY SameRefused, SameAmounts DEF D!CookingWater, DP!CookingWater

(* ... to boil,                                                            *)
LEMMA SameBoiling ==
    \A dish, rows : D!BoilingWater(dish, rows) = DP!BoilingWater(dish, rows)
  BY SameAmounts DEF D!BoilingWater, DP!BoilingWater

(* ... for rice,                                                           *)
LEMMA SameRice ==
    \A dish, rows : D!RiceWater(dish, rows) = DP!RiceWater(dish, rows)
  BY SameAmounts DEF D!RiceWater, DP!RiceWater

(* ... and altogether.                                                     *)
LEMMA SameWater ==
    /\ \A dish, rows : D!WithWater(dish, rows) = DP!WithWater(dish, rows)
    /\ \A dish, rows : D!RequiredWater(dish, rows) = DP!RequiredWater(dish, rows)
  BY SameNeed, SameBoiling, SameRice, SameAmounts DEF D!WithWater,
         DP!WithWater, D!RequiredWater, DP!RequiredWater

(* Fat and salt.                                                           *)
LEMMA SameFat ==
    /\ \A dish, rows : D!PanFat(dish, rows) = DP!PanFat(dish, rows)
    /\ \A dish, rows : D!Seasoning(dish, rows) = DP!Seasoning(dish, rows)
  BY SameRefused, SameAmounts, SameWords DEF D!PanFat, DP!PanFat,
         D!Seasoning, DP!Seasoning

(* The stages of the repair.                                               *)
LEMMA SameStages ==
    \A dish, rows : D!Stages(dish, rows) = DP!Stages(dish, rows)
  BY SameFill, SameWater, SameFat, SameWords DEF D!Stages, DP!Stages

(* The repair, and what it leaves out.                                     *)
LEMMA SameRepair ==
    /\ \A dish, rows : D!Repair(dish, rows) = DP!Repair(dish, rows)
    /\ \A dish, rows : D!LeftOut(dish, rows) = DP!LeftOut(dish, rows)
  BY SameStages, SameFill, SameRefused DEF D!Repair, DP!Repair, D!LeftOut,
         DP!LeftOut, D!Last, DP!Last, D!ToSet, DP!ToSet

(* What an attempt drafts.                                                 *)
LEMMA SameAnswers ==
    /\ \A meals : D!Unique(meals) = DP!Unique(meals)
    /\ D!Mock = DP!Mock
    /\ \A meals : D!Repaired(meals) = DP!Repaired(meals)
  BY SameRepair, SameWords DEF D!Unique, DP!Unique, D!Mock, DP!Mock,
         D!Repaired, DP!Repaired, D!Draft, DP!Draft, D!Slot, DP!Slot, D!Restrict,
         DP!Restrict, D!Cardinality, DP!Cardinality

(* What it costs: sums, ...                                                *)
LEMMA SameSum ==
    \A f : D!SumFunction(f) = DP!SumFunction(f)
  BY DEF D!SumFunction, DP!SumFunction, D!SumFunctionOnSet,
         DP!SumFunctionOnSet, D!FoldFunctionOnSet, DP!FoldFunctionOnSet,
         D!MapThenFoldSet, DP!MapThenFoldSet

(* ... for a meal ...                                                      *)
LEMMA SameCost ==
    \A rows : D!Cost(rows) = DP!Cost(rows)
  BY SameAmounts, SameSum DEF D!Cost, DP!Cost

(* ... for all meals.                                                      *)
LEMMA SamePrice ==
    \A meals : D!Price(meals) = DP!Price(meals)
  BY SameCost, SameSum DEF D!Price, DP!Price

(* What is wrong with it, and whether there is another attempt.            *)
LEMMA SameVerdict ==
    /\ \A meals, left : D!Violations(meals, left) = DP!Violations(meals, left)
    /\ D!Retryable = DP!Retryable
    /\ D!TimeLeft <=> DP!TimeLeft
  BY SameWords, SameAmounts DEF D!Violations, DP!Violations, D!ToSet,
         DP!ToSet, D!Retryable, DP!Retryable, D!TimeLeft, DP!TimeLeft

(* The initial states.                                                     *)
LEMMA SameStart ==
    /\ D!Init <=> DP!Init
    /\ D!vars = DP!vars
  BY SameWords DEF D!Init, DP!Init, D!vars, DP!vars

(* What an attempt generates.                                              *)
LEMMA SameGenerate ==
    D!Generate <=> DP!Generate
  BY SameAnswers, SameRepair DEF D!Generate, DP!Generate, D!ToSet, DP!ToSet

(* What the loop decides.                                                  *)
LEMMA SameJudge ==
    /\ D!Judge <=> DP!Judge
    /\ D!Reject <=> DP!Reject
  BY SamePrice, SameVerdict DEF D!Judge, DP!Judge, D!Reject, DP!Reject,
         D!AfterOverBudget, DP!AfterOverBudget, D!TimeLeft, DP!TimeLeft

(* What is stored.                                                         *)
LEMMA SameStore ==
    D!Store <=> DP!Store
  BY SameAmounts DEF D!Store, DP!Store, D!Clamp, DP!Clamp

(* A step.                                                                 *)
LEMMA SameNext ==
    [D!Next]_(D!vars) <=> [DP!Next]_(DP!vars)
  BY SameGenerate, SameJudge, SameStore DEF D!Next, DP!Next, D!vars,
         DP!vars

(* What the verdict promises.                                              *)
LEMMA SameResult ==
    /\ D!VerdictDescribesResult <=> DP!VerdictDescribesResult
    /\ D!AnswersInTime <=> DP!AnswersInTime
  BY SamePrice, SameVerdict DEF D!VerdictDescribesResult,
         DP!VerdictDescribesResult, D!AnswersInTime, DP!AnswersInTime

(* What the repair promises.                                               *)
LEMMA SameStable ==
    D!RepairIsStable <=> DP!RepairIsStable
  BY SameRepair DEF D!RepairIsStable, DP!RepairIsStable, D!ToSet, DP!ToSet

(* What it does about allergies.                                           *)
LEMMA SameMindful ==
    D!RepairMindsAllergies <=> DP!RepairMindsAllergies
  BY SameRefused, SameFill, SameWords DEF D!RepairMindsAllergies,
         DP!RepairMindsAllergies, D!ToSet, DP!ToSet

(* The types of its variables.                                             *)
LEMMA SameTypes ==
    D!TypeOK <=> DP!TypeOK
  BY SameWords
     DEF D!TypeOK, DP!TypeOK, D!Phases, DP!Phases, D!Statuses, DP!Statuses,
         D!ToSet, DP!ToSet

(* The fridge.                                                             *)
LEMMA SameFridge ==
    /\ F!Init <=> DP!F!Init
    /\ [F!Next]_(F!vars) <=> [DP!F!Next]_(DP!F!vars)
    /\ F!TypeOK <=> DP!F!TypeOK
    /\ F!NoInflation <=> DP!F!NoInflation
  BY DEF F!vars, DP!F!vars, F!Lots, DP!F!Lots, F!Meals, DP!F!Meals,
         F!NoMeal, DP!F!NoMeal, F!Amounts, DP!F!Amounts, F!Null, DP!F!Null,
         F!LotRow, DP!F!LotRow, F!MealRow, DP!F!MealRow, F!Session,
         DP!F!Session, F!NoRow, DP!F!NoRow, F!Idle, DP!F!Idle, F!Present,
         DP!F!Present, F!Total, DP!F!Total, F!Stock, DP!F!Stock,
         F!RowLocked, DP!F!RowLocked, F!Free, DP!F!Free, F!Init, DP!F!Init,
         F!AddItem, DP!F!AddItem, F!UpdateQuantity, DP!F!UpdateQuantity,
         F!DeleteItem, DP!F!DeleteItem, F!DeleteDelivery,
         DP!F!DeleteDelivery, F!ReplaceMeal, DP!F!ReplaceMeal, F!LoadMeal,
         DP!F!LoadMeal, F!StartDeduct, DP!F!StartDeduct, F!RowGone,
         DP!F!RowGone, F!Reachable, DP!F!Reachable, F!SelectLots,
         DP!F!SelectLots, F!Before, DP!F!Before, F!Take, DP!F!Take,
         F!CommitDeduct, DP!F!CommitDeduct, F!CommitSnapshot,
         DP!F!CommitSnapshot, F!CompleteAgain, DP!F!CompleteAgain,
         F!Restore, DP!F!Restore, F!Uncomplete, DP!F!Uncomplete,
         F!UncompleteAgain, DP!F!UncompleteAgain, F!Crash, DP!F!Crash,
         F!Next, DP!F!Next, F!TypeOK, DP!F!TypeOK, F!Restorable,
         DP!F!Restorable, F!InFlight, DP!F!InFlight, F!NoInflation,
         DP!F!NoInflation, F!SumFunction, DP!F!SumFunction,
         F!SumFunctionOnSet, DP!F!SumFunctionOnSet, F!FoldFunctionOnSet,
         DP!F!FoldFunctionOnSet, F!MapThenFoldSet, DP!F!MapThenFoldSet,
         F!Max, DP!F!Max, F!Min, DP!F!Min

(* The sums of the gate.                                                   *)
LEMMA SameSums ==
    /\ \A f : G!SumFunction(f) = DP!G!SumFunction(f)
    /\ \A f, S : G!SumFunctionOnSet(f, S) = DP!G!SumFunctionOnSet(f, S)
    /\ \A S : G!Max(S) = DP!G!Max(S)
    /\ \A S : G!Min(S) = DP!G!Min(S)
    /\ \A S : G!Cardinality(S) = DP!G!Cardinality(S)
  BY DEF G!SumFunction, DP!G!SumFunction, G!SumFunctionOnSet,
         DP!G!SumFunctionOnSet, G!FoldFunctionOnSet, DP!G!FoldFunctionOnSet,
         G!MapThenFoldSet, DP!G!MapThenFoldSet, G!Max, DP!G!Max, G!Min,
         DP!G!Min, G!Cardinality, DP!G!Cardinality

(* Its rows.                                                               *)
LEMMA SameRows ==
    /\ G!Unlocked = DP!G!Unlocked
    /\ G!Budgets = DP!G!Budgets
    /\ G!NoLine = DP!G!NoLine
    /\ G!Unmatched = DP!G!Unmatched
    /\ G!Cycles = DP!G!Cycles
    /\ G!Names = DP!G!Names
    /\ G!Lines = DP!G!Lines
    /\ G!MaxTotal = DP!G!MaxTotal
    /\ G!OrderRow = DP!G!OrderRow
    /\ G!Gate = DP!G!Gate
    /\ G!NoOrder = DP!G!NoOrder
    /\ G!Free = DP!G!Free
    /\ \A c : G!Open(c) = DP!G!Open(c)
    /\ G!vars = DP!G!vars
    /\ \A status, total, auto :
         G!Row(status, total, auto) = DP!G!Row(status, total, auto)
  BY SameSums DEF G!NoLine, DP!G!NoLine, G!Unmatched, DP!G!Unmatched,
         G!Cycles, DP!G!Cycles, G!Names, DP!G!Names, G!Lines, DP!G!Lines,
         G!MaxTotal, DP!G!MaxTotal, G!OrderRow,
         DP!G!OrderRow, G!Gate, DP!G!Gate, G!NoOrder, DP!G!NoOrder, G!Free,
         DP!G!Free, G!Open, DP!G!Open, G!vars, DP!G!vars, G!Row, DP!G!Row,
         G!Unlocked, DP!G!Unlocked, G!Budgets, DP!G!Budgets

(* What an order contains ...                                              *)
LEMMA SameContents ==
    /\ \A need, stock : G!Needed(need, stock) = DP!G!Needed(need, stock)
    /\ \A found : G!Selection(found) = DP!G!Selection(found)
    /\ \A needed, offer : G!Cart(needed, offer) = DP!G!Cart(needed, offer)
    /\ \A cart : G!CartTotal(cart) = DP!G!CartTotal(cart)
    /\ \A needed, offer :
         G!Snapshot(needed, offer) = DP!G!Snapshot(needed, offer)
    /\ \A lines : G!ToBuy(lines) = DP!G!ToBuy(lines)
    /\ \A lines : G!SnapshotTotal(lines) = DP!G!SnapshotTotal(lines)
    /\ G!Supplies = DP!G!Supplies
    /\ G!Offers = DP!G!Offers
    /\ G!Previews = DP!G!Previews
    /\ \A lines : G!MostlyUnmatched(lines) = DP!G!MostlyUnmatched(lines)
<1>1. \A need, stock : G!Needed(need, stock) = DP!G!Needed(need, stock)
  BY SameSums DEF G!Needed, DP!G!Needed
<1>2. \A found : G!Selection(found) = DP!G!Selection(found)
  BY SameRows DEF G!Selection, DP!G!Selection
<1>3. \A needed, offer : G!Cart(needed, offer) = DP!G!Cart(needed, offer)
  BY DEF G!Cart, DP!G!Cart
<1>4. \A cart : G!CartTotal(cart) = DP!G!CartTotal(cart)
  BY SameSums DEF G!CartTotal, DP!G!CartTotal
<1>5. \A needed, offer :
        G!Snapshot(needed, offer) = DP!G!Snapshot(needed, offer)
  BY SameRows DEF G!Snapshot, DP!G!Snapshot
<1>6. \A lines : G!ToBuy(lines) = DP!G!ToBuy(lines)
  BY SameRows DEF G!ToBuy, DP!G!ToBuy
<1>7. \A lines : G!SnapshotTotal(lines) = DP!G!SnapshotTotal(lines)
  BY SameSums, <1>6 DEF G!SnapshotTotal, DP!G!SnapshotTotal
<1>8. G!Supplies = DP!G!Supplies
  BY DEF G!Supplies, DP!G!Supplies
<1>9. G!Offers = DP!G!Offers
  BY SameRows, <1>2 DEF G!Offers, DP!G!Offers
<1>10. G!Previews = DP!G!Previews
  BY <1>1, <1>8, <1>9 DEF G!Previews, DP!G!Previews
<1>11. \A lines : G!MostlyUnmatched(lines) = DP!G!MostlyUnmatched(lines)
  BY SameSums, SameRows, <1>6 DEF G!MostlyUnmatched, DP!G!MostlyUnmatched
<1> QED
  BY <1>1, <1>2, <1>3, <1>4, <1>5, <1>6, <1>7, <1>8, <1>9, <1>10, <1>11

(* ... and what it may cost.                                               *)
LEMMA SameLimit ==
    /\ \A c : G!Start(c) = DP!G!Start(c)
    /\ \A c : G!MonthStart(c) = DP!G!MonthStart(c)
    /\ \A c : G!AccrualEnd(c) = DP!G!AccrualEnd(c)
    /\ \A cycles : G!Spent(cycles) = DP!G!Spent(cycles)
    /\ \A c : G!Committed(c) = DP!G!Committed(c)
    /\ \A c : G!CycleLimit(c) = DP!G!CycleLimit(c)
    /\ \A c, total : G!OverLimit(c, total) <=> DP!G!OverLimit(c, total)
  BY SameSums, SameRows DEF G!Start, DP!G!Start, G!MonthStart,
         DP!G!MonthStart, G!AccrualEnd, DP!G!AccrualEnd, G!Prorate,
         DP!G!Prorate, G!Spent, DP!G!Spent, G!Committed, DP!G!Committed,
         G!CycleLimit, DP!G!CycleLimit, G!OverLimit, DP!G!OverLimit

(* The gate.                                                               *)
LEMMA SameGate ==
    /\ G!Init <=> DP!G!Init
    /\ [G!Next]_(G!vars) <=> [DP!G!Next]_(DP!G!vars)
    /\ G!TypeOK <=> DP!G!TypeOK
<1>1. G!Init <=> DP!G!Init
  BY SameRows DEF G!Init, DP!G!Init
<1>2. G!TypeOK <=> DP!G!TypeOK
  BY SameRows DEF G!TypeOK, DP!G!TypeOK
<1>3. G!UpsertBudget <=> DP!G!UpsertBudget
  BY SameRows DEF G!UpsertBudget, DP!G!UpsertBudget
<1>4. G!CreateDraft <=> DP!G!CreateDraft
  BY SameRows, SameContents DEF G!CreateDraft, DP!G!CreateDraft
<1>5. \A c : G!Refuse(c) <=> DP!G!Refuse(c)
  BY SameRows DEF G!Refuse, DP!G!Refuse
<1>6. \A c : G!Judge(c) <=> DP!G!Judge(c)
  BY SameRows, SameContents, SameLimit DEF G!Judge, DP!G!Judge
<1>7. G!AutoConfirm <=> DP!G!AutoConfirm
  BY SameRows, SameContents DEF G!AutoConfirm, DP!G!AutoConfirm
<1>8. \A c : G!UserConfirm(c) <=> DP!G!UserConfirm(c)
  <2>1. G!Previews = DP!G!Previews
    BY SameContents
  <2> QED
    BY <2>1
       DEF G!UserConfirm, DP!G!UserConfirm, G!Snapshot, DP!G!Snapshot,
           G!ToBuy, DP!G!ToBuy, G!SnapshotTotal, DP!G!SnapshotTotal, G!Row,
           DP!G!Row, G!Open, DP!G!Open, G!NoLine, DP!G!NoLine, G!Names,
           DP!G!Names, G!SumFunctionOnSet, DP!G!SumFunctionOnSet,
           G!FoldFunctionOnSet, DP!G!FoldFunctionOnSet, G!MapThenFoldSet,
           DP!G!MapThenFoldSet
<1>9. \A c : G!Cancel(c) <=> DP!G!Cancel(c)
  BY SameRows DEF G!Cancel, DP!G!Cancel
<1>10. G!NextCycle <=> DP!G!NextCycle
  BY SameRows DEF G!NextCycle, DP!G!NextCycle
<1>11. G!Crash <=> DP!G!Crash
  BY SameRows DEF G!Crash, DP!G!Crash
<1> QED
  BY <1>1, <1>2, <1>3, <1>4, <1>5, <1>6, <1>7, <1>8, <1>9, <1>10, <1>11,
     SameRows DEF G!Next, DP!G!Next, G!vars, DP!G!vars

-----------------------------------------------------------------------------
(* A step of ServicesMC is a step or a stutter of each part.               *)

(* All parts start in their initial states.                                *)
LEMMA Starts ==
    ServicesInit =>
      D!Init /\ O!Init /\ R!Init /\ K!Init /\ F!Init /\ G!Init
  BY DEF ServicesInit

(* Onboarding moves or stands still, ...                                   *)
LEMMA Onboards == [ServicesNext]_all => [O!Next]_(O!vars)
  BY DEF ServicesNext, OnboardingNext, CalendarNext, DraftingNext, GateNext,
         FridgeNext, AuthNext, RemindersNext, all, others, O!vars, userVars

(* ... so do the reminders, ...                                            *)
LEMMA Reminds == [ServicesNext]_all => [R!Next]_(R!vars)
  BY DEF ServicesNext, OnboardingNext, CalendarNext, DraftingNext, GateNext,
         FridgeNext, AuthNext, RemindersNext, all, R!vars, R!history,
         reminderVars

(* ... the calendar, ...                                                   *)
LEMMA Plans == [ServicesNext]_all => [K!Next]_(K!vars)
  BY DEF ServicesNext, OnboardingNext, CalendarNext, DraftingNext, GateNext,
         FridgeNext, AuthNext, RemindersNext, all, others, K!vars,
         calendarVars

(* ... the drafting of meals, ...                                          *)
LEMMA Drafts == [ServicesNext]_all => [D!Next]_(D!vars)
  BY DEF ServicesNext, OnboardingNext, CalendarNext, DraftingNext, GateNext,
         FridgeNext, AuthNext, RemindersNext, all, others, D!vars, draftVars

(* ... the fridge, ...                                                     *)
LEMMA Stocks == [ServicesNext]_all => [F!Next]_(F!vars)
  BY DEF ServicesNext, OnboardingNext, CalendarNext, DraftingNext, GateNext,
         FridgeNext, AuthNext, RemindersNext, all, others, F!vars, fridgeVars

(* ... the gate ...                                                        *)
LEMMA Judges == [ServicesNext]_all => [G!Next]_(G!vars)
  BY DEF ServicesNext, OnboardingNext, CalendarNext, DraftingNext, GateNext,
         FridgeNext, AuthNext, RemindersNext, all, others, G!vars, gateVars

(* ... and sign-in.                                                        *)
LEMMA SignsIn == [ServicesNext]_all => [Next]_vars
  BY DEF ServicesNext, OnboardingNext, CalendarNext, DraftingNext, GateNext,
         FridgeNext, AuthNext, RemindersNext, all

(* So a behaviour of ServicesMC is one of each part.                       *)
LEMMA Implied ==
    ServicesSpec =>
      /\ Spec /\ OP!Spec /\ RP!Spec /\ KP!Spec
      /\ DP!Spec /\ DP!F!Spec /\ DP!G!Spec
<1>1. ServicesInit =>
        /\ Init /\ OP!Init /\ RP!Init /\ KP!Init
        /\ DP!Init /\ DP!F!Init /\ DP!G!Init
  BY Starts, SameOnboarding, SameReminders, SameCalendar, SameStart,
     SameFridge, SameGate DEF ServicesInit
<1>2. [ServicesNext]_all => [OP!Next]_(OP!vars)
  BY Onboards, SameOnboarding
<1>3. [ServicesNext]_all => [RP!Next]_(RP!vars)
  BY Reminds, SameReminders
<1>4. [ServicesNext]_all => [KP!Next]_(KP!vars)
  BY Plans, SameCalendar
<1>5. [ServicesNext]_all => [DP!Next]_(DP!vars)
  BY Drafts, SameNext
<1>6. [ServicesNext]_all => [DP!F!Next]_(DP!F!vars)
  BY Stocks, SameFridge
<1>7. [ServicesNext]_all => [DP!G!Next]_(DP!G!vars)
  BY Judges, SameGate
<1> QED
  BY <1>1, <1>2, <1>3, <1>4, <1>5, <1>6, <1>7, SignsIn, PTL
     DEF ServicesSpec, Spec, OP!Spec, RP!Spec, KP!Spec, DP!Spec, DP!F!Spec,
         DP!G!Spec

(* What ServicesMC cooks with are dishes, and its answers list dishes.     *)
LEMMA Cooks == DP!Cookable
<1>1. \A named, explicit, marks, r :
        /\ \A k \in DOMAIN r : r[k] \in Int
        /\ named \subseteq Keys /\ explicit \subseteq Keys
        => DP!IsDish(Dish(named, explicit, marks, r))
  BY DEF Dish, Nothing, DP!IsDish, DP!Row, DP!Kinds, DP!Keys, DP!Others,
         Keys, Others, DP!PerPerson, PerPerson
<1>2. {"doenjang", "tofu", "water", "butter", "egg"} \subseteq Keys
  BY DEF Keys, PerPerson
<1>3. DP!IsDish(Stew) /\ DP!IsDish(FriedRice)
  BY <1>1, <1>2 DEF Stew, FriedRice
<1>4. ASSUME NEW d \in ManyDishes PROVE DP!IsDish(d)
  <2>1. PICK text \in Texts, marks \in Manners, rows \in Lists :
               d = Dish(text[1], text[2], marks, rows)
    BY DEF ManyDishes
  <2>2. \A k \in DOMAIN rows : rows[k] \in Int
    BY DEF Lists
  <2>3. text[1] \subseteq Keys /\ text[2] \subseteq Keys
    BY <1>2 DEF Texts
  <2> QED
    BY <1>1, <2>1, <2>2, <2>3
<1>5. \A d \in DOMAIN MCBook : MCBook[d] = d /\ DP!IsDish(d)
  BY <1>3, <1>4 DEF MCBook
<1>6. \A day, type : \A d \in DOMAIN MCBook : DP!Plain(Meal(day, type, d))
  BY <1>5 DEF Meal, DP!Plain, DP!Draft
<1>7. \A a \in MCAnswers : \A i \in DOMAIN a : DP!Plain(a[i])
  BY <1>6 DEF MCAnswers, MCBook, MCBank
<1>8. MCBank \in Seq(DOMAIN MCBook) /\ MCBank # <<>>
  BY DEF MCBank, MCBook
<1> QED
  BY <1>5, <1>7, <1>8 DEF DP!Cookable

(* The constants of each part are what its proofs ask of them: amounts are *)
(* validated, requests finite in number, drafts due the day before,        *)
(* answers made of dishes that are known, and prices natural numbers.      *)
LEMMA Values ==
    /\ OP!Validated /\ RP!Bounded /\ KP!Punctual
    /\ DP!Household /\ DP!Cookable /\ DP!Timed /\ DP!Costed
    /\ DP!Stocked /\ DP!Priced /\ DP!Dated /\ DP!Budgeted
<1>1. OP!Validated
  BY DEF OP!Validated, MCPayloads
<1>2. RP!Bounded
  BY SettingRequestsFinite DEF RP!Bounded, RP!IsFiniteSet, IsFiniteSet
<1>3. KP!Punctual
  <2>1. \A f \in Frequencies : Profiles[f].draft \in 1 .. 6
    BY ProfileAssumption
  <2>2. \A f \in Frequencies :
          StageHour + Jitter + 12 < 24 * (Profiles[f].draft + 1)
    BY <2>1, HourAssumption
  <2> QED
    BY <2>2 DEF KP!Punctual, KP!Frequencies, Frequencies
<1>4. DP!Household
  BY SameWords DEF DP!Household, MadeOf, D!MadeOf
<1>5. DP!Timed
  BY DEF DP!Timed
<1>6. DP!Costed
  <2>1. ASSUME NEW k \in DP!Kinds PROVE MCUnitCost[k] \in Nat
    BY SameWords DEF MCUnitCost, Nothing, DP!Kinds, D!Keys, D!Others, Keys,
                     Others, D!PerPerson, PerPerson
  <2>2. ASSUME NEW a \in MCAnswers PROVE DP!IsFiniteSet(DOMAIN a)
    <3>1. DOMAIN a = 1 .. 1 \/ DOMAIN a = 1 .. 4
      BY DEF MCAnswers
    <3>2. IsFiniteSet(1 .. 1) /\ IsFiniteSet(1 .. 4)
      <4>1. \A n \in Nat : IsFiniteSet(1 .. n)
        BY FS_Interval
      <4> QED
        BY <4>1
    <3> QED
      BY <3>1, <3>2 DEF DP!IsFiniteSet, IsFiniteSet
  <2> QED
    BY <2>1, <2>2 DEF DP!Costed
<1>7. DP!Stocked /\ DP!Dated /\ DP!Budgeted
  BY DEF DP!Stocked, DP!Dated, DP!Budgeted
<1>8. DP!Priced
  <2>1. IsFiniteSet(DOMAIN MCNameOf) /\ IsFiniteSet({1, 3})
    <3>1. DOMAIN MCNameOf = {"eggs_ea", "eggs_g"}
      BY DEF MCNameOf
    <3>2. IsFiniteSet({"eggs_ea"}) /\ IsFiniteSet({1})
      BY FS_Singleton
    <3>3. IsFiniteSet({"eggs_ea"} \cup {"eggs_g"}) /\ IsFiniteSet({1} \cup {3})
      BY <3>2, FS_AddElement
    <3>4. /\ {"eggs_ea"} \cup {"eggs_g"} = {"eggs_ea", "eggs_g"}
          /\ {1} \cup {3} = {1, 3}
      OBVIOUS
    <3> QED
      BY <3>1, <3>3, <3>4
  <2> QED
    BY <2>1 DEF DP!Priced, DP!IsFiniteSet, IsFiniteSet
<1> QED
  BY <1>1, <1>2, <1>3, <1>4, <1>5, <1>6, <1>7, <1>8, Cooks

(* The assumptions on the policy hold of the calendar that is proved about. *)
LEMMA Policy ==
    /\ KP!ProfileAssumption /\ KP!HourAssumption /\ KP!ZoneAssumption
    /\ KP!LeadAssumption
  BY ProfileAssumption, HourAssumption, ZoneAssumption, LeadAssumption
     DEF KP!ProfileAssumption, KP!HourAssumption, KP!ZoneAssumption,
         KP!LeadAssumption, KP!Frequencies, Frequencies

-----------------------------------------------------------------------------
(* An onboarded user has a budget plan and cycle settings.                 *)
THEOREM Onboarded == ServicesSpec => []OnboardedIsComplete
<1>1. OP!Spec => []OP!OnboardedIsComplete
  BY Values, OP!Complete
<1>2. OP!OnboardedIsComplete => OnboardedIsComplete
  BY SameOnboarding DEF OnboardedIsComplete
<1> QED
  BY <1>1, <1>2, Implied, PTL

(* The household that was saved last is there (replace_household).         *)
THEOREM HouseholdKept == ServicesSpec => []LastHouseholdKept
<1>1. OP!Spec => []OP!LastHouseholdKept
  BY OP!LastKept
<1>2. OP!LastHouseholdKept => LastHouseholdKept
  BY SameOnboarding DEF LastHouseholdKept
<1> QED
  BY <1>1, <1>2, Implied, PTL

(* Settings the user has changed never return to their defaults            *)
(* (get_or_create_settings).                                               *)
THEOREM NoDefaultsAgain == ServicesSpec => SettingsKept
<1>1. OP!Spec => OP!SettingsKept
  BY OP!ChangesKept
<1>2. OP!SettingsKept => SettingsKept
  BY PTL DEF SettingsKept, O!SettingsKept, OP!SettingsKept, O!vars, OP!vars
<1> QED
  BY <1>1, <1>2, Implied, PTL

(* A reminder is repeated only after a scan that died or a late request    *)
(* (process_due_reminders).                                                *)
THEOREM Repeats == ServicesSpec => []RepeatsExplained
<1>1. RP!Spec => []RP!RepeatsExplained
  BY Values, RP!Explained
<1>2. RP!RepeatsExplained => RepeatsExplained
  BY SameReminders DEF RepeatsExplained
<1> QED
  BY <1>1, <1>2, Implied, PTL

(* A reminder that is switched on has a time, unless two requests have     *)
(* overlapped (_recompute_setting_schedule).                               *)
THEOREM Reminded == ServicesSpec => []EnabledIsScheduled
<1>1. RP!Spec => []RP!EnabledIsScheduled
  BY Values, RP!HasTime
<1>2. RP!EnabledIsScheduled => EnabledIsScheduled
  BY SameReminders DEF EnabledIsScheduled
<1> QED
  BY <1>1, <1>2, Implied, PTL

(* The run that is booked is a stage of the cycle it falls into            *)
(* (process_due_setting).                                                  *)
THEOREM OwnCycle == ServicesSpec => []StageOfItsCycle
<1>1. KP!Spec => []KP!StageOfItsCycle
  BY Values, Policy, KP!BookedForItsCycle
<1>2. KP!StageOfItsCycle => StageOfItsCycle
  BY SameCalendar DEF StageOfItsCycle
<1> QED
  BY <1>1, <1>2, Implied, PTL

(* A plan ends where the next one begins, while the schedule stands        *)
(* (_run_generation).                                                      *)
THEOREM Tile == ServicesSpec => PlansTile
<1>1. KP!Spec => KP!PlansTile
  BY Values, Policy, KP!NoDayLost
<1>2. KP!PlansTile => PlansTile
  BY PTL DEF PlansTile, K!PlansTile, KP!PlansTile, K!vars, KP!vars, K!NoPlan,
             KP!NoPlan
<1> QED
  BY <1>1, <1>2, Implied, PTL

(* What a drafted plan is said to be is what it is                         *)
(* (_generate_within_budget).                                              *)
THEOREM Verdicts == ServicesSpec => []VerdictDescribesResult
<1>1. DP!Spec => []DP!VerdictDescribesResult
  BY Values, DP!Truthful
<1>2. DP!VerdictDescribesResult => VerdictDescribesResult
  BY SameResult DEF VerdictDescribesResult
<1> QED
  BY <1>1, <1>2, Implied, PTL

(* A plan is drafted within the time budget and one call                   *)
(* (_generate_within_budget).                                              *)
THEOREM InTime == ServicesSpec => []AnswersInTime
<1>1. DP!Spec => []DP!AnswersInTime
  BY Values, DP!Timely
<1>2. DP!AnswersInTime => AnswersInTime
  BY SameResult DEF AnswersInTime
<1> QED
  BY <1>1, <1>2, Implied, PTL

(* Repairing a repaired meal changes nothing (repair_meal_ingredients).    *)
THEOREM Stable == ServicesSpec => []RepairIsStable
<1>1. DP!Spec => []DP!RepairIsStable
  BY Values, DP!RepairedOnce
<1>2. DP!RepairIsStable => RepairIsStable
  BY SameStable DEF RepairIsStable
<1> QED
  BY <1>1, <1>2, Implied, PTL

(* No repair adds what the user may not eat (repair_meal_ingredients).     *)
THEOREM MindsAllergies == ServicesSpec => []RepairMindsAllergies
<1>1. DP!Spec => []DP!RepairMindsAllergies
  BY Values, DP!Mindful
<1>2. DP!RepairMindsAllergies => RepairMindsAllergies
  BY SameMindful DEF RepairMindsAllergies
<1> QED
  BY <1>1, <1>2, Implied, PTL

(* What the scheduler confirms by itself in a month does not exceed the    *)
(* locked budget that it judges the order by (auto_confirm_order,          *)
(* cycle_limit).                                                           *)
THEOREM WithinBudget == ServicesSpec => AutoSpendWithinMonth
<1>1. DP!G!Spec => DP!G!AutoSpendWithinMonth
  BY Values, DP!GateWithinMonth
<1>2. DP!G!AutoSpendWithinMonth => AutoSpendWithinMonth
  <2> DEFINE Ours ==
               \A c \in G!Cycles :
                 (/\ order[c].status # "confirmed"
                  /\ order'[c].status = "confirmed" /\ order'[c].auto
                  /\ order'[c].total > 0
                  /\ gate.budget # G!Unlocked)
                 => G!AutoSpent(c)' <= gate.budget
             Proved ==
               \A c \in DP!G!Cycles :
                 (/\ order[c].status # "confirmed"
                  /\ order'[c].status = "confirmed" /\ order'[c].auto
                  /\ order'[c].total > 0
                  /\ gate.budget # DP!G!Unlocked)
                 => DP!G!AutoSpent(c)' <= gate.budget
  <2>1. \A c : G!AutoSpent(c)' = DP!G!AutoSpent(c)'
    BY SameSums, SameRows, SameLimit
       DEF G!AutoSpent, DP!G!AutoSpent, G!Spent, DP!G!Spent
  <2>2. Proved => Ours
    BY <2>1, SameRows
  <2> HIDE DEF Ours, Proved
  <2>3. [][Proved]_(DP!G!vars) => [][Ours]_(G!vars)
    BY <2>2, PTL DEF G!vars, DP!G!vars
  <2> QED
    BY <2>3 DEF Ours, Proved, AutoSpendWithinMonth, G!AutoSpendWithinMonth,
                DP!G!AutoSpendWithinMonth
<1> QED
  BY <1>1, <1>2, Implied, PTL

(* Completing and undoing meals one at a time makes no food                *)
(* (set_meal_completion).                                                  *)
THEOREM FoodKept ==
    ASSUME \E t : Tappers = {t} PROVE ServicesSpec => []NoInflation
<1>1. DP!F!Spec => []DP!F!NoInflation
  BY Values, DP!FridgeNoInflation
<1>2. DP!F!NoInflation => NoInflation
  BY SameFridge DEF NoInflation
<1> QED
  BY <1>1, <1>2, Implied, PTL

(* Every part keeps the types of its variables.                            *)
THEOREM TypesKept == ServicesSpec => []TypesOK
<1>1. /\ OP!Spec => []OP!TypeOK
      /\ RP!Spec => []RP!TypeOK
      /\ KP!Spec => []KP!TypeOK
      /\ DP!Spec => []DP!TypeOK
  BY Values, Policy, OP!Types, RP!Types, KP!Typed, DP!DraftingTypes
<1>2. /\ DP!F!Spec => []DP!F!TypeOK
      /\ DP!G!Spec => []DP!G!TypeOK
  BY Values, DP!FridgeTypes, DP!GateTypes
<1>3. /\ TypeOK /\ OP!TypeOK /\ RP!TypeOK /\ KP!TypeOK
      /\ DP!TypeOK /\ DP!F!TypeOK /\ DP!G!TypeOK
      => TypesOK
  BY SameOnboarding, SameReminders, SameCalendar, SameTypes, SameFridge,
     SameGate DEF TypesOK
<1> QED
  BY <1>1, <1>2, <1>3, Implied, Types, PTL

(* What is proved of sign-in holds next to the other parts: one user for   *)
(* an identity, one session for a code, and none that a reuse left open.   *)
THEOREM SignIn ==
    ServicesSpec => [](/\ TypeOK /\ OneUserPerIdentity
                       /\ CodeYieldsOneSession /\ ReuseClosesSessions)
  BY Implied, Types, OneUser, OneSessionPerCode, ReuseCloses, PTL
=============================================================================
