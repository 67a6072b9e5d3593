-------------------------- MODULE AuthSessionsProofs --------------------------
(***************************************************************************)
(* Proofs about AuthSessions for every value of its constants.             *)
(*                                                                         *)
(* That a login has one live token at most rests on its chain of rotations *)
(* being rooted: the first token stays, revoked, until the account goes,   *)
(* so that a new login never joins an old chain.  That nothing is orphaned *)
(* rests on what is known between the two statements that delete a         *)
(* restaurant and then its owner.                                          *)
(***************************************************************************)
EXTENDS AuthSessions, FiniteSetTheorems, TLAPS

(* What a request of each kind carries.                                    *)
WellFormed(r) ==
  /\ r.op \in {"register", "mint", "rotate", "revoke", "answer"} => r.browser \in Browsers
  /\ r.op \in {"register", "hire", "edit"} => r.email \in Emails
  /\ r.op = "mint" => r.account \in Accounts
  /\ r.op \in {"hire", "toggle", "delete", "deleteOwner"} => r.account \in Users
  /\ r.op = "edit" => r.account \in Waiters
  /\ r.op = "rotate" => r.token \in Tokens

RequestsWellFormed == \A s \in Requests : req[s] # None => WellFormed(req[s])

Rooted ==
  \A t \in Tokens : session[t] # None =>
    /\ session[session[t].login] # None
    /\ session[session[t].login].account = session[t].account

Unrevoked(t) == session[t] # None /\ ~session[t].revoked

OneUnrevoked ==
  \A t, v \in Tokens :
    Unrevoked(t) /\ Unrevoked(v) /\ session[t].login = session[v].login => t = v

(* An owner who is about to be deleted is there, has no restaurant, and is *)
(* deleted by one request.                                                 *)
Leaving ==
  /\ \A s \in Requests : Runs(s, "deleteOwner") =>
       Exists(req[s].account) /\ restaurant[req[s].account] = "none"
  /\ \A s, r \in Requests :
       Runs(s, "deleteOwner") /\ Runs(r, "deleteOwner") /\ req[s].account = req[r].account
         => s = r

Tables == Rooted /\ OneUnrevoked /\ NoOrphans

IInv == TypeOK /\ RequestsWellFormed /\ Tables /\ Leaving

-----------------------------------------------------------------------------
(* Requests                                                                *)

LEMMA BlankTyped == Blank \in Request
BY DEF Blank, Request, Ops

(* A step that leaves the rows alone keeps what is said about them.        *)
LEMMA SameRows ==
  ASSUME Tables, UNCHANGED db
  PROVE  Tables'
BY DEF Tables, Rooted, OneUnrevoked, Unrevoked, NoOrphans, Exists, db

LEMMA AskKeeps ==
  ASSUME IInv, NEW s \in Requests, NEW r \in Request, WellFormed(r),
         r.op # "deleteOwner", Ask(s, r)
  PROVE  IInv'
<1>1. TypeOK'
  BY DEF IInv, TypeOK, Ask, db
<1>2. \A q \in Requests : req'[q] = IF q = s THEN r ELSE req[q]
  BY DEF IInv, TypeOK, Ask
<1>3. RequestsWellFormed'
  BY <1>2 DEF IInv, RequestsWellFormed, WellFormed
<1>4. Tables'
  BY SameRows DEF IInv, Ask
<1>5. Leaving'
  BY <1>2 DEF IInv, Leaving, Runs, Ask, db, Exists
<1> QED
  BY <1>1, <1>3, <1>4, <1>5 DEF IInv

(* A request that ends or is answered leaves the others as they are.       *)
LEMMA FinishEffect ==
  ASSUME TypeOK, RequestsWellFormed, NEW s \in Requests, Finish(s)
  PROVE  /\ req' \in [Requests -> Request \cup {None}]
         /\ RequestsWellFormed'
         /\ \A q \in Requests : Runs(q, "deleteOwner")' =>
              q # s /\ req'[q] = req[q] /\ Runs(q, "deleteOwner")
<1>1. \A q \in Requests : req'[q] = IF q = s THEN None ELSE req[q]
  BY DEF TypeOK, Finish
<1>2. req' \in [Requests -> Request \cup {None}]
  BY DEF TypeOK, Finish
<1> QED
  BY <1>1, <1>2 DEF RequestsWellFormed, WellFormed, Runs

LEMMA AnswerEffect ==
  ASSUME TypeOK, RequestsWellFormed, NEW s \in Requests, NEW token \in Tokens \cup {None},
         req[s] # None, req[s].browser \in Browsers, AnswerWith(s, token)
  PROVE  /\ req' \in [Requests -> Request \cup {None}]
         /\ RequestsWellFormed'
         /\ \A q \in Requests : Runs(q, "deleteOwner")' =>
              q # s /\ req'[q] = req[q] /\ Runs(q, "deleteOwner")
<1>1. req[s] \in Request
  BY DEF TypeOK
<1>2. req' = [req EXCEPT ![s] = [req[s] EXCEPT !.op = "answer", !.token = token]]
  BY <1>1 DEF AnswerWith, TypeOK
<1> DEFINE r == [req[s] EXCEPT !.op = "answer", !.token = token]
<1>3. r \in Request /\ r.op = "answer" /\ r.browser \in Browsers
  BY <1>1 DEF Request, Ops
<1>4. WellFormed(r)
  BY <1>3 DEF WellFormed
<1> HIDE DEF r
<1>5. req' = [req EXCEPT ![s] = r]
  BY <1>2 DEF r
<1>6. \A q \in Requests : req'[q] = IF q = s THEN r ELSE req[q]
  BY <1>5 DEF TypeOK
<1>7. req' \in [Requests -> Request \cup {None}]
  BY <1>3, <1>5 DEF TypeOK
<1> QED
  BY <1>3, <1>4, <1>6, <1>7 DEF RequestsWellFormed, WellFormed, Runs

(* Where no owner loses his row or gains a restaurant, those about to be   *)
(* deleted stay as they are.                                               *)
LEMMA LeavingKept ==
  ASSUME Leaving,
         \A q \in Requests : Runs(q, "deleteOwner")' =>
           req'[q] = req[q] /\ Runs(q, "deleteOwner"),
         \A q \in Requests : Runs(q, "deleteOwner") =>
           /\ Exists(req[q].account) => account'[req[q].account] # None
           /\ restaurant[req[q].account] = "none" => restaurant'[req[q].account] = "none"
  PROVE  Leaving'
BY DEF Leaving, Runs, Exists
-----------------------------------------------------------------------------
(* Rows of the sessions table                                              *)

SessionRows == \A t \in Tokens : session[t] # None => Exists(session[t].account)

LEMMA CascadeEffect ==
  ASSUME TypeOK, Rooted, OneUnrevoked, SessionRows, NEW gone \in SUBSET Accounts, Cascade(gone)
  PROVE  /\ account' \in [Accounts -> Account \cup {None}]
         /\ session' \in [Tokens -> Session \cup {None}]
         /\ \A a \in Accounts : account'[a] = IF a \in gone THEN None ELSE account[a]
         /\ Rooted' /\ OneUnrevoked' /\ SessionRows'
<1>1. account' \in [Accounts -> Account \cup {None}]
  BY DEF TypeOK, Cascade
<1>2. session' \in [Tokens -> Session \cup {None}]
  BY DEF TypeOK, Cascade
<1>3. \A a \in Accounts : account'[a] = IF a \in gone THEN None ELSE account[a]
  BY DEF Cascade
<1>4. \A t \in Tokens : session'[t] =
        IF session[t] # None /\ session[t].account \in gone THEN None ELSE session[t]
  BY DEF Cascade
<1>5. \A t \in Tokens : session[t] # None =>
        session[t].login \in Tokens /\ session[t].account \in Accounts
  BY DEF TypeOK, Session
<1>6. Rooted'
  BY <1>4, <1>5 DEF Rooted
<1>7. OneUnrevoked'
  BY <1>4 DEF OneUnrevoked, Unrevoked
<1>8. SessionRows'
  BY <1>3, <1>4, <1>5 DEF SessionRows, Exists
<1> QED
  BY <1>1, <1>2, <1>3, <1>6, <1>7, <1>8

(* A new login: no chain has the unused token for its root.                *)
LEMMA MintEffect ==
  ASSUME TypeOK, Rooted, OneUnrevoked, SessionRows, NEW s \in Requests,
         req[s].account \in Accounts, NEW t \in Tokens, Exists(req[s].account), Unused(t),
         session' = [session EXCEPT ![t] =
            [account |-> req[s].account, expires |-> now + Lifetime,
             revoked |-> FALSE, login |-> t, signedOut |-> FALSE]],
         UNCHANGED account
  PROVE  /\ session' \in [Tokens -> Session \cup {None}]
         /\ Rooted' /\ OneUnrevoked' /\ SessionRows'
         /\ Chain(t) = {}
<1> DEFINE new == [account |-> req[s].account, expires |-> now + Lifetime,
                   revoked |-> FALSE, login |-> t, signedOut |-> FALSE]
<1>1. new \in Session /\ new # None
  <2>1. now + Lifetime \in 0 .. MaxTime + Lifetime
    BY TimeAssumption DEF TypeOK
  <2>2. new \in Session
    BY <2>1 DEF Session
  <2> QED
    BY <2>2, NoneIsNoRow
<1>2. new.account = req[s].account /\ new.login = t
  OBVIOUS
<1> HIDE DEF new
<1>3. session' = [session EXCEPT ![t] = new]
  BY DEF new
<1>4. session' \in [Tokens -> Session \cup {None}]
  BY <1>1, <1>3 DEF TypeOK
<1>5. \A v \in Tokens : session'[v] = IF v = t THEN new ELSE session[v]
  BY <1>3 DEF TypeOK
<1>6. session[t] = None
  BY DEF Unused
<1>7. \A v \in Tokens : session[v] # None => session[v].login # t
  BY <1>6 DEF Rooted
<1>8. \A v \in Tokens : session[v] # None => session[v].login \in Tokens
  BY DEF TypeOK, Session
<1>9. Rooted'
  BY <1>1, <1>2, <1>5, <1>7, <1>8 DEF Rooted
<1>10. OneUnrevoked'
  BY <1>2, <1>5, <1>7 DEF OneUnrevoked, Unrevoked
<1>11. SessionRows'
  BY <1>2, <1>5 DEF SessionRows, Exists
<1> QED
  BY <1>4, <1>7, <1>9, <1>10, <1>11 DEF Chain

(* A rotation revokes the only unrevoked token of its chain.               *)
LEMMA RotateEffect ==
  ASSUME TypeOK, Rooted, OneUnrevoked, SessionRows, NEW t \in Tokens, NEW seen,
         Claimable(t, seen), NEW next \in Tokens, Unused(next),
         session' = [session EXCEPT ![t].revoked = TRUE, ![next] = Successor(t)],
         UNCHANGED account
  PROVE  /\ session' \in [Tokens -> Session \cup {None}]
         /\ Rooted' /\ OneUnrevoked' /\ SessionRows'
         /\ \A v \in Tokens : session'[v] # None =>
              IF v \in {t, next}
                THEN /\ session'[v].login = session[t].login
                     /\ session'[v].expires = session[t].expires
                     /\ session'[v].signedOut = session[t].signedOut
                     /\ v = t => session'[v].revoked
                ELSE session'[v] = session[v]
<1> DEFINE old == [session[t] EXCEPT !.revoked = TRUE]
           new == [session[t] EXCEPT !.revoked = FALSE]
<1>1. session[t] \in Session /\ session[t] # None /\ ~session[t].revoked
  BY DEF TypeOK, Claimable
<1>2. session[next] = None /\ next # t
  BY <1>1 DEF Unused
<1>3. /\ old \in Session /\ old.account = session[t].account /\ old.revoked = TRUE
      /\ old.login = session[t].login /\ old.expires = session[t].expires
      /\ old.signedOut = session[t].signedOut
  BY <1>1 DEF Session
<1>4. /\ new \in Session /\ new.account = session[t].account /\ new.revoked = FALSE
      /\ new.login = session[t].login /\ new.expires = session[t].expires
      /\ new.signedOut = session[t].signedOut
  BY <1>1 DEF Session
<1>5. session' = [[session EXCEPT ![t] = old] EXCEPT ![next] = new]
  BY <1>1, <1>2 DEF TypeOK, Successor
<1> HIDE DEF old, new
<1>6. old # None /\ new # None
  BY <1>3, <1>4, NoneIsNoRow
<1>7. session' \in [Tokens -> Session \cup {None}]
  BY <1>3, <1>4, <1>5 DEF TypeOK
<1>8. \A v \in Tokens :
        session'[v] = IF v = next THEN new ELSE IF v = t THEN old ELSE session[v]
  BY <1>2, <1>5 DEF TypeOK
<1>9. \A v \in Tokens : session[v] # None => session[v].login \in Tokens
  BY DEF TypeOK, Session
<1>10. Rooted'
  <2> SUFFICES ASSUME NEW v \in Tokens, session'[v] # None
      PROVE  /\ session'[session'[v].login] # None
             /\ session'[session'[v].login].account = session'[v].account
    BY DEF Rooted
  <2>1. \A u \in Tokens : session[u] # None =>
          session'[u] # None /\ session'[u].account = session[u].account
    BY <1>2, <1>3, <1>6, <1>8
  <2>2. PICK u \in Tokens : /\ session[u] # None
                            /\ session'[v].login = session[u].login
                            /\ session'[v].account = session[u].account
    BY <1>1, <1>3, <1>4, <1>8
  <2> QED
    BY <1>9, <2>1, <2>2 DEF Rooted
<1>11. OneUnrevoked'
  <2> SUFFICES ASSUME NEW u \in Tokens, NEW v \in Tokens, Unrevoked(u)', Unrevoked(v)',
                      session'[u].login = session'[v].login
      PROVE  u = v
    BY DEF OneUnrevoked
  <2>1. u # t /\ v # t
    BY <1>2, <1>3, <1>8 DEF Unrevoked
  <2>2. \A w \in Tokens \ {t, next} :
          Unrevoked(w)' => Unrevoked(w) /\ session'[w].login = session[w].login
    BY <1>8 DEF Unrevoked
  <2>3. \A w \in Tokens \ {t, next} : Unrevoked(w)' => session'[w].login # session[t].login
    BY <1>1, <2>2 DEF OneUnrevoked, Unrevoked
  <2>4. session'[next].login = session[t].login
    BY <1>4, <1>8
  <2> QED
    BY <2>1, <2>2, <2>3, <2>4 DEF OneUnrevoked
<1>12. SessionRows'
  <2> SUFFICES ASSUME NEW v \in Tokens, session'[v] # None
      PROVE  account'[session'[v].account] # None
    BY DEF SessionRows, Exists
  <2>1. PICK u \in Tokens : session[u] # None /\ session'[v].account = session[u].account
    BY <1>1, <1>3, <1>4, <1>8
  <2> QED
    BY <2>1 DEF SessionRows, Exists
<1> QED
  BY <1>2, <1>3, <1>4, <1>7, <1>8, <1>10, <1>11, <1>12

(* A row keeps what it is, and once revoked stays so.                      *)
Keeps(old, new) ==
  /\ new \in Session /\ new # None
  /\ new.account = old.account /\ new.login = old.login /\ new.expires = old.expires
  /\ old.revoked => new.revoked

LEMMA RowsKept ==
  ASSUME TypeOK, Rooted, OneUnrevoked, SessionRows, UNCHANGED account,
         \A t \in Tokens : session[t] = None => session'[t] = None,
         \A t \in Tokens : session[t] # None => Keeps(session[t], session'[t]),
         DOMAIN session' = Tokens, session' = [t \in Tokens |-> session'[t]]
  PROVE  /\ session' \in [Tokens -> Session \cup {None}]
         /\ Rooted' /\ OneUnrevoked' /\ SessionRows'
<1>1. \A t \in Tokens : session'[t] # None =>
        /\ session[t] # None /\ session'[t] \in Session
        /\ session'[t].account = session[t].account
        /\ session'[t].login = session[t].login
        /\ session[t].revoked => session'[t].revoked
  BY DEF Keeps
<1>2. \A t \in Tokens : session[t] # None => session'[t] # None /\ session[t].login \in Tokens
  BY DEF TypeOK, Session, Keeps
<1>3. session' \in [Tokens -> Session \cup {None}]
  BY <1>1
<1>4. Rooted'
  BY <1>1, <1>2 DEF Rooted
<1>5. OneUnrevoked'
  BY <1>1 DEF OneUnrevoked, Unrevoked
<1>6. SessionRows'
  BY <1>1 DEF SessionRows, Exists
<1> QED
  BY <1>3, <1>4, <1>5, <1>6

(* A sign-out revokes, and marks as found good, only a token that was.     *)
LEMMA RevokeEffect ==
  ASSUME TypeOK, NEW token,
         session' = [t \in Tokens |->
           IF t = token /\ session[t] # None THEN SignedOut(session[t]) ELSE session[t]]
  PROVE  /\ \A t \in Tokens : session[t] = None => session'[t] = None
         /\ \A t \in Tokens : session[t] # None =>
              /\ Keeps(session[t], session'[t])
              /\ session'[t] = session[t] \/ (t = token /\ session'[t].revoked)
              /\ session'[t].signedOut =>
                   session[t].signedOut \/ (t = token /\ ~session[t].revoked)
         /\ DOMAIN session' = Tokens /\ session' = [t \in Tokens |-> session'[t]]
<1>1. ASSUME NEW row \in Session
      PROVE  /\ SignedOut(row) \in Session /\ SignedOut(row).revoked = TRUE
             /\ SignedOut(row).account = row.account /\ SignedOut(row).login = row.login
             /\ SignedOut(row).expires = row.expires
             /\ SignedOut(row).signedOut => row.signedOut \/ ~row.revoked
  BY <1>1 DEF Session, SignedOut
<1>2. \A t \in Tokens : session[t] # None => session[t] \in Session
  BY DEF TypeOK
<1>3. \A t \in Tokens :
        session'[t] = IF t = token /\ session[t] # None THEN SignedOut(session[t]) ELSE session[t]
  OBVIOUS
<1>4. \A t \in Tokens : session[t] # None => Keeps(session[t], session'[t])
  <2>1. ASSUME NEW row \in Session PROVE Keeps(row, row) /\ Keeps(row, SignedOut(row))
    <3>1. row # None /\ Keeps(row, row)
      BY <2>1, NoneIsNoRow DEF Keeps
    <3>2. PICK new : new = SignedOut(row)
      OBVIOUS
    <3>3. /\ new \in Session /\ new.revoked = TRUE /\ new.account = row.account
          /\ new.login = row.login /\ new.expires = row.expires
      BY <1>1, <2>1, <3>2
    <3>4. new # None
      BY <3>3, NoneIsNoRow
    <3>5. Keeps(row, new)
      BY <3>3, <3>4, Zenon DEF Keeps
    <3> QED
      BY <3>1, <3>2, <3>5
  <2> QED
    BY <1>2, <1>3, <2>1
<1>5. ASSUME NEW t \in Tokens, session[t] # None
      PROVE  /\ session'[t] = session[t] \/ (t = token /\ session'[t].revoked)
             /\ session'[t].signedOut =>
                  session[t].signedOut \/ (t = token /\ ~session[t].revoked)
  <2>1. CASE t = token
    <3>1. session'[t] = SignedOut(session[t]) /\ session[t] \in Session
      BY <1>2, <1>3, <1>5, <2>1
    <3>2. SignedOut(session[t]).revoked
      BY <1>1, <3>1
    <3>3. SignedOut(session[t]).signedOut => session[t].signedOut \/ ~session[t].revoked
      BY <1>1, <3>1
    <3> QED
      BY <2>1, <3>1, <3>2, <3>3, Zenon
  <2>2. CASE t # token
    BY <1>3, <1>5, <2>2
  <2> QED
    BY <2>1, <2>2
<1>6. \A t \in Tokens : session[t] = None => session'[t] = None
  BY <1>3
<1>7. DOMAIN session' = Tokens /\ session' = [t \in Tokens |-> session'[t]]
  OBVIOUS
<1> QED
  BY <1>4, <1>5, <1>6, <1>7

-----------------------------------------------------------------------------
(* Steps                                                                   *)

LEMMA InvInit == ASSUME Init PROVE IInv
<1>1. TypeOK
  BY TimeAssumption DEF Init, TypeOK
<1>2. RequestsWellFormed /\ Leaving
  BY DEF Init, RequestsWellFormed, Leaving, Runs
<1>3. Tables
  BY AccountsAssumption DEF Init, Tables, Rooted, OneUnrevoked, Unrevoked, NoOrphans, Exists, Accounts
<1> QED
  BY <1>1, <1>2, <1>3 DEF IInv

(* A request that only asks reads, and carries what it read.               *)
LEMMA AsksKeep ==
  ASSUME IInv, NEW s \in Requests,
         \/ AskRegister(s) \/ AskLogin(s) \/ AskRefresh(s) \/ AskLogout(s) \/ AskHire(s)
         \/ AskEdit(s) \/ AskToggle(s) \/ AskDelete(s)
  PROVE  IInv'
<1> USE BlankTyped
<1>1. CASE AskRegister(s)
  <2> PICK b \in Browsers, e \in Emails :
        Ask(s, [Blank EXCEPT !.op = "register", !.browser = b, !.email = e])
    BY <1>1 DEF AskRegister
  <2> DEFINE r == [Blank EXCEPT !.op = "register", !.browser = b, !.email = e]
  <2>1. r \in Request /\ WellFormed(r) /\ r.op # "deleteOwner"
    BY DEF Blank, Request, Ops, WellFormed
  <2> QED
    BY <2>1, AskKeeps
<1>2. CASE AskLogin(s)
  <2> PICK b \in Browsers, a \in Accounts :
        Ask(s, [Blank EXCEPT !.op = "mint", !.browser = b, !.account = a])
    BY <1>2 DEF AskLogin
  <2> DEFINE r == [Blank EXCEPT !.op = "mint", !.browser = b, !.account = a]
  <2>1. r \in Request /\ WellFormed(r) /\ r.op # "deleteOwner"
    BY DEF Blank, Request, Ops, WellFormed
  <2> QED
    BY <2>1, AskKeeps
<1>3. CASE AskRefresh(s)
  <2> PICK b \in Browsers :
        /\ cookie[b] # None
        /\ \/ Ask(s, [Blank EXCEPT !.op = "rotate", !.browser = b, !.token = cookie[b],
                                   !.seen = now])
           \/ Ask(s, [Blank EXCEPT !.browser = b])
    BY <1>3 DEF AskRefresh
  <2>1. cookie[b] \in Tokens /\ now \in Nat
    BY TimeAssumption DEF IInv, TypeOK
  <2>2. CASE Ask(s, [Blank EXCEPT !.op = "rotate", !.browser = b, !.token = cookie[b],
                                  !.seen = now])
    <3> DEFINE r == [Blank EXCEPT !.op = "rotate", !.browser = b, !.token = cookie[b],
                                  !.seen = now]
    <3>1. r \in Request /\ WellFormed(r) /\ r.op # "deleteOwner"
      BY <2>1 DEF Blank, Request, Ops, WellFormed
    <3> QED
      BY <2>2, <3>1, AskKeeps
  <2>3. CASE Ask(s, [Blank EXCEPT !.browser = b])
    <3> DEFINE r == [Blank EXCEPT !.browser = b]
    <3>1. r \in Request /\ WellFormed(r) /\ r.op # "deleteOwner"
      BY DEF Blank, Request, Ops, WellFormed
    <3> QED
      BY <2>3, <3>1, AskKeeps
  <2> QED
    BY <2>2, <2>3
<1>4. CASE AskLogout(s)
  <2> PICK b \in Browsers :
        /\ cookie[b] # None
        /\ Ask(s, [Blank EXCEPT !.op = "revoke", !.browser = b, !.token = cookie[b]])
    BY <1>4 DEF AskLogout
  <2> DEFINE r == [Blank EXCEPT !.op = "revoke", !.browser = b, !.token = cookie[b]]
  <2>1. cookie[b] \in Tokens
    BY DEF IInv, TypeOK
  <2>2. r \in Request /\ WellFormed(r) /\ r.op # "deleteOwner"
    BY <2>1 DEF Blank, Request, Ops, WellFormed
  <2> QED
    BY <2>2, AskKeeps
<1>5. CASE AskHire(s)
  <2> PICK u \in Users, e \in Emails, active \in BOOLEAN :
        Ask(s, [Blank EXCEPT !.op = "hire", !.account = u, !.email = e, !.flag = active])
    BY <1>5 DEF AskHire
  <2> DEFINE r == [Blank EXCEPT !.op = "hire", !.account = u, !.email = e, !.flag = active]
  <2>1. r \in Request /\ WellFormed(r) /\ r.op # "deleteOwner"
    BY DEF Blank, Request, Ops, WellFormed, Accounts
  <2> QED
    BY <2>1, AskKeeps
<1>6. CASE AskEdit(s)
  <2> PICK w \in Waiters, e \in Emails, active \in BOOLEAN :
        Ask(s, [Blank EXCEPT !.op = "edit", !.account = w, !.email = e, !.flag = active])
    BY <1>6 DEF AskEdit
  <2> DEFINE r == [Blank EXCEPT !.op = "edit", !.account = w, !.email = e, !.flag = active]
  <2>1. r \in Request /\ WellFormed(r) /\ r.op # "deleteOwner"
    BY DEF Blank, Request, Ops, WellFormed, Accounts
  <2> QED
    BY <2>1, AskKeeps
<1>7. CASE AskToggle(s)
  <2> PICK u \in Users :
        Ask(s, [Blank EXCEPT !.op = "toggle", !.account = u,
                             !.flag = (restaurant[u] = "active")])
    BY <1>7 DEF AskToggle
  <2> DEFINE r == [Blank EXCEPT !.op = "toggle", !.account = u,
                                !.flag = (restaurant[u] = "active")]
  <2>1. r \in Request /\ WellFormed(r) /\ r.op # "deleteOwner"
    BY DEF Blank, Request, Ops, WellFormed, Accounts
  <2> QED
    BY <2>1, AskKeeps
<1>8. CASE AskDelete(s)
  <2> PICK u \in Users : Ask(s, [Blank EXCEPT !.op = "delete", !.account = u])
    BY <1>8 DEF AskDelete
  <2> DEFINE r == [Blank EXCEPT !.op = "delete", !.account = u]
  <2>1. r \in Request /\ WellFormed(r) /\ r.op # "deleteOwner"
    BY DEF Blank, Request, Ops, WellFormed, Accounts
  <2> QED
    BY <2>1, AskKeeps
<1> QED
  BY <1>1, <1>2, <1>3, <1>4, <1>5, <1>6, <1>7, <1>8

LEMMA SessionStepsKeep ==
  ASSUME IInv, NEW s \in Requests, Mint(s) \/ Rotate(s) \/ Revoke(s)
  PROVE  IInv'
<1> USE DEF IInv
<1>1. SessionRows
  BY DEF Tables, NoOrphans, SessionRows
<1>2. /\ UNCHANGED <<account, restaurant, cookie, now>>
      /\ req[s] # None /\ req[s].browser \in Browsers /\ req[s] \in Request
  BY DEF Mint, Rotate, Revoke, Runs, RequestsWellFormed, WellFormed, TypeOK
<1>3. SUFFICES /\ session' \in [Tokens -> Session \cup {None}]
               /\ Rooted' /\ OneUnrevoked' /\ SessionRows'
               /\ \E token \in Tokens \cup {None} : AnswerWith(s, token)
  <2>1. \E token \in Tokens \cup {None} : AnswerWith(s, token)
    BY <1>3
  <2>2. /\ req' \in [Requests -> Request \cup {None}]
        /\ RequestsWellFormed'
        /\ \A q \in Requests : Runs(q, "deleteOwner")' =>
             q # s /\ req'[q] = req[q] /\ Runs(q, "deleteOwner")
    BY <1>2, <2>1, AnswerEffect
  <2>3. TypeOK'
    BY <1>2, <1>3, <2>2 DEF TypeOK
  <2>4. Leaving'
    BY <1>2, <2>2, LeavingKept DEF Exists
  <2>5. NoOrphans'
    BY <1>2, <1>3 DEF Tables, NoOrphans, SessionRows, Exists
  <2> QED
    BY <1>3, <2>2, <2>3, <2>4, <2>5 DEF Tables
<1>4. CASE Mint(s)
  <2>1. PICK t \in Tokens :
          /\ Unused(t)
          /\ session' = [session EXCEPT ![t] =
               [account |-> req[s].account, expires |-> now + Lifetime,
                revoked |-> FALSE, login |-> t, signedOut |-> FALSE]]
          /\ AnswerWith(s, t)
    BY <1>4 DEF Mint
  <2>2. req[s].account \in Accounts /\ Exists(req[s].account)
    BY <1>4 DEF Mint, Runs, RequestsWellFormed, WellFormed
  <2> QED
    BY <1>1, <1>2, <2>1, <2>2, MintEffect DEF Tables
<1>5. CASE Rotate(s)
  <2> DEFINE t == req[s].token
  <2>1. t \in Tokens
    BY <1>5 DEF Rotate, Runs, RequestsWellFormed, WellFormed
  <2>2. CASE Claimable(t, req[s].seen)
    <3>1. PICK next \in Tokens :
            /\ Unused(next)
            /\ session' = [session EXCEPT ![t].revoked = TRUE, ![next] = Successor(t)]
            /\ AnswerWith(s, next)
      BY <1>5, <2>2 DEF Rotate
    <3> HIDE DEF t
    <3> QED
      BY <1>1, <1>2, <2>1, <2>2, <3>1, RotateEffect DEF Tables
  <2>3. CASE ~Claimable(t, req[s].seen)
    <3>1. AnswerWith(s, None) /\ UNCHANGED <<account, session>>
      BY <1>2, <1>5, <2>3 DEF Rotate
    <3> QED
      BY <1>1, <3>1 DEF Tables, TypeOK, Rooted, OneUnrevoked, Unrevoked, SessionRows, Exists
  <2> QED
    BY <2>2, <2>3
<1>6. CASE Revoke(s)
  <2>1. CASE AnswerWith(s, None) /\ UNCHANGED session
    BY <1>1, <1>2, <2>1
    DEF Tables, TypeOK, Rooted, OneUnrevoked, Unrevoked, SessionRows, Exists
  <2>2. CASE /\ session' = [t \in Tokens |->
                  IF t = req[s].token /\ session[t] # None THEN SignedOut(session[t]) ELSE session[t]]
             /\ AnswerWith(s, None)
    <3>1. Rooted' /\ OneUnrevoked' /\ SessionRows' /\ session' \in [Tokens -> Session \cup {None}]
      BY <1>1, <1>2, <2>2, RevokeEffect, RowsKept DEF Tables
    <3> QED
      BY <2>2, <3>1
  <2> QED
    BY <1>6, <2>1, <2>2 DEF Revoke
<1> QED
  BY <1>4, <1>5, <1>6

LEMMA AnswersKeep ==
  ASSUME IInv, NEW s \in Requests, Answer(s) \/ Abandon(s)
  PROVE  IInv'
<1> USE DEF IInv
<1>1. Finish(s) /\ UNCHANGED <<db, now>>
  BY DEF Answer, Abandon
<1>2. cookie' \in [Browsers -> Tokens \cup {None}]
  <2>1. CASE Answer(s)
    <3>1. req[s].token \in Tokens \cup {None} /\ req[s].browser \in Browsers
      BY <2>1 DEF Answer, Runs, TypeOK, Request, RequestsWellFormed, WellFormed
    <3> QED
      BY <2>1, <3>1 DEF Answer, TypeOK
  <2>2. CASE Abandon(s)
    BY <2>2 DEF Abandon, TypeOK
  <2> QED
    BY <2>1, <2>2
<1>3. /\ req' \in [Requests -> Request \cup {None}]
      /\ RequestsWellFormed'
      /\ \A q \in Requests : Runs(q, "deleteOwner")' =>
           q # s /\ req'[q] = req[q] /\ Runs(q, "deleteOwner")
  BY <1>1, FinishEffect
<1>4. TypeOK'
  BY <1>1, <1>2, <1>3 DEF TypeOK, db
<1>5. Leaving'
  BY <1>1, <1>3, LeavingKept DEF Exists, db
<1> QED
  BY <1>1, <1>3, <1>4, <1>5, SameRows

LEMMA RegisterKeeps ==
  ASSUME IInv, NEW s \in Requests, CommitRegister(s)
  PROVE  IInv'
<1> USE DEF IInv
<1>1. PICK u \in Users :
        /\ ~Exists(u)
        /\ account' = [account EXCEPT ![u] =
             [email |-> req[s].email, active |-> TRUE, of |-> u]]
        /\ restaurant' = [restaurant EXCEPT ![u] = "active"]
        /\ req' = [req EXCEPT ![s].op = "mint", ![s].account = u]
  BY DEF CommitRegister
<1>2. /\ UNCHANGED <<session, cookie, now>>
      /\ req[s] # None /\ req[s] \in Request /\ req[s].op = "register"
      /\ req[s].email \in Emails /\ req[s].browser \in Browsers
      /\ u \in Accounts /\ u \notin Waiters
  BY AccountsAssumption DEF CommitRegister, Runs, TypeOK, RequestsWellFormed, WellFormed, Accounts
<1> DEFINE a == [email |-> req[s].email, active |-> TRUE, of |-> u]
           r == [req[s] EXCEPT !.op = "mint", !.account = u]
<1>3. a \in Account /\ a # None
  <2>1. a \in Account
    BY <1>2 DEF Account
  <2> QED
    BY <2>1, NoneIsNoRow
<1>4. /\ r \in Request /\ r.op = "mint" /\ r.browser \in Browsers /\ r.account \in Accounts
  BY <1>2 DEF Request, Ops
<1>5. req' = [req EXCEPT ![s] = r]
  BY <1>1, <1>2 DEF TypeOK
<1> HIDE DEF a, r
<1>6. /\ account' \in [Accounts -> Account \cup {None}]
      /\ \A v \in Accounts : account'[v] = IF v = u THEN a ELSE account[v]
  BY <1>1, <1>3 DEF TypeOK, a
<1>7. /\ restaurant' \in [Users -> {"none", "active", "suspended"}]
      /\ \A v \in Users : restaurant'[v] = IF v = u THEN "active" ELSE restaurant[v]
  BY <1>1 DEF TypeOK
<1>8. /\ req' \in [Requests -> Request \cup {None}]
      /\ \A q \in Requests : req'[q] = IF q = s THEN r ELSE req[q]
  BY <1>4, <1>5 DEF TypeOK
<1>9. TypeOK'
  BY <1>2, <1>6, <1>7, <1>8 DEF TypeOK
<1>10. RequestsWellFormed'
  BY <1>4, <1>8 DEF RequestsWellFormed, WellFormed
<1>11. Leaving'
  <2>1. \A q \in Requests : Runs(q, "deleteOwner")' =>
          req'[q] = req[q] /\ Runs(q, "deleteOwner")
    BY <1>4, <1>8 DEF Runs
  <2>2. \A q \in Requests : Runs(q, "deleteOwner") => req[q].account \in Users
    BY DEF Runs, RequestsWellFormed, WellFormed
  <2>3. \A q \in Requests : Runs(q, "deleteOwner") =>
          /\ Exists(req[q].account) => account'[req[q].account] # None
          /\ restaurant[req[q].account] = "none" => restaurant'[req[q].account] = "none"
    BY <1>1, <1>3, <1>6, <1>7, <2>2 DEF Leaving, Exists, Accounts
  <2> QED
    BY <2>1, <2>3, LeavingKept
<1>12. Rooted' /\ OneUnrevoked'
  BY <1>2 DEF Tables, Rooted, OneUnrevoked, Unrevoked
<1>13. NoOrphans'
  <2>1. \A v \in Accounts : Exists(v) => account'[v] # None
    BY <1>3, <1>6 DEF Exists
  <2>2. \A t \in Tokens : session'[t] # None => account'[session'[t].account] # None
    BY <1>2, <2>1 DEF Tables, NoOrphans, TypeOK, Session
  <2>3. \A v \in Users : restaurant'[v] # "none" => account'[v] # None
    BY <1>3, <1>6, <1>7, <2>1 DEF Tables, NoOrphans, Accounts
  <2>4. \A w \in Waiters : account'[w] # None => restaurant'[account'[w].of] # "none"
    <3> SUFFICES ASSUME NEW w \in Waiters, account'[w] # None
        PROVE  restaurant'[account'[w].of] # "none"
      OBVIOUS
    <3>1. account'[w] = account[w]
      BY <1>2, <1>6 DEF Accounts
    <3>2. account[w].of \in Users /\ restaurant[account[w].of] # "none"
      BY <3>1 DEF Tables, NoOrphans, Exists, TypeOK, Account, Accounts
    <3> QED
      BY <1>7, <3>1, <3>2
  <2> QED
    BY <2>2, <2>3, <2>4 DEF NoOrphans, Exists
<1> QED
  BY <1>9, <1>10, <1>11, <1>12, <1>13 DEF Tables

(* Hiring, editing and switching write one waiter of a restaurant that is  *)
(* there.                                                                  *)
LEMMA WaiterWritten ==
  ASSUME TypeOK, Tables, Leaving, RequestsWellFormed,
         NEW w \in Waiters, NEW row \in Account, restaurant[row.of] # "none",
         account' = [account EXCEPT ![w] = row],
         UNCHANGED <<restaurant, session, cookie, now>>,
         req' = req \/ \E s \in Requests : Finish(s)
  PROVE  IInv'
<1>1. /\ w \in Accounts /\ w \notin Users /\ row # None
  BY AccountsAssumption, NoneIsNoRow DEF Accounts
<1>2. /\ account' \in [Accounts -> Account \cup {None}]
      /\ \A v \in Accounts : account'[v] = IF v = w THEN row ELSE account[v]
  BY <1>1 DEF TypeOK
<1>3. /\ req' \in [Requests -> Request \cup {None}]
      /\ RequestsWellFormed'
      /\ \A q \in Requests : Runs(q, "deleteOwner")' =>
           req'[q] = req[q] /\ Runs(q, "deleteOwner")
  <2>1. CASE req' = req
    BY <2>1 DEF TypeOK, RequestsWellFormed, WellFormed, Runs
  <2>2. CASE \E s \in Requests : Finish(s)
    BY <2>2, FinishEffect
  <2> QED
    BY <2>1, <2>2
<1>4. TypeOK'
  BY <1>2, <1>3 DEF TypeOK
<1>5. Rooted' /\ OneUnrevoked'
  BY DEF Tables, Rooted, OneUnrevoked, Unrevoked
<1>6. \A v \in Accounts : Exists(v) => account'[v] # None
  BY <1>1, <1>2 DEF Exists
<1>7. NoOrphans'
  <2>1. \A t \in Tokens : session'[t] # None => account'[session'[t].account] # None
    BY <1>6 DEF Tables, NoOrphans, TypeOK, Session
  <2>2. \A v \in Users : restaurant'[v] # "none" => account'[v] # None
    BY <1>6 DEF Tables, NoOrphans, Accounts
  <2>3. \A v \in Waiters : account'[v] # None => restaurant'[account'[v].of] # "none"
    BY <1>2 DEF Tables, NoOrphans, Exists, Accounts
  <2> QED
    BY <2>1, <2>2, <2>3 DEF NoOrphans, Exists
<1>8. Leaving'
  <2>1. \A q \in Requests : Runs(q, "deleteOwner") => req[q].account \in Accounts
    BY DEF Runs, RequestsWellFormed, WellFormed, Accounts
  <2> QED
    BY <1>3, <1>6, <2>1, LeavingKept
<1> QED
  BY <1>3, <1>4, <1>5, <1>7, <1>8 DEF IInv, Tables

LEMMA StaffKeeps ==
  ASSUME IInv,
         \/ \E s \in Requests : CommitHire(s) \/ CommitEdit(s)
         \/ \E w \in Waiters : ToggleStatus(w)
  PROVE  IInv'
<1> USE DEF IInv
<1>1. ASSUME NEW s \in Requests, CommitHire(s) PROVE IInv'
  <2>1. PICK w \in Waiters : account' = [account EXCEPT ![w] =
          [email |-> req[s].email, active |-> req[s].flag, of |-> req[s].account]]
    BY <1>1 DEF CommitHire
  <2> DEFINE row == [email |-> req[s].email, active |-> req[s].flag, of |-> req[s].account]
  <2>2. /\ req[s] \in Request /\ req[s].email \in Emails /\ req[s].account \in Users
        /\ restaurant[req[s].account] # "none"
        /\ Finish(s) /\ UNCHANGED <<restaurant, session, cookie, now>>
    BY <1>1 DEF CommitHire, Runs, TypeOK, RequestsWellFormed, WellFormed
  <2>3. row \in Account /\ row.of = req[s].account
    BY <2>2 DEF Account, Request
  <2> HIDE DEF row
  <2>4. account' = [account EXCEPT ![w] = row]
    BY <2>1 DEF row
  <2> QED
    BY <2>2, <2>3, <2>4, WaiterWritten
<1>2. ASSUME NEW s \in Requests, CommitEdit(s) PROVE IInv'
  <2> DEFINE w == req[s].account
             row == [account[w] EXCEPT !.email = req[s].email, !.active = req[s].flag]
  <2>1. /\ req[s] \in Request /\ req[s].email \in Emails /\ w \in Waiters /\ account[w] # None
        /\ account' = [account EXCEPT ![w].email = req[s].email, ![w].active = req[s].flag]
        /\ Finish(s) /\ UNCHANGED <<restaurant, session, cookie, now>>
    BY <1>2 DEF CommitEdit, Runs, Exists, TypeOK, RequestsWellFormed, WellFormed
  <2>2. account[w] \in Account /\ restaurant[account[w].of] # "none"
    BY <2>1 DEF TypeOK, Tables, NoOrphans, Exists, Accounts
  <2>3. row \in Account /\ row.of = account[w].of
    BY <2>1, <2>2 DEF Account, Request
  <2>4. account' = [account EXCEPT ![w] = row]
    BY <2>1, <2>2 DEF TypeOK, Accounts
  <2> HIDE DEF row, w
  <2> QED
    BY <2>1, <2>2, <2>3, <2>4, WaiterWritten
<1>3. ASSUME NEW w \in Waiters, ToggleStatus(w) PROVE IInv'
  <2>1. PICK active \in BOOLEAN : account' = [account EXCEPT ![w].active = active]
    BY <1>3 DEF ToggleStatus
  <2> DEFINE row == [account[w] EXCEPT !.active = active]
  <2>2. account[w] # None /\ UNCHANGED <<restaurant, session, cookie, now, req>>
    BY <1>3 DEF ToggleStatus, Exists
  <2>3. account[w] \in Account /\ restaurant[account[w].of] # "none"
    BY <2>2 DEF TypeOK, Tables, NoOrphans, Exists, Accounts
  <2>4. row \in Account /\ row.of = account[w].of
    BY <2>3 DEF Account
  <2>5. account' = [account EXCEPT ![w] = row]
    BY <2>1, <2>3 DEF TypeOK, Accounts
  <2> HIDE DEF row
  <2> QED
    BY <2>2, <2>3, <2>4, <2>5, WaiterWritten
<1> QED
  BY <1>1, <1>2, <1>3

LEMMA DeletionsKeep ==
  ASSUME IInv,
         \/ \E s \in Requests : DeleteRestaurant(s) \/ DeleteOwner(s)
         \/ \E w \in Waiters : DeleteWaiter(w)
  PROVE  IInv'
<1> USE DEF IInv
<1>1. SessionRows /\ Rooted /\ OneUnrevoked
  BY DEF Tables, NoOrphans, SessionRows
<1>2. \A q \in Requests : Runs(q, "deleteOwner") => req[q].account \in Users
  BY DEF Runs, RequestsWellFormed, WellFormed
<1>3. ASSUME NEW w \in Waiters, DeleteWaiter(w) PROVE IInv'
  <2>1. Cascade({w}) /\ UNCHANGED <<restaurant, cookie, now, req>>
    BY <1>3 DEF DeleteWaiter
  <2>2. {w} \in SUBSET Accounts /\ w \notin Users
    BY AccountsAssumption DEF Accounts
  <2>3. /\ account' \in [Accounts -> Account \cup {None}]
        /\ session' \in [Tokens -> Session \cup {None}]
        /\ \A a \in Accounts : account'[a] = IF a = w THEN None ELSE account[a]
        /\ Rooted' /\ OneUnrevoked' /\ SessionRows'
    BY <1>1, <2>1, <2>2, CascadeEffect
  <2>4. NoOrphans'
    BY <2>1, <2>2, <2>3 DEF NoOrphans, SessionRows, Exists, Accounts, Tables
  <2>5. Leaving'
    <3>1. \A q \in Requests : Runs(q, "deleteOwner") =>
            /\ Exists(req[q].account) => account'[req[q].account] # None
            /\ restaurant[req[q].account] = "none" => restaurant'[req[q].account] = "none"
      BY <1>2, <2>1, <2>2, <2>3 DEF Exists, Accounts
    <3> QED
      BY <2>1, <3>1, LeavingKept DEF Runs
  <2> QED
    BY <2>1, <2>3, <2>4, <2>5 DEF TypeOK, Tables, RequestsWellFormed, WellFormed
<1>4. ASSUME NEW s \in Requests, DeleteRestaurant(s) PROVE IInv'
  <2> DEFINE u == req[s].account
             staff == {w \in Waiters : Exists(w) /\ account[w].of = u}
             r == [req[s] EXCEPT !.op = "deleteOwner"]
  <2>1. /\ u \in Users /\ restaurant[u] # "none" /\ req[s] # None /\ req[s] \in Request
        /\ req[s].op = "delete"
        /\ restaurant' = [restaurant EXCEPT ![u] = "none"]
        /\ Cascade(staff)
        /\ req' = [req EXCEPT ![s].op = "deleteOwner"]
        /\ UNCHANGED <<cookie, now>>
    BY <1>4 DEF DeleteRestaurant, Runs, TypeOK, RequestsWellFormed, WellFormed
  <2>2. staff \in SUBSET Accounts /\ staff \cap Users = {}
    BY AccountsAssumption DEF Accounts
  <2>3. r \in Request /\ r.op = "deleteOwner" /\ r.account = u
    BY <2>1 DEF Request, Ops
  <2>4. req' = [req EXCEPT ![s] = r]
    BY <2>1 DEF TypeOK
  <2>5. \A w \in Waiters : Exists(w) /\ account[w].of = u => w \in staff
    OBVIOUS
  <2> HIDE DEF u, staff, r
  <2>6. /\ account' \in [Accounts -> Account \cup {None}]
        /\ session' \in [Tokens -> Session \cup {None}]
        /\ \A a \in Accounts : account'[a] = IF a \in staff THEN None ELSE account[a]
        /\ Rooted' /\ OneUnrevoked' /\ SessionRows'
    BY <1>1, <2>1, <2>2, CascadeEffect
  <2>7. /\ restaurant' \in [Users -> {"none", "active", "suspended"}]
        /\ \A v \in Users : restaurant'[v] = IF v = u THEN "none" ELSE restaurant[v]
    BY <2>1 DEF TypeOK
  <2>8. /\ req' \in [Requests -> Request \cup {None}]
        /\ \A q \in Requests : req'[q] = IF q = s THEN r ELSE req[q]
    BY <2>3, <2>4 DEF TypeOK
  <2>9. TypeOK'
    BY <2>1, <2>6, <2>7, <2>8 DEF TypeOK
  <2>10. RequestsWellFormed'
    BY <2>1, <2>3, <2>8 DEF RequestsWellFormed, WellFormed
  <2>11. NoOrphans'
    <3>1. \A v \in Users : restaurant'[v] # "none" => account'[v] # None
      BY <2>2, <2>6, <2>7 DEF Tables, NoOrphans, Exists, Accounts
    <3>2. \A w \in Waiters : account'[w] # None => restaurant'[account'[w].of] # "none"
      <4> SUFFICES ASSUME NEW w \in Waiters, account'[w] # None
          PROVE  restaurant'[account'[w].of] # "none"
        OBVIOUS
      <4>1. w \in Accounts /\ w \notin staff /\ account'[w] = account[w] /\ Exists(w)
        BY <2>6 DEF Accounts, Exists
      <4>2. account[w].of \in Users /\ account[w].of # u
        BY <2>5, <4>1 DEF TypeOK, Account, Exists
      <4> QED
        BY <2>7, <4>1, <4>2 DEF Tables, NoOrphans
    <3> QED
      BY <2>6, <3>1, <3>2 DEF NoOrphans, SessionRows, Exists
  <2>12. Leaving'
    <3>1. \A q \in Requests : Runs(q, "deleteOwner") =>
            q # s /\ req[q].account \in Users /\ req[q].account # u
      BY <1>2, <2>1 DEF Leaving, Runs
    <3>2. \A q \in Requests : Runs(q, "deleteOwner")' =>
            \/ q = s /\ req'[q].account = u
            \/ q # s /\ Runs(q, "deleteOwner") /\ req'[q] = req[q]
      BY <2>3, <2>8 DEF Runs
    <3>3. \A q \in Requests : Runs(q, "deleteOwner")' =>
            account'[req'[q].account] # None /\ restaurant'[req'[q].account] = "none"
      BY <2>1, <2>2, <2>6, <2>7, <3>1, <3>2 DEF Leaving, Exists, Accounts, Tables, NoOrphans
    <3>4. \A q, p \in Requests :
            Runs(q, "deleteOwner")' /\ Runs(p, "deleteOwner")' /\ req'[q].account = req'[p].account
              => q = p
      BY <3>1, <3>2 DEF Leaving
    <3> QED
      BY <3>3, <3>4 DEF Leaving, Exists
  <2> QED
    BY <2>6, <2>9, <2>10, <2>11, <2>12 DEF Tables
<1>5. ASSUME NEW s \in Requests, DeleteOwner(s) PROVE IInv'
  <2> DEFINE u == req[s].account
  <2>1. Runs(s, "deleteOwner") /\ Cascade({u}) /\ Finish(s) /\ UNCHANGED <<restaurant, cookie, now>>
    BY <1>5 DEF DeleteOwner
  <2>2. u \in Users /\ u \notin Waiters /\ {u} \in SUBSET Accounts /\ restaurant[u] = "none"
    BY <1>2, <2>1, AccountsAssumption DEF Leaving, Accounts
  <2>3. \A q \in Requests : Runs(q, "deleteOwner") /\ req[q].account = u => q = s
    BY <2>1 DEF Leaving
  <2> HIDE DEF u
  <2>4. /\ account' \in [Accounts -> Account \cup {None}]
        /\ session' \in [Tokens -> Session \cup {None}]
        /\ \A a \in Accounts : account'[a] = IF a = u THEN None ELSE account[a]
        /\ Rooted' /\ OneUnrevoked' /\ SessionRows'
    BY <1>1, <2>1, <2>2, CascadeEffect
  <2>5. /\ req' \in [Requests -> Request \cup {None}]
        /\ RequestsWellFormed'
        /\ \A q \in Requests : Runs(q, "deleteOwner")' =>
             q # s /\ req'[q] = req[q] /\ Runs(q, "deleteOwner")
    BY <2>1, FinishEffect
  <2>6. NoOrphans'
    BY <2>1, <2>2, <2>4 DEF NoOrphans, SessionRows, Exists, Accounts, Tables
  <2>7. Leaving'
    <3>1. \A q \in Requests : Runs(q, "deleteOwner")' =>
            account'[req'[q].account] # None /\ restaurant'[req'[q].account] = "none"
      BY <1>2, <2>1, <2>3, <2>4, <2>5 DEF Leaving, Exists, Accounts
    <3>2. \A q, p \in Requests :
            Runs(q, "deleteOwner")' /\ Runs(p, "deleteOwner")' /\ req'[q].account = req'[p].account
              => q = p
      BY <2>5 DEF Leaving
    <3> QED
      BY <3>1, <3>2 DEF Leaving, Exists
  <2> QED
    BY <2>1, <2>4, <2>5, <2>6, <2>7 DEF TypeOK, Tables
<1> QED
  BY <1>3, <1>4, <1>5

LEMMA ToggleKeeps ==
  ASSUME IInv, NEW s \in Requests, CommitToggle(s)
  PROVE  IInv'
<1> USE DEF IInv
<1> DEFINE u == req[s].account
<1>1. /\ u \in Users /\ restaurant[u] # "none"
      /\ Finish(s) /\ UNCHANGED <<account, session, cookie, now>>
      /\ restaurant' = [restaurant EXCEPT ![u] = IF req[s].flag THEN "suspended" ELSE "active"]
  BY DEF CommitToggle, Runs, RequestsWellFormed, WellFormed
<1> HIDE DEF u
<1>2. /\ restaurant' \in [Users -> {"none", "active", "suspended"}]
      /\ \A v \in Users : (restaurant'[v] = "none") <=> (restaurant[v] = "none")
  BY <1>1 DEF TypeOK
<1>3. /\ req' \in [Requests -> Request \cup {None}]
      /\ RequestsWellFormed'
      /\ \A q \in Requests : Runs(q, "deleteOwner")' =>
           q # s /\ req'[q] = req[q] /\ Runs(q, "deleteOwner")
  BY <1>1, FinishEffect
<1>4. \A w \in Waiters : Exists(w) => account[w].of \in Users
  BY DEF TypeOK, Account, Accounts, Exists
<1>5. NoOrphans'
  BY <1>1, <1>2, <1>4 DEF Tables, NoOrphans, Exists
<1>6. Leaving'
  <2>1. \A q \in Requests : Runs(q, "deleteOwner") =>
          /\ Exists(req[q].account) => account'[req[q].account] # None
          /\ restaurant[req[q].account] = "none" => restaurant'[req[q].account] = "none"
    BY <1>1, <1>2 DEF Runs, RequestsWellFormed, WellFormed, Exists
  <2> QED
    BY <1>3, <2>1, LeavingKept
<1> QED
  BY <1>1, <1>2, <1>3, <1>5, <1>6
  DEF TypeOK, Tables, Rooted, OneUnrevoked, Unrevoked

LEMMA TickKeeps == ASSUME IInv, Tick PROVE IInv'
<1>1. now' \in 0 .. MaxTime
  BY TimeAssumption DEF IInv, TypeOK, Tick
<1> QED
  BY <1>1, SameRows
  DEF IInv, TypeOK, Tick, db, RequestsWellFormed, WellFormed, Leaving, Runs, Exists

LEMMA InvNext == ASSUME IInv, [Next]_vars PROVE IInv'
<1>1. CASE UNCHANGED vars
  BY <1>1, SameRows
  DEF IInv, TypeOK, vars, db, RequestsWellFormed, WellFormed, Leaving, Runs, Exists
<1>2. CASE Next
  BY <1>2, AsksKeep, SessionStepsKeep, AnswersKeep, RegisterKeeps, StaffKeeps, DeletionsKeep,
     ToggleKeeps, TickKeeps
  DEF Next
<1> QED
  BY <1>1, <1>2

-----------------------------------------------------------------------------
(* Theorems                                                                *)

(* Accounts, sessions, cookies and requests are well typed, and the rows   *)
(* that the steps of AuthSessions write refer to one another as IInv says. *)
THEOREM Invariance == Spec => []IInv
<1>1. Init => IInv
  BY InvInit
<1>2. IInv /\ [Next]_vars => IInv'
  BY InvNext
<1> QED
  BY <1>1, <1>2, PTL DEF Spec

(* Every reachable state of AuthSessions is well typed.                    *)
THEOREM TypeCorrect == Spec => []TypeOK
<1>1. IInv => TypeOK
  BY DEF IInv
<1> QED
  BY <1>1, Invariance, PTL

(* However many refreshes race, a login has one token that is good         *)
(* (refreshSession, auth.service.ts).                                      *)
THEOREM LoginsHaveOneToken == Spec => []OneLiveToken
<1>1. IInv => OneLiveToken
  <2> SUFFICES ASSUME IInv, NEW login \in Tokens
      PROVE  Cardinality({t \in Chain(login) : ~session[t].revoked}) <= 1
    BY DEF OneLiveToken
  <2> DEFINE live == {t \in Chain(login) : ~session[t].revoked}
  <2>1. \A t, v \in live : t = v
    BY DEF IInv, Tables, OneUnrevoked, Unrevoked, Chain
  <2> SUFFICES Cardinality(live) <= 1
    OBVIOUS
  <2> HIDE DEF live
  <2>2. CASE live = {}
    BY <2>2, FS_EmptySet
  <2>3. CASE live # {}
    <3>1. PICK t : live = {t}
      BY <2>1, <2>3
    <3>2. Cardinality({t}) = 1
      BY FS_Singleton
    <3> QED
      BY <3>1, <3>2
  <2> QED
    BY <2>2, <2>3
<1> QED
  BY <1>1, Invariance, PTL

(* Sessions, restaurants and waiters do not outlive what they belong to,   *)
(* whatever is deleted between the statements of other requests.           *)
THEOREM NothingOrphaned == Spec => []NoOrphans
<1>1. IInv => NoOrphans
  BY DEF IInv, Tables
<1> QED
  BY <1>1, Invariance, PTL

(* Each token of the next state continues one of this state, which was     *)
(* revoked only if the token is, or it begins a login.                     *)
Continues(t) ==
  \E v \in Tokens :
    /\ session[v] # None
    /\ session'[t].login = session[v].login
    /\ session'[t].expires = session[v].expires
    /\ session[v].revoked => session'[t].revoked

Begins(t) == session'[t].login = t /\ Chain(t) = {}

(* What a step may do to the sessions.                                     *)
LEMMA SessionSteps ==
  ASSUME [Next]_vars
  PROVE  \/ \E s \in Requests : Mint(s) \/ Rotate(s) \/ Revoke(s)
         \/ \E gone : Cascade(gone)
         \/ UNCHANGED session
<1>1. ASSUME NEW s \in Requests,
             \/ AskRegister(s) \/ AskLogin(s) \/ AskRefresh(s) \/ AskLogout(s)
             \/ AskHire(s) \/ AskEdit(s) \/ AskToggle(s) \/ AskDelete(s)
      PROVE  UNCHANGED session
  BY <1>1 DEF AskRegister, AskLogin, AskRefresh, AskLogout, AskHire, AskEdit, AskToggle,
              AskDelete, Ask, db
<1>2. ASSUME NEW s \in Requests,
             \/ CommitRegister(s) \/ Answer(s) \/ Abandon(s) \/ CommitHire(s)
             \/ CommitEdit(s) \/ CommitToggle(s)
      PROVE  UNCHANGED session
  BY <1>2 DEF CommitRegister, Answer, Abandon, CommitHire, CommitEdit, CommitToggle, db
<1>3. ASSUME NEW s \in Requests, DeleteRestaurant(s) \/ DeleteOwner(s)
      PROVE  \E gone : Cascade(gone)
  BY <1>3 DEF DeleteRestaurant, DeleteOwner
<1>4. ASSUME NEW w \in Waiters, ToggleStatus(w) \/ DeleteWaiter(w)
      PROVE  UNCHANGED session \/ \E gone : Cascade(gone)
  <2>1. CASE ToggleStatus(w)
    BY <2>1 DEF ToggleStatus
  <2>2. CASE DeleteWaiter(w)
    BY <2>2 DEF DeleteWaiter
  <2> QED
    BY <1>4, <2>1, <2>2
<1>5. CASE Tick \/ UNCHANGED vars
  BY <1>5 DEF Tick, vars, db
<1> QED
  BY <1>1, <1>2, <1>3, <1>4, <1>5 DEF Next

LEMMA TokensContinue ==
  ASSUME IInv, [Next]_vars, NEW t \in Tokens, session'[t] # None
  PROVE  Continues(t) \/ Begins(t)
<1> USE DEF IInv
<1>1. ASSUME session'[t] = session[t] PROVE Continues(t)
  BY <1>1 DEF Continues
<1>2. Rooted /\ OneUnrevoked /\ SessionRows
  BY DEF Tables, NoOrphans, SessionRows
<1>3. ASSUME NEW s \in Requests, Mint(s) PROVE Continues(t) \/ Begins(t)
  <2>1. req[s].account \in Accounts /\ Exists(req[s].account) /\ UNCHANGED account
    BY <1>3 DEF Mint, Runs, RequestsWellFormed, WellFormed
  <2>2. PICK new \in Tokens :
          /\ Unused(new)
          /\ session' = [session EXCEPT ![new] =
               [account |-> req[s].account, expires |-> now + Lifetime,
                revoked |-> FALSE, login |-> new, signedOut |-> FALSE]]
    BY <1>3 DEF Mint
  <2>3. CASE t = new
    <3>1. Chain(new) = {}
      BY <1>2, <2>1, <2>2, MintEffect
    <3>2. session'[new].login = new
      BY <2>2 DEF TypeOK
    <3> QED
      BY <2>3, <3>1, <3>2 DEF Begins
  <2>4. CASE t # new
    BY <1>1, <2>2, <2>4 DEF TypeOK
  <2> QED
    BY <2>3, <2>4
<1>4. ASSUME NEW s \in Requests, Rotate(s) PROVE Continues(t)
  <2> DEFINE old == req[s].token
  <2>1. old \in Tokens /\ UNCHANGED account
    BY <1>4 DEF Rotate, Runs, RequestsWellFormed, WellFormed
  <2>2. CASE Claimable(old, req[s].seen)
    <3>1. PICK next \in Tokens :
            /\ Unused(next)
            /\ session' = [session EXCEPT ![old].revoked = TRUE, ![next] = Successor(old)]
      BY <1>4, <2>2 DEF Rotate
    <3>2. session[old] # None /\ ~session[old].revoked
      BY <2>2 DEF Claimable
    <3> HIDE DEF old
    <3>3. \A v \in Tokens : session'[v] # None =>
            IF v \in {old, next}
              THEN /\ session'[v].login = session[old].login
                   /\ session'[v].expires = session[old].expires
                   /\ session'[v].signedOut = session[old].signedOut
                   /\ v = old => session'[v].revoked
              ELSE session'[v] = session[v]
      BY <1>2, <2>1, <2>2, <3>1, RotateEffect
    <3>4. IF t \in {old, next}
            THEN /\ session'[t].login = session[old].login
                 /\ session'[t].expires = session[old].expires
            ELSE session'[t] = session[t]
      BY <3>3
    <3> QED
      BY <1>1, <2>1, <3>2, <3>4 DEF Continues
  <2>3. CASE ~Claimable(old, req[s].seen)
    BY <1>1, <1>4, <2>3 DEF Rotate
  <2> QED
    BY <2>2, <2>3
<1>5. ASSUME NEW s \in Requests, Revoke(s) PROVE Continues(t)
  <2>1. CASE UNCHANGED session
    BY <1>1, <2>1
  <2>2. CASE session' = [v \in Tokens |->
               IF v = req[s].token /\ session[v] # None THEN SignedOut(session[v]) ELSE session[v]]
    BY <2>2, RevokeEffect DEF Continues, Keeps
  <2> QED
    BY <1>5, <2>1, <2>2 DEF Revoke
<1>6. ASSUME NEW gone, Cascade(gone) PROVE Continues(t)
  BY <1>1, <1>6 DEF Cascade
<1> QED
  BY <1>1, <1>3, <1>4, <1>5, <1>6, SessionSteps

(* A login whose tokens are consumed or have run out stays without a live  *)
(* token, also for a refresh that read its session before.                 *)
THEOREM EndedLoginsStayEnded == Spec => [][EndedStaysEnded]_vars
<1>1. ASSUME IInv, [Next]_vars, NEW login \in Tokens,
             Chain(login) # {}, \A t \in Chain(login) : ~Live(t),
             NEW t \in Chain(login)'
      PROVE  ~Live(t)'
  <2>1. t \in Tokens /\ session'[t] # None /\ session'[t].login = login
    BY <1>1 DEF Chain
  <2>2. ~Begins(t)
    BY <1>1, <2>1 DEF Begins
  <2>3. PICK v \in Tokens :
          /\ session[v] # None
          /\ session'[t].login = session[v].login
          /\ session'[t].expires = session[v].expires
          /\ session[v].revoked => session'[t].revoked
    BY <1>1, <2>1, <2>2, TokensContinue DEF Continues
  <2>4. session[v].revoked \/ ~(session[v].expires > now)
    BY <1>1, <2>1, <2>3 DEF Chain, Live
  <2>5. now \in Nat /\ now' \in Nat /\ session[v].expires \in Nat
    BY <1>1, <2>3, InvNext, TimeAssumption DEF IInv, TypeOK, Session
  <2>6. now' >= now
    <3>1. now' = now \/ now' = now + 1
      BY <1>1 DEF Next, vars, Tick, AskRegister, CommitRegister, AskLogin, Mint, AskRefresh,
         Rotate, AskLogout, Revoke, Answer, Abandon, AskHire, CommitHire, AskEdit, CommitEdit,
         AskToggle, CommitToggle, AskDelete, DeleteRestaurant, DeleteOwner, ToggleStatus,
         DeleteWaiter, Ask
    <3> QED
      BY <2>5, <3>1
  <2>7. session'[t].revoked \/ ~(session'[t].expires > now')
    BY <2>3, <2>4, <2>5, <2>6
  <2> QED
    BY <2>7 DEF Live
<1>2. IInv /\ [Next]_vars => [EndedStaysEnded]_vars
  BY <1>1 DEF EndedStaysEnded
<1> QED
  BY <1>2, Invariance, PTL DEF Spec

(* Only consumed tokens were found by a sign-out, and no token of a login  *)
(* that one found good is unrevoked.                                       *)
SignOuts ==
  /\ \A t \in Tokens : session[t] # None /\ session[t].signedOut => session[t].revoked
  /\ SignedOutStaysOut

LEMMA SignOutsInit == Init => SignOuts
BY DEF Init, SignOuts, SignedOutStaysOut

LEMMA SignOutsNext ==
  ASSUME IInv, SignOuts, [Next]_vars
  PROVE  SignOuts'
<1> USE DEF IInv
<1>1. Rooted /\ OneUnrevoked /\ SessionRows
  BY DEF Tables, NoOrphans, SessionRows
<1>2. \A t \in Tokens : session[t] # None /\ session[t].signedOut => session[t].revoked
  BY DEF SignOuts
<1>3. \A t, v \in Tokens :
        session[t] # None /\ session[v] # None /\ session[v].login = session[t].login
        /\ session[t].signedOut => session[v].revoked
  BY DEF SignOuts, SignedOutStaysOut, Chain
<1>4. ASSUME \A t \in Tokens :
               session'[t] # None /\ session'[t].signedOut => session'[t].revoked,
             \A t, v \in Tokens :
               session'[t] # None /\ session'[v] # None /\ session'[v].login = session'[t].login
               /\ session'[t].signedOut => session'[v].revoked
      PROVE  SignOuts'
  BY <1>4 DEF SignOuts, SignedOutStaysOut, Chain
<1>5. ASSUME NEW s \in Requests, Mint(s) PROVE SignOuts'
  <2>1. req[s].account \in Accounts /\ Exists(req[s].account) /\ UNCHANGED account
    BY <1>5 DEF Mint, Runs, RequestsWellFormed, WellFormed
  <2>2. PICK new \in Tokens :
          /\ Unused(new)
          /\ session' = [session EXCEPT ![new] =
               [account |-> req[s].account, expires |-> now + Lifetime,
                revoked |-> FALSE, login |-> new, signedOut |-> FALSE]]
    BY <1>5 DEF Mint
  <2>3. Chain(new) = {}
    BY <1>1, <2>1, <2>2, MintEffect
  <2>4. /\ session'[new].login = new /\ ~session'[new].signedOut
        /\ \A t \in Tokens \ {new} : session'[t] = session[t]
    BY <2>2 DEF TypeOK
  <2>5. \A t \in Tokens : session[t] # None => session[t].login # new
    BY <2>3 DEF Chain
  <2> QED
    BY <1>2, <1>3, <1>4, <2>4, <2>5
<1>6. ASSUME NEW s \in Requests, Rotate(s) PROVE SignOuts'
  <2> DEFINE old == req[s].token
  <2>1. old \in Tokens /\ UNCHANGED account
    BY <1>6 DEF Rotate, Runs, RequestsWellFormed, WellFormed
  <2>2. CASE Claimable(old, req[s].seen)
    <3>1. PICK next \in Tokens :
            /\ Unused(next)
            /\ session' = [session EXCEPT ![old].revoked = TRUE, ![next] = Successor(old)]
      BY <1>6, <2>2 DEF Rotate
    <3>2. session[old] # None /\ ~session[old].revoked /\ ~session[old].signedOut
      BY <1>2, <2>1, <2>2 DEF Claimable
    <3> HIDE DEF old
    <3>3. \A v \in Tokens : session'[v] # None =>
            IF v \in {old, next}
              THEN /\ session'[v].login = session[old].login
                   /\ session'[v].expires = session[old].expires
                   /\ session'[v].signedOut = session[old].signedOut
                   /\ v = old => session'[v].revoked
              ELSE session'[v] = session[v]
      BY <1>1, <2>1, <2>2, <3>1, RotateEffect
    <3>4. \A t \in Tokens : session[t] # None /\ session[t].signedOut
            => session[t].login # session[old].login
      BY <1>3, <2>1, <3>2
    <3> QED
      BY <1>2, <1>3, <1>4, <3>2, <3>3, <3>4
  <2>3. CASE ~Claimable(old, req[s].seen)
    <3>1. UNCHANGED session
      BY <1>6, <2>3 DEF Rotate
    <3> QED
      BY <1>2, <1>3, <1>4, <3>1
  <2> QED
    BY <2>2, <2>3
<1>7. ASSUME NEW s \in Requests, Revoke(s) PROVE SignOuts'
  <2>1. CASE UNCHANGED session
    BY <1>2, <1>3, <1>4, <2>1
  <2>2. CASE session' = [t \in Tokens |->
               IF t = req[s].token /\ session[t] # None THEN SignedOut(session[t]) ELSE session[t]]
    <3>1. \A t \in Tokens : session'[t] # None =>
            /\ session[t] # None
            /\ session'[t].login = session[t].login
            /\ session[t].revoked => session'[t].revoked
            /\ session'[t] = session[t] \/ session'[t].revoked
            /\ session'[t].signedOut =>
                 \/ session[t].signedOut
                 \/ ~session[t].revoked /\ session'[t].revoked
      BY <1>2, <2>2, RevokeEffect DEF Keeps
    <3>2. \A t, v \in Tokens :
            /\ session[t] # None /\ session[v] # None /\ session[v].login = session[t].login
            /\ ~session[t].revoked /\ ~session[v].revoked
            => t = v
      BY <1>1 DEF OneUnrevoked, Unrevoked
    <3> QED
      BY <1>2, <1>3, <1>4, <3>1, <3>2
  <2> QED
    BY <1>7, <2>1, <2>2 DEF Revoke
<1>8. ASSUME NEW gone, Cascade(gone) PROVE SignOuts'
  <2>1. \A t \in Tokens : session'[t] # None => session'[t] = session[t]
    BY <1>8 DEF Cascade
  <2> QED
    BY <1>2, <1>3, <1>4, <2>1
<1>9. CASE UNCHANGED session
  BY <1>2, <1>3, <1>4, <1>9
<1> QED
  BY <1>5, <1>6, <1>7, <1>8, <1>9, SessionSteps

(* Whatever refreshes are under way when a sign-out finds the good token   *)
(* of its login, none of them leaves the login with a token.               *)
THEOREM SignOutsHold == Spec => []SignedOutStaysOut
<1>1. Init => SignOuts
  BY SignOutsInit
<1>2. IInv /\ SignOuts /\ [Next]_vars => SignOuts'
  BY SignOutsNext
<1>3. SignOuts => SignedOutStaysOut
  BY DEF SignOuts
<1> QED
  BY <1>1, <1>2, <1>3, Invariance, PTL DEF Spec

(* A login ends for good, by a sign-out that found its token good and by   *)
(* running out (revokeRefreshToken and refreshSession, auth.service.ts).   *)
THEOREM LoginsEndForGood == Spec => LoginsEnd
BY SignOutsHold, EndedLoginsStayEnded, PTL DEF LoginsEnd
===============================================================================
