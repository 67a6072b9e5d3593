----------------------------- MODULE AuthSessions -----------------------------
(***************************************************************************)
(* Accounts and refresh sessions: owners register, staff is hired, browsers*)
(* sign in, rotate their refresh token and sign out, and the administrator *)
(* deletes restaurants, while other requests run in between.               *)
(*                                                                         *)
(* Sources: services/auth.service.ts, controllers/auth.controller.ts,      *)
(* middlewares/auth.middleware.ts, lib/auth-cookie.ts,                     *)
(* repositories/user.repository.ts, controllers/waiter.controller.ts,      *)
(* controllers/superadmin.controller.ts (restaurants).                     *)
(*                                                                         *)
(* A request reads (Ask...), writes one statement or transaction per step, *)
(* and is answered (Answer), which sets or clears the cookie of the        *)
(* browser it came from.  The tabs of a browser share the cookie.  Answers *)
(* come in any order or not at all (Abandon, which is also the failure of  *)
(* a request between two of its statements).                               *)
(*                                                                         *)
(* Abstractions.  A refresh token is known by its session row.  Passwords  *)
(* are not modelled: a request with a wrong one changes nothing.  An owner *)
(* has the restaurant of the registration, the only one the code creates.  *)
(* Access tokens are resolved against the rows at every request (Context). *)
(***************************************************************************)
EXTENDS Integers, FiniteSets

CONSTANTS Users, Waiters, \* account ids
          Emails, Browsers,
          Requests,       \* bound: requests in flight
          Tokens,         \* bound: refresh sessions ever created
          None,
          Lifetime,       \* REFRESH_SESSION_LIFETIME_MS, in ticks
          MaxTime         \* bound: ticks

ASSUME AccountsAssumption == Users \cap Waiters = {}
ASSUME NoneAssumption == None \notin Users \cup Waiters \cup Emails \cup Tokens
ASSUME TimeAssumption == Lifetime \in Nat \ {0} /\ MaxTime \in Nat

VARIABLES
  account,    \* users and waiters
  restaurant, \* owner -> state of the restaurant
  session,    \* authRefreshSession
  cookie,     \* browser -> its refresh cookie
  now,
  req         \* request -> what it is about to do, or None

db   == <<account, restaurant, session>>
vars == <<db, cookie, now, req>>

Accounts == Users \cup Waiters

(* of: the owner whose restaurant employs the waiter; the owner's own.     *)
Account == [email : Emails, active : BOOLEAN, of : Users]

(* login: the first token of the chain of rotations.  signedOut: whether a *)
(* sign-out has found it still good (both are history).                    *)
Session == [account : Accounts, expires : 0 .. MaxTime + Lifetime, revoked : BOOLEAN,
            login : Tokens, signedOut : BOOLEAN]

ASSUME NoneIsNoRow == None \notin Account \cup Session

Ops == {"register", "mint", "rotate", "revoke", "answer",
        "hire", "edit", "toggle", "delete", "deleteOwner"}

Request == [op : Ops, browser : Browsers \cup {None}, account : Accounts \cup {None},
            email : Emails \cup {None}, token : Tokens \cup {None}, seen : Nat,
            flag : BOOLEAN]

TypeOK ==
  /\ account \in [Accounts -> Account \cup {None}]
  /\ restaurant \in [Users -> {"none", "active", "suspended"}]
  /\ session \in [Tokens -> Session \cup {None}]
  /\ cookie \in [Browsers -> Tokens \cup {None}]
  /\ now \in 0 .. MaxTime
  /\ req \in [Requests -> Request \cup {None}]

Init ==
  /\ account = [a \in Accounts |-> None]
  /\ restaurant = [u \in Users |-> "none"]
  /\ session = [t \in Tokens |-> None]
  /\ cookie = [b \in Browsers |-> None]
  /\ now = 0
  /\ req = [s \in Requests |-> None]

-----------------------------------------------------------------------------
(* Requests                                                                *)

Blank == [op |-> "answer", browser |-> None, account |-> None, email |-> None,
          token |-> None, seen |-> 0, flag |-> FALSE]

Ask(s, request) ==
  /\ req[s] = None
  /\ req' = [req EXCEPT ![s] = request]
  /\ UNCHANGED <<db, cookie, now>>

Runs(s, op) == req[s] # None /\ req[s].op = op

Finish(s) == req' = [req EXCEPT ![s] = None]

(* The browser will be sent `token` as its cookie; None clears it.         *)
AnswerWith(s, token) == req' = [req EXCEPT ![s].op = "answer", ![s].token = token]

Abandon(s) ==
  /\ req[s] # None
  /\ Finish(s)
  /\ UNCHANGED <<db, cookie, now>>

Answer(s) ==
  /\ Runs(s, "answer")
  /\ cookie' = [cookie EXCEPT ![req[s].browser] = req[s].token]
  /\ Finish(s)
  /\ UNCHANGED <<db, now>>

Exists(a) == account[a] # None
HoldersOf(kind, e) == {a \in kind : Exists(a) /\ account[a].email = e}

(* resolveAccessToken and requireRestaurantContext: an owner works in his  *)
(* active restaurant, an active waiter in the one he is employed by.       *)
Context(a) ==
  IF ~Exists(a) THEN None
  ELSE IF a \in Users THEN IF restaurant[a] = "active" THEN a ELSE None
  ELSE IF account[a].active THEN account[a].of ELSE None

(* Seeded fault: the sessions of a deleted account stay.                   *)
CascadeAccountsOnly(gone) ==
  /\ account' = [a \in Accounts |-> IF a \in gone THEN None ELSE account[a]]
  /\ UNCHANGED session

(* Rows of the sessions table go with their account: onDelete Cascade.     *)
Cascade(gone) ==
  /\ account' = [a \in Accounts |-> IF a \in gone THEN None ELSE account[a]]
  /\ session' = [t \in Tokens |->
       IF session[t] # None /\ session[t].account \in gone THEN None ELSE session[t]]

-----------------------------------------------------------------------------
(* register, login                                                         *)

AskRegister(s) ==
  \E b \in Browsers, e \in Emails :
    /\ HoldersOf(Users, e) = {}
    /\ Ask(s, [Blank EXCEPT !.op = "register", !.browser = b, !.email = e])

(* createUserWithRestaurant; users.email is unique.                        *)
CommitRegister(s) ==
  /\ Runs(s, "register")
  /\ HoldersOf(Users, req[s].email) = {}
  /\ \E u \in Users :
       /\ ~Exists(u)
       /\ account' = [account EXCEPT ![u] =
            [email |-> req[s].email, active |-> TRUE, of |-> u]]
       /\ restaurant' = [restaurant EXCEPT ![u] = "active"]
       /\ req' = [req EXCEPT ![s].op = "mint", ![s].account = u]
  /\ UNCHANGED <<session, cookie, now>>

(* The user of the address signs in, or else its waiter if not disabled.   *)
AskLogin(s) ==
  \E b \in Browsers, e \in Emails, a \in Accounts :
    /\ \/ a \in HoldersOf(Users, e)
       \/ /\ HoldersOf(Users, e) = {}
          /\ a \in HoldersOf(Waiters, e)
          /\ account[a].active
    /\ Ask(s, [Blank EXCEPT !.op = "mint", !.browser = b, !.account = a])

(* Tokens are random: none that anyone still holds is drawn again.         *)
Unused(t) ==
  /\ session[t] = None
  /\ \A b \in Browsers : cookie[b] # t
  /\ \A s \in Requests : req[s] # None => req[s].token # t

(* createRefreshSession; its account must still be there.                  *)
Mint(s) ==
  /\ Runs(s, "mint")
  /\ Exists(req[s].account)
  /\ \E t \in Tokens :
       /\ Unused(t)
       /\ session' = [session EXCEPT ![t] =
            [account |-> req[s].account, expires |-> now + Lifetime,
             revoked |-> FALSE, login |-> t, signedOut |-> FALSE]]
       /\ AnswerWith(s, t)
  /\ UNCHANGED <<account, restaurant, cookie, now>>

-----------------------------------------------------------------------------
(* refresh, logout                                                         *)

Live(t) == session[t] # None /\ ~session[t].revoked /\ session[t].expires > now

(* The session is valid and its account may go on; otherwise the cookie is *)
(* cleared.                                                                *)
AskRefresh(s) ==
  \E b \in Browsers :
    LET t == cookie[b]
    IN  /\ t # None
        /\ IF Live(t) /\ Exists(session[t].account) /\ account[session[t].account].active
             THEN Ask(s, [Blank EXCEPT !.op = "rotate", !.browser = b, !.token = t,
                                       !.seen = now])
             ELSE Ask(s, [Blank EXCEPT !.browser = b])

(* Seeded fault: the token is consumed whoever did so before.              *)
ClaimableTwice(t, seen) == session[t] # None /\ session[t].expires > seen

(* UPDATE ... WHERE revokedAt IS NULL AND expiresAt > `now` as read.       *)
Claimable(t, seen) ==
  session[t] # None /\ ~session[t].revoked /\ session[t].expires > seen

(* Seeded fault: every rotation prolongs the login.                        *)
ExtendedSuccessor(t) == [session[t] EXCEPT !.revoked = FALSE, !.expires = @ + Lifetime]

Successor(t) == [session[t] EXCEPT !.revoked = FALSE]

Rotate(s) ==
  /\ Runs(s, "rotate")
  /\ LET t == req[s].token
     IN  IF Claimable(t, req[s].seen)
           THEN \E next \in Tokens :
                  /\ Unused(next)
                  /\ session' = [session EXCEPT ![t].revoked = TRUE, ![next] = Successor(t)]
                  /\ AnswerWith(s, next)
           ELSE AnswerWith(s, None) /\ UNCHANGED session
  /\ UNCHANGED <<account, restaurant, cookie, now>>

AskLogout(s) ==
  \E b \in Browsers :
    /\ cookie[b] # None
    /\ Ask(s, [Blank EXCEPT !.op = "revoke", !.browser = b, !.token = cookie[b]])

(* Only a row that is not revoked yet matches.                             *)
SignedOut(row) == [row EXCEPT !.revoked = TRUE, !.signedOut = @ \/ ~row.revoked]

(* revokeRefreshToken; the cookie is cleared also when it fails, and also  *)
(* when no row matched: the answer is the same.                            *)
Revoke(s) ==
  /\ Runs(s, "revoke")
  /\ AnswerWith(s, None)
  /\ \/ session' = [t \in Tokens |->
            IF t = req[s].token /\ session[t] # None THEN SignedOut(session[t]) ELSE session[t]]
     \/ UNCHANGED session
  /\ UNCHANGED <<account, restaurant, cookie, now>>

-----------------------------------------------------------------------------
(* The owner's staff                                                       *)

AskHire(s) ==
  \E u \in Users, e \in Emails, active \in BOOLEAN :
    /\ Context(u) = u
    /\ HoldersOf(Accounts, e) = {}
    /\ Ask(s, [Blank EXCEPT !.op = "hire", !.account = u, !.email = e, !.flag = active])

(* waiters.email is unique, the restaurant must still be there.            *)
CommitHire(s) ==
  /\ Runs(s, "hire")
  /\ HoldersOf(Waiters, req[s].email) = {}
  /\ restaurant[req[s].account] # "none"
  /\ \E w \in Waiters :
       /\ ~Exists(w)
       /\ account' = [account EXCEPT ![w] =
            [email |-> req[s].email, active |-> req[s].flag, of |-> req[s].account]]
  /\ Finish(s)
  /\ UNCHANGED <<restaurant, session, cookie, now>>

AskEdit(s) ==
  \E w \in Waiters, e \in Emails, active \in BOOLEAN :
    /\ Exists(w) /\ Context(account[w].of) # None
    /\ HoldersOf(Accounts \ {w}, e) = {}
    /\ Ask(s, [Blank EXCEPT !.op = "edit", !.account = w, !.email = e, !.flag = active])

CommitEdit(s) ==
  /\ Runs(s, "edit")
  /\ LET w == req[s].account
     IN  /\ Exists(w)
         /\ HoldersOf(Waiters \ {w}, req[s].email) = {}
         /\ account' = [account EXCEPT ![w].email = req[s].email, ![w].active = req[s].flag]
  /\ Finish(s)
  /\ UNCHANGED <<restaurant, session, cookie, now>>

(* toggleStatus and delete read no more than that the waiter is there.     *)
ToggleStatus(w) ==
  \E active \in BOOLEAN :
    /\ Exists(w) /\ Context(account[w].of) # None
    /\ account' = [account EXCEPT ![w].active = active]
    /\ UNCHANGED <<restaurant, session, cookie, now, req>>

DeleteWaiter(w) ==
  /\ Exists(w) /\ Context(account[w].of) # None
  /\ Cascade({w})
  /\ UNCHANGED <<restaurant, cookie, now, req>>

-----------------------------------------------------------------------------
(* The administrator's restaurants                                         *)

AskToggle(s) ==
  \E u \in Users :
    /\ restaurant[u] # "none"
    /\ Ask(s, [Blank EXCEPT !.op = "toggle", !.account = u,
                            !.flag = (restaurant[u] = "active")])

(* The opposite of what was read is written.                               *)
CommitToggle(s) ==
  /\ Runs(s, "toggle")
  /\ restaurant[req[s].account] # "none"
  /\ restaurant' = [restaurant EXCEPT ![req[s].account] =
       IF req[s].flag THEN "suspended" ELSE "active"]
  /\ Finish(s)
  /\ UNCHANGED <<account, session, cookie, now>>

AskDelete(s) ==
  \E u \in Users :
    /\ restaurant[u] # "none"
    /\ Ask(s, [Blank EXCEPT !.op = "delete", !.account = u])

(* restaurant.delete; its waiters go with it.                              *)
DeleteRestaurant(s) ==
  /\ Runs(s, "delete")
  /\ LET u == req[s].account
     IN  /\ restaurant[u] # "none"
         /\ restaurant' = [restaurant EXCEPT ![u] = "none"]
         /\ Cascade({w \in Waiters : Exists(w) /\ account[w].of = u})
  /\ req' = [req EXCEPT ![s].op = "deleteOwner"]
  /\ UNCHANGED <<cookie, now>>

(* No restaurant left: the owner is deleted by a statement of its own.     *)
DeleteOwner(s) ==
  /\ Runs(s, "deleteOwner")
  /\ Cascade({req[s].account})
  /\ Finish(s)
  /\ UNCHANGED <<restaurant, cookie, now>>

Tick ==
  /\ now < MaxTime
  /\ now' = now + 1
  /\ UNCHANGED <<db, cookie, req>>

-----------------------------------------------------------------------------

Next ==
  \/ \E s \in Requests :
       \/ AskRegister(s) \/ CommitRegister(s) \/ AskLogin(s) \/ Mint(s)
       \/ AskRefresh(s) \/ Rotate(s) \/ AskLogout(s) \/ Revoke(s)
       \/ Answer(s) \/ Abandon(s)
       \/ AskHire(s) \/ CommitHire(s) \/ AskEdit(s) \/ CommitEdit(s)
       \/ AskToggle(s) \/ CommitToggle(s)
       \/ AskDelete(s) \/ DeleteRestaurant(s) \/ DeleteOwner(s)
  \/ \E w \in Waiters : ToggleStatus(w) \/ DeleteWaiter(w)
  \/ Tick

Spec == Init /\ [][Next]_vars

-----------------------------------------------------------------------------
(* Correctness                                                             *)

Chain(login) == {t \in Tokens : session[t] # None /\ session[t].login = login}

(* "Only one concurrent request may consume this token": however many tabs *)
(* refresh at once, a login is good for one token at a time                *)
(* (auth.service.ts:353-370).                                              *)
OneLiveToken ==
  \A login \in Tokens : Cardinality({t \in Chain(login) : ~session[t].revoked}) <= 1

(* A login all of whose tokens are consumed or have run out gets no live   *)
(* one any more: rotations do not prolong it, and what they read before    *)
(* does not revive it.                                                     *)
EndedStaysEnded ==
  \A login \in Tokens :
    (Chain(login) # {} /\ \A t \in Chain(login) : ~Live(t))
      => \A t \in Chain(login)' : ~Live(t)'

(* A sign-out that found the good token of its login ends the login, also  *)
(* for a refresh that had read the token as good before.  One that found a *)
(* token which a refresh had just consumed does not: the answer of that    *)
(* refresh, if it is the later one, signs the browser in again.            *)
SignedOutStaysOut ==
  \A t \in Tokens :
    session[t] # None /\ session[t].signedOut
      => \A v \in Chain(session[t].login) : session[v].revoked

(* A login ends for good, by a sign-out that found its token good and by   *)
(* running out: no step revives it (auth.service.ts:92, 353-370).          *)
LoginsEnd == [][EndedStaysEnded /\ SignedOutStaysOut']_vars

(* No session outlives its account, no restaurant its owner and no waiter  *)
(* his restaurant, though all of them are deleted between the reads of     *)
(* other requests and what these then create.                              *)
NoOrphans ==
  /\ \A t \in Tokens : session[t] # None => Exists(session[t].account)
  /\ \A u \in Users : restaurant[u] # "none" => Exists(u)
  /\ \A w \in Waiters : Exists(w) => restaurant[account[w].of] # "none"
===============================================================================
