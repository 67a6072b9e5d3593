------------------------------- MODULE WhatsApp -------------------------------
(***************************************************************************)
(* The WhatsApp channel of a brand: how its sender is connected, how the   *)
(* templates of the sender's account are cached, how a campaign's choice   *)
(* of template is checked before each message, and how a guest proves his  *)
(* number and takes or refuses marketing messages.                         *)
(*                                                                         *)
(* Sources: services/crm/meta-embedded-signup.service.ts,                  *)
(* whatsapp-connection.service.ts, whatsapp-template-sync.service.ts,      *)
(* whatsapp-template-validation.service.ts, phone-verification.service.ts, *)
(* consent.service.ts, routes/whatsapp.routes.ts, routes/crm/v2.routes.ts, *)
(* routes/public.routes.ts.                                                *)
(*                                                                         *)
(* A request reads in its Ask step and writes one statement or transaction *)
(* per step; Abandon is the death of a request between two of them.  What  *)
(* Meta answers is chosen when the answer is used.                         *)
(*                                                                         *)
(* Abstractions.  A sender is a phone number with the business account it  *)
(* belongs to.  Connection versions are drawn in order instead of at       *)
(* random.  Access tokens, languages and the text of templates are left    *)
(* out, and so is the error a connection last met (recordSafeError), which *)
(* is only displayed; the parameters of a template are a set of names.     *)
(* Templates, campaigns and the guest, who has one number, are those of one*)
(* brand (Home); the others compete with it for senders.  disconnect and   *)
(* markValidated are called by nothing, so no step takes them.             *)
(***************************************************************************)
EXTENDS Integers, Sequences, FiniteSets

CONSTANTS Brands, Senders, Templates, Params, Campaigns, Orders, Messages, Null,
          Home,           \* the brand of the templates, campaigns and guest
          Requests,       \* bound: requests in flight
          Attempts,       \* bound: signups ever started
          MaxVersions,    \* bound: connection versions drawn in any behaviour
          MaxCodes,       \* bound: verification codes ever created
          MaxTries,       \* guesses per code (5)
          MaxLog,         \* bound: recorded decisions
          Workloads       \* bound: what is asked for, of which brands, and the versions drawn

ASSUME HomeAssumption == Home \in Brands
ASSUME LimitsAssumption == MaxVersions \in Nat /\ MaxCodes \in Nat /\ MaxTries \in Nat \ {0} /\ MaxLog \in Nat
ASSUME WorkloadsAssumption == \A w \in Workloads : w.brands \subseteq Brands

VARIABLES
  work,     \* the operations and brands of this behaviour
  conn,     \* brandWhatsAppConnection
  drawn,    \* connection versions drawn so far
  attempt,  \* brandWhatsAppConnectionAttempt
  cache,    \* account -> brandWhatsAppTemplate
  choice,   \* campaign -> its selection of a template
  code,     \* customerPhoneVerification
  verified, \* customer.phoneVerifiedAt is set
  consent,  \* customerConsent, in the order of recordedAt
  req,      \* request -> what it is about to do, or Null
  applied,  \* history: account -> version of its last snapshot
  refused,  \* history: versions whose token Meta refused
  overtaken,\* history: requests cleared to send before Home's sender was written anew
  tokens    \* history: code -> session tokens given for it

channel     == <<conn, drawn, attempt, cache, choice, applied, refused, overtaken>>
guest       == <<code, verified, consent, tokens>>
channelVars == <<work, channel, guest, req>>

Operations == {"signup", "save", "sync", "queue", "dispatch", "verify", "consent"}

Versions == 1 .. MaxVersions
Codes    == 1 .. MaxCodes

Connection == [sender : Senders, source : {"MANUAL", "EMBEDDED_SIGNUP"},
               status : {"LEGACY_CONNECTED", "CONNECTED", "NEEDS_REAUTH"},
               version : Versions, expired : BOOLEAN, synced : BOOLEAN]

(* approved: APPROVED, with parameters that can be filled, rather than     *)
(* SYNC_REMOVED or in another state of Meta's.                             *)
Template == [approved : BOOLEAN, params : SUBSET Params]

(* account, template, parameters: the selection.  sent: the versions its   *)
(* messages went out under, each with the sender (history).                *)
Selection == [account : Senders, template : Templates, params : SUBSET Params,
              version : Versions, sent : SUBSET (Versions \X Senders)]

(* recent: of the last minute.  dead: expired.                             *)
Code == [age : {"recent", "live", "dead"}, verified : BOOLEAN, tries : Nat]

(* STAFF and GUEST decisions have a random source, which never recurs.     *)
Random == "random"
Decision == [source : Orders \cup Messages \cup {Random}, granted : BOOLEAN]

ASSUME NullAssumption == Null \notin Connection \cup Selection \cup Code

(* The requests of each kind.  A signup learns its sender from Meta.       *)
SaveRequest == [op : {"create", "update"}, brand : Brands, sender : Senders]
SignupRequest ==
  [op : {"exchange", "verifyMeta"}, brand : Brands, attempt : Attempts, sender : {Null}]
    \cup [op : {"identity", "upsert", "complete"}, brand : Brands, attempt : Attempts, sender : Senders]
SyncRequest == [op : {"replace", "synced", "reauth"}, sender : Senders, version : Versions]
QueueRequest == [op : {"pick", "put"}, campaign : Campaigns, sender : Senders, selection : Selection]
DispatchRequest ==
  [op : {"check", "assert", "call", "reauth"}, campaign : Campaigns, sender : Senders, version : Versions]
CodeRequest ==
  [op : {"challenge"}, code : {Null}] \cup [op : {"send", "wrong", "claim", "stamp"}, code : Codes]
DecideRequest ==
  [op : {"decide"}, source : Orders \cup Messages \cup {Random}, granted : BOOLEAN]
Request == UNION {SaveRequest, SignupRequest, SyncRequest, QueueRequest, DispatchRequest,
                  CodeRequest, DecideRequest}

(* A number is unique among the connections.                               *)
WhatsAppTypeOK ==
  /\ work \in Workloads
  /\ conn \in [Brands -> Connection \cup {Null}]
  /\ \A b, c \in Brands : b # c /\ conn[b] # Null /\ conn[c] # Null
                            => conn[b].sender # conn[c].sender
  /\ drawn \in 0 .. MaxVersions
  /\ attempt \in [Attempts -> {"none", "open", "claimed", "completed", "failed"}]
  /\ cache \in [Senders -> [Templates -> Template \cup {Null}]]
  /\ choice \in [Campaigns -> Selection \cup {Null}]
  /\ code \in [Codes -> Code \cup {Null}]
  /\ verified \in BOOLEAN
  /\ consent \in Seq(Decision) /\ Len(consent) <= MaxLog
  /\ req \in [Requests -> Request \cup {Null}]
  /\ applied \in [Senders -> 0 .. MaxVersions]
  /\ refused \subseteq Versions
  /\ overtaken \subseteq Requests
  /\ tokens \in [Codes -> Nat]

WhatsAppInit ==
  /\ work \in Workloads
  /\ conn = [b \in Brands |-> Null]
  /\ drawn = 0
  /\ attempt = [a \in Attempts |-> "none"]
  /\ cache = [n \in Senders |-> [t \in Templates |-> Null]]
  /\ choice = [c \in Campaigns |-> Null]
  /\ code = [k \in Codes |-> Null]
  /\ verified = FALSE
  /\ consent = <<>>
  /\ req = [s \in Requests |-> Null]
  /\ applied = [n \in Senders |-> 0]
  /\ refused = {}
  /\ overtaken = {}
  /\ tokens = [k \in Codes |-> 0]

-----------------------------------------------------------------------------
(* Requests                                                                *)

Ask(s, operation, request) ==
  /\ operation \in work.asked
  /\ req[s] = Null
  /\ req' = [req EXCEPT ![s] = request]

Runs(s, op) == req[s] # Null /\ req[s].op = op
Then(s, op) == req' = [req EXCEPT ![s].op = op]
Finish(s)   == req' = [req EXCEPT ![s] = Null]

Abandon(s) ==
  /\ req[s] # Null
  /\ Finish(s)
  /\ UNCHANGED <<work, channel, guest>>

-----------------------------------------------------------------------------
(* The connection                                                          *)

(* getActiveTemplateSnapshot, assertCurrentVerified                        *)
Verified(b) ==
  /\ conn[b] # Null
  /\ conn[b].status = "CONNECTED" /\ conn[b].source = "EMBEDDED_SIGNUP"
  /\ ~conn[b].expired

Usable(b) == conn[b] # Null /\ conn[b].status \in {"LEGACY_CONNECTED", "CONNECTED"}

(* Seeded fault: a connection is known by its brand alone.                 *)
BrandOnly(b, v) == conn[b] # Null

(* identityWhere                                                           *)
IdentityWhere(b, v) == conn[b] # Null /\ conn[b].version = v

(* Seeded fault: the number is not unique in the table.                    *)
AnyNumber(b, n) == TRUE

(* The unique index on phoneNumberId.                                      *)
NumberFree(b, n) == \A c \in Brands \ {b} : conn[c] # Null => conn[c].sender # n

Rewritten(n, source, status) ==
  [sender |-> n, source |-> source, status |-> status, version |-> drawn + 1,
   expired |-> FALSE, synced |-> FALSE]

Write(b, n, source, status) ==
  /\ drawn < work.versions /\ drawn < MaxVersions
  /\ drawn' = drawn + 1
  /\ conn' = [conn EXCEPT ![b] = Rewritten(n, source, status)]
  /\ overtaken' = IF b = Home THEN {s \in Requests : Runs(s, "call")} ELSE overtaken

(* save: what is there decides between a create and an update.             *)
AskSave(s) ==
  \E b \in work.brands, n \in Senders :
    /\ conn[b] # Null => conn[b].source = "MANUAL"
    /\ Ask(s, "save", [op |-> IF conn[b] = Null THEN "create" ELSE "update",
                       brand |-> b, sender |-> n])
    /\ UNCHANGED <<work, channel, guest>>

CommitSave(s) ==
  /\ Runs(s, "create") \/ Runs(s, "update")
  /\ LET r == req[s]
     IN  /\ IF r.op = "create" THEN conn[r.brand] = Null
                               ELSE conn[r.brand].source = "MANUAL"
         /\ NumberFree(r.brand, r.sender)
         /\ Write(r.brand, r.sender, "MANUAL", "LEGACY_CONNECTED")
  /\ Finish(s)
  /\ UNCHANGED <<work, attempt, cache, choice, applied, refused, guest>>

(* Time passes: the token of a signup expires.                             *)
TokenExpires(b) ==
  /\ Verified(b)
  /\ conn' = [conn EXCEPT ![b].expired = TRUE]
  /\ UNCHANGED <<work, drawn, attempt, cache, choice, applied, refused, overtaken, guest, req>>

-----------------------------------------------------------------------------
(* Embedded signup                                                         *)

Start(a) ==
  /\ "signup" \in work.asked
  /\ attempt[a] = "none"
  /\ attempt' = [attempt EXCEPT ![a] = "open"]
  /\ UNCHANGED <<work, conn, drawn, cache, choice, applied, refused, overtaken, guest, req>>

(* The state is consumed by one request; an expired one stays open.        *)
ClaimState(s) ==
  \E a \in Attempts, b \in work.brands :
    /\ attempt[a] = "open"
    /\ attempt' = [attempt EXCEPT ![a] = "claimed"]
    /\ Ask(s, "signup", [op |-> "exchange", brand |-> b, attempt |-> a, sender |-> Null])
    /\ UNCHANGED <<work, conn, drawn, cache, choice, applied, refused, overtaken, guest>>

FailAttempt(s) ==
  /\ attempt' = [attempt EXCEPT ![req[s].attempt] = "failed"]
  /\ Finish(s)

(* Meta exchanges the code for a token, or does not.                       *)
ExchangeCode(s) ==
  /\ Runs(s, "exchange")
  /\ \/ Then(s, "verifyMeta") /\ UNCHANGED attempt
     \/ FailAttempt(s)
  /\ UNCHANGED <<work, conn, drawn, cache, choice, applied, refused, overtaken, guest>>

(* The token is valid for exactly one account with one number, or the      *)
(* signup fails; then the owner of the number is read.                     *)
VerifyMeta(s) ==
  /\ Runs(s, "verifyMeta")
  /\ \/ \E n \in Senders :
          /\ NumberFree(req[s].brand, n)
          /\ req' = [req EXCEPT ![s].op = "identity", ![s].sender = n]
          /\ UNCHANGED attempt
     \/ FailAttempt(s)
  /\ UNCHANGED <<work, conn, drawn, cache, choice, applied, refused, overtaken, guest>>

(* "A different WABA or phone requires an explicit future replacement flow"*)
CheckIdentity(s) ==
  /\ Runs(s, "identity")
  /\ LET row == conn[req[s].brand]
     IN  IF row # Null /\ row.source = "EMBEDDED_SIGNUP" /\ row.sender # req[s].sender
           THEN FailAttempt(s)
           ELSE Then(s, "upsert") /\ UNCHANGED attempt
  /\ UNCHANGED <<work, conn, drawn, cache, choice, applied, refused, overtaken, guest>>

(* saveVerifiedEmbeddedSignupConnection                                    *)
Upsert(s) ==
  /\ Runs(s, "upsert")
  /\ IF NumberFree(req[s].brand, req[s].sender)
       THEN /\ Write(req[s].brand, req[s].sender, "EMBEDDED_SIGNUP", "CONNECTED")
            /\ Then(s, "complete")
            /\ UNCHANGED attempt
       ELSE FailAttempt(s) /\ UNCHANGED <<conn, drawn, overtaken>>
  /\ UNCHANGED <<work, cache, choice, applied, refused, guest>>

(* When this statement fails the attempt is marked failed all the same.    *)
Complete(s) ==
  /\ Runs(s, "complete")
  /\ \/ attempt' = [attempt EXCEPT ![req[s].attempt] = "completed"] /\ Finish(s)
     \/ FailAttempt(s)
  /\ UNCHANGED <<work, conn, drawn, cache, choice, applied, refused, overtaken, guest>>

-----------------------------------------------------------------------------
(* The cached templates                                                    *)

(* What follows Meta's answer; any other failure ends the sync.            *)
AfterFetch == [pages |-> "replace", unauthorized |-> "reauth"]

(* The pages are fetched with the token of the snapshot.                   *)
AskSync(s) ==
  \E answer \in DOMAIN AfterFetch :
    /\ Verified(Home)
    /\ Ask(s, "sync", [op |-> AfterFetch[answer], sender |-> conn[Home].sender, version |-> conn[Home].version])
    /\ refused' = IF answer = "unauthorized" THEN refused \cup {conn[Home].version} ELSE refused
    /\ UNCHANGED <<work, conn, drawn, attempt, cache, choice, applied, overtaken, guest>>

(* What the pages may list of the account: each template with the          *)
(* parameters that its texts name.                                         *)
Listings == [Templates -> Template \cup {Null}]

(* Upserts, then SYNC_REMOVED for the rest of the account.                 *)
Replaced(old, answer) ==
  [t \in Templates |-> IF answer[t] # Null THEN answer[t]
                       ELSE IF old[t] # Null THEN [old[t] EXCEPT !.approved = FALSE] ELSE Null]

(* The identity row is locked through the transaction.                     *)
ReplaceSnapshot(s) ==
  /\ Runs(s, "replace")
  /\ LET n == req[s].sender
     IN  IF /\ IdentityWhere(Home, req[s].version)
            /\ conn[Home].status = "CONNECTED" /\ conn[Home].source = "EMBEDDED_SIGNUP"
            /\ conn[Home].sender = n
           THEN /\ \E answer \in Listings :
                     cache' = [cache EXCEPT ![n] = Replaced(@, answer)]
                /\ applied' = [applied EXCEPT ![n] = req[s].version]
                /\ Then(s, "synced")
           ELSE Finish(s) /\ UNCHANGED <<cache, applied>>
  /\ UNCHANGED <<work, conn, drawn, attempt, choice, refused, overtaken, guest>>

MarkTemplatesSynced(s) ==
  /\ Runs(s, "synced")
  /\ conn' = IF IdentityWhere(Home, req[s].version) /\ Usable(Home)
               THEN [conn EXCEPT ![Home].synced = TRUE] ELSE conn
  /\ Finish(s)
  /\ UNCHANGED <<work, drawn, attempt, cache, choice, applied, refused, overtaken, guest>>

MarkNeedsReauth(s) ==
  /\ Runs(s, "reauth")
  /\ conn' = IF IdentityWhere(Home, req[s].version)
               THEN [conn EXCEPT ![Home].status = "NEEDS_REAUTH"] ELSE conn
  /\ Finish(s)
  /\ UNCHANGED <<work, drawn, attempt, cache, choice, applied, refused, overtaken, guest>>

-----------------------------------------------------------------------------
(* A campaign's selection                                                  *)

Eligible(row) == row # Null /\ row.approved

(* validateWhatsAppCampaignSelection against the snapshot that was read.   *)
ValidSelection(selection, sender, version) ==
  LET row == cache[selection.account][selection.template]
  IN  /\ Eligible(row) /\ selection.account = sender
      /\ selection.version = version
      /\ selection.params = row.params

(* prepareNew pins the version that it read.                               *)
AskPrepare(s) ==
  \E c \in Campaigns, n \in Senders, t \in Templates, p \in SUBSET Params :
    /\ Verified(Home)
    /\ choice[c] = Null
    /\ cache[n][t] # Null
    /\ Ask(s, "queue", [op |-> "pick", campaign |-> c, sender |-> conn[Home].sender,
         selection |-> [account |-> n, template |-> t, params |-> p,
                        version |-> conn[Home].version, sent |-> {}]])
    /\ UNCHANGED <<work, channel, guest>>

(* The template is read and compared with the snapshot.                    *)
CheckChoice(s) ==
  /\ Runs(s, "pick")
  /\ IF ValidSelection(req[s].selection, req[s].sender, req[s].selection.version)
       THEN Then(s, "put") ELSE Finish(s)
  /\ UNCHANGED <<work, channel, guest>>

(* The draft is moved WHERE it is still one.                               *)
Queue(s) ==
  /\ Runs(s, "put")
  /\ LET r == req[s]
     IN  choice' = IF choice[r.campaign] = Null
                     THEN [choice EXCEPT ![r.campaign] = r.selection] ELSE choice
  /\ Finish(s)
  /\ UNCHANGED <<work, conn, drawn, attempt, cache, applied, refused, overtaken, guest>>

AskDispatch(s) ==
  \E c \in Campaigns :
    /\ Verified(Home)
    /\ choice[c] # Null
    /\ Ask(s, "dispatch", [op |-> "check", campaign |-> c,
         sender |-> conn[Home].sender, version |-> conn[Home].version])
    /\ UNCHANGED <<work, channel, guest>>

(* validate: the template is read after the connection.                    *)
CheckTemplate(s) ==
  /\ Runs(s, "check")
  /\ IF ValidSelection(choice[req[s].campaign], req[s].sender, req[s].version)
       THEN Then(s, "assert") ELSE Finish(s)
  /\ UNCHANGED <<work, channel, guest>>

(* Seeded fault: what validate found is taken for current.                 *)
AssertNothing(s) ==
  /\ Runs(s, "assert")
  /\ Then(s, "call")
  /\ overtaken' = overtaken \ {s}
  /\ UNCHANGED <<work, conn, drawn, attempt, cache, choice, applied, refused, guest>>

AssertCurrentVerified(s) ==
  /\ Runs(s, "assert")
  /\ IF Verified(Home) /\ IdentityWhere(Home, req[s].version)
       THEN Then(s, "call") /\ overtaken' = overtaken \ {s}
       ELSE Finish(s) /\ UNCHANGED overtaken
  /\ UNCHANGED <<work, conn, drawn, attempt, cache, choice, applied, refused, guest>>

(* Past the gate (module Campaign), which does not look at the connection, *)
(* the message goes out with the token that was read; when Meta refuses    *)
(* the token the connection is marked.                                     *)
Dispatch(s) ==
  /\ Runs(s, "call")
  /\ LET r == req[s]
     IN  /\ choice' = [choice EXCEPT ![r.campaign].sent = @ \cup {<<r.version, r.sender>>}]
         /\ \/ Finish(s) /\ UNCHANGED refused
            \/ Then(s, "reauth") /\ refused' = refused \cup {r.version}
  /\ UNCHANGED <<work, conn, drawn, attempt, cache, applied, overtaken, guest>>

-----------------------------------------------------------------------------
(* The guest's number                                                      *)

(* A code was sent within the minute: nothing is done.                     *)
AskCode(s) ==
  /\ \A k \in Codes : code[k] # Null => code[k].age # "recent"
  /\ Usable(Home)
  /\ Ask(s, "verify", [op |-> "challenge", code |-> Null])
  /\ UNCHANGED <<work, channel, guest>>

CreateCode(s) ==
  /\ Runs(s, "challenge")
  /\ \E k \in Codes :
       /\ code[k] = Null /\ \A j \in 1 .. (k - 1) : code[j] # Null
       /\ code' = [code EXCEPT ![k] = [age |-> "recent", verified |-> FALSE, tries |-> 0]]
       /\ req' = [req EXCEPT ![s] = [op |-> "send", code |-> k]]
  /\ UNCHANGED <<work, channel, verified, consent, tokens>>

(* The row of a code that could not be sent is deleted, which is the same  *)
(* to every query as a row that has expired.                               *)
SendCode(s) ==
  /\ Runs(s, "send")
  /\ \/ UNCHANGED code
     \/ code' = [code EXCEPT ![req[s].code].age = "dead"]
  /\ Finish(s)
  /\ UNCHANGED <<work, channel, verified, consent, tokens>>

Live(k) == code[k] # Null /\ code[k].age # "dead"
Open(k) == Live(k) /\ ~code[k].verified /\ code[k].tries < MaxTries

(* The newest open code is compared; a wrong guess counts against it.      *)
AskVerify(s) ==
  \E k \in Codes, op \in {"wrong", "claim"} :
    /\ Open(k) /\ \A j \in (k + 1) .. MaxCodes : ~Open(j)
    /\ Ask(s, "verify", [op |-> op, code |-> k])
    /\ UNCHANGED <<work, channel, guest>>

CountTry(s) ==
  /\ Runs(s, "wrong")
  /\ code' = [code EXCEPT ![req[s].code].tries = @ + 1]
  /\ Finish(s)
  /\ UNCHANGED <<work, channel, verified, consent, tokens>>

(* The claiming UPDATE has the conditions of the query.                    *)
ClaimCode(s) ==
  /\ Runs(s, "claim")
  /\ LET k == req[s].code
     IN  IF Open(k)
           THEN /\ code' = [code EXCEPT ![k].verified = TRUE]
                /\ tokens' = [tokens EXCEPT ![k] = @ + 1]
                /\ Then(s, "stamp")
           ELSE Finish(s) /\ UNCHANGED <<code, tokens>>
  /\ UNCHANGED <<work, channel, verified, consent>>

StampCustomer(s) ==
  /\ Runs(s, "stamp")
  /\ verified' = TRUE
  /\ Finish(s)
  /\ UNCHANGED <<work, channel, code, consent, tokens>>

(* The minute of a code passes, a code or the session opened by it expires.*)
CodeAges(k) ==
  /\ code[k] # Null
  /\ code[k].age # "dead"
  /\ code' = [code EXCEPT ![k].age = IF @ = "recent" THEN "live" ELSE "dead"]
  /\ UNCHANGED <<work, channel, verified, consent, tokens, req>>

HasSession == \E k \in Codes : Live(k) /\ code[k].verified

-----------------------------------------------------------------------------
(* Marketing consent                                                       *)

AskDecision(s, source, granted) ==
  /\ Ask(s, "consent", [op |-> "decide", source |-> source, granted |-> granted])
  /\ UNCHANGED <<work, channel, guest>>

(* placeOrder, also of a replayed checkout or one that appends.            *)
OptIn(s) == HasSession /\ \E o \in Orders : AskDecision(s, o, TRUE)

(* The opt-out page.                                                       *)
OptOut(s) == HasSession /\ AskDecision(s, Random, FALSE)

StaffOptOut(s) == AskDecision(s, Random, FALSE)

(* STOP, delivered as often as Meta likes, to the number of the brand.     *)
Stop(s) == conn[Home] # Null /\ \E m \in Messages : AskDecision(s, m, FALSE)

Sources == {consent[i].source : i \in 1 .. Len(consent)} \ {Random}

(* Seeded fault: every call appends.                                       *)
Appended(decision) == Append(consent, decision)

(* upsert with an empty update on (customer, channel, purpose, source).    *)
Recorded(decision) == IF decision.source \in Sources THEN consent ELSE Append(consent, decision)

RecordDecision(s) ==
  /\ Runs(s, "decide")
  /\ Len(consent) < MaxLog
  /\ consent' = Recorded([source |-> req[s].source, granted |-> req[s].granted])
  /\ Finish(s)
  /\ UNCHANGED <<work, channel, code, verified, tokens>>

(* canSendWhatsAppMarketing: the last decision.                            *)
OptedIn == consent # <<>> /\ consent[Len(consent)].granted

-----------------------------------------------------------------------------

WhatsAppNext ==
  \/ \E s \in Requests :
       \/ AskSave(s) \/ CommitSave(s)
       \/ ClaimState(s) \/ ExchangeCode(s) \/ VerifyMeta(s) \/ CheckIdentity(s) \/ Upsert(s) \/ Complete(s)
       \/ AskSync(s) \/ ReplaceSnapshot(s) \/ MarkTemplatesSynced(s)
       \/ MarkNeedsReauth(s)
       \/ AskPrepare(s) \/ CheckChoice(s) \/ Queue(s)
       \/ AskDispatch(s) \/ CheckTemplate(s) \/ AssertCurrentVerified(s) \/ Dispatch(s)
       \/ AskCode(s) \/ CreateCode(s) \/ SendCode(s)
       \/ AskVerify(s) \/ CountTry(s) \/ ClaimCode(s) \/ StampCustomer(s)
       \/ OptIn(s) \/ OptOut(s) \/ StaffOptOut(s) \/ Stop(s) \/ RecordDecision(s)
       \/ Abandon(s)
  \/ \E b \in Brands : TokenExpires(b)
  \/ \E a \in Attempts : Start(a)
  \/ \E k \in Codes : CodeAges(k)

WhatsAppSpec == WhatsAppInit /\ [][WhatsAppNext]_channelVars

-----------------------------------------------------------------------------
(* Correctness                                                             *)

(* Every message of a campaign goes out under the connection it was queued *)
(* for and by the sender whose template it uses.                           *)
SentAsQueued ==
  \A c \in Campaigns : choice[c] # Null =>
    choice[c].sent \subseteq {<<choice[c].version, choice[c].account>>}

(* When that connection has been replaced, only a request that had been    *)
(* checked before may still send: between the check and the call lie two   *)
(* statements of the gate.                                                 *)
CallsAreCleared ==
  \A s \in Requests : Runs(s, "call") => IdentityWhere(Home, req[s].version) \/ s \in overtaken

(* Work begun under a connection that was replaced meanwhile leaves no     *)
(* trace on the new one: it needs reauthorization only if its own token was*)
(* refused, is synced only if its own templates were fetched, and no       *)
(* campaign that was queued for the old one passes the check any more      *)
(* (template-sync.service.ts:144-146, whatsapp-connection.service.ts:133). *)
StaleWorkIsHarmless ==
  /\ conn[Home] # Null =>
       /\ conn[Home].status = "NEEDS_REAUTH" => conn[Home].version \in refused
       /\ conn[Home].synced => applied[conn[Home].sender] = conn[Home].version
  /\ SentAsQueued
  /\ CallsAreCleared

(* A decision counts once, so an old one that is repeated never beats a    *)
(* newer one; only a proved number opts in, and a code proves it once      *)
(* (consent.service.ts:5, phone-verification.service.ts:67).               *)
GuestDecides ==
  /\ \A i, j \in 1 .. Len(consent) :
       consent[i].source = consent[j].source /\ consent[i].source # Random => i = j
  /\ (\E i \in 1 .. Len(consent) : consent[i].granted) => \E k \in Codes : tokens[k] > 0
  /\ \A k \in Codes : tokens[k] <= 1
===============================================================================
