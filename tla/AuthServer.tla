------------------------------ MODULE AuthServer ------------------------------
(***************************************************************************)
(* The OAuth authorization server: internal/auth (HTTP handlers) over the  *)
(* tables of internal/authdb, with the administrator's account actions and *)
(* the sweeper's prune of client registrations running beside it.          *)
(*                                                                         *)
(* One SQLite transaction or statement is one step: the DSN sets           *)
(* foreign_keys(1), and a transaction either commits as if alone or fails. *)
(* A handler that makes several of them is several steps, with what it     *)
(* keeps in memory between them in callbacks, exchanges and pass; a crash  *)
(* loses that memory and keeps the tables.                                 *)
(*                                                                         *)
(* Time is the age of each row, counted in ticks and saturating one tick   *)
(* past the lifetime that is compared with it.                             *)
(***************************************************************************)
EXTENDS Naturals

CONSTANTS
  ClientIds, SessionIds, CodeIds, KeyIds, \* what randomToken can draw
  Accounts,       \* GitHub accounts; an account keeps one login here
  Admins,         \* the accounts named in GitHubConfig.AdminLogins
  Allowlist,      \* the accounts named in GitHubConfig.AllowedLogins
  Challenges,     \* PKCE challenges; a verifier is named by its challenge
  Exchanges,      \* the POST /token requests that may run at once
  ClientTTL, SessionTTL, CodeTTL,         \* lifetimes, in ticks
  MaxUserRows,    \* bound: users rows inserted in one behaviour
  NoRow           \* no such row, or a handler that is not running

ClientRow   == [age : 0 .. ClientTTL + 1, used : BOOLEAN]
SessionRow  == [client : ClientIds, challenge : Challenges, age : 0 .. SessionTTL + 1]
CodeRow     == [user : Nat, client : ClientIds, challenge : Challenges,
                used : BOOLEAN, age : 0 .. CodeTTL + 1]
Callback    == {cb \in [step : {"consumed", "allowed", "upserted"}, client : ClientIds,
                         challenge : Challenges, account : Accounts \cup {NoRow}, user : Nat] :
                  cb.step = "consumed" \/ cb.account \in Accounts}
Exchange    == [code : CodeIds, client : ClientIds, challenge : Challenges, user : Nat]
Asked       == [client : ClientIds, challenge : Challenges]
Origin      == [session : SessionIds, account : Accounts]
Grant       == [code : CodeIds, client : ClientIds, challenge : Challenges]

ASSUME ConstantsAssumption ==
  /\ Admins \subseteq Accounts /\ Allowlist \subseteq Accounts
  /\ ClientTTL \in Nat /\ SessionTTL \in Nat /\ CodeTTL \in Nat
  /\ MaxUserRows \in Nat

ASSUME NoRowAssumption ==
  /\ NoRow \notin ClientRow /\ NoRow \notin SessionRow /\ NoRow \notin CodeRow
  /\ NoRow \notin Callback /\ NoRow \notin Exchange
  /\ NoRow \notin Asked /\ NoRow \notin Origin /\ NoRow \notin Grant
  /\ NoRow \notin Accounts

VARIABLES
  (* tables *)
  clients,     \* oauth_clients
  sessions,    \* oauth_authorize_sessions
  codes,       \* oauth_authorization_codes
  users,       \* users: each account's row id, 0 without a row
  lastUserId,  \* the highest users.id ever assigned (AUTOINCREMENT)
  keys,        \* api_keys: the owning users.id, 0 without a row
  invites,     \* invites
  (* memory of the running handlers *)
  callbacks,   \* ServeCallback, by the session it consumed
  exchanges,   \* ServeToken
  pass,        \* sweepClients: the registrations its cutoff selects, if any
  issued,      \* every random identifier drawn so far
  (* history, read by no action *)
  asked,       \* what each session's /authorize request bound
  origin,      \* the session and GitHub account behind each code
  grants       \* the code, client and verifier behind each token

tables  == <<clients, sessions, codes, users, lastUserId, keys, invites>>
memory  == <<callbacks, exchanges, pass>>
history == <<asked, origin, grants>>
vars    == <<tables, memory, issued, history>>

TypeOK ==
  /\ clients  \in [ClientIds  -> ClientRow  \cup {NoRow}]
  /\ sessions \in [SessionIds -> SessionRow \cup {NoRow}]
  /\ codes    \in [CodeIds    -> CodeRow    \cup {NoRow}]
  /\ users \in [Accounts -> Nat]
  /\ lastUserId \in Nat
  /\ keys \in [KeyIds -> Nat]
  /\ invites \subseteq Accounts
  /\ callbacks \in [SessionIds -> Callback \cup {NoRow}]
  /\ exchanges \in [Exchanges -> Exchange \cup {NoRow}]
  /\ pass \subseteq ClientIds
  /\ issued \subseteq ClientIds \cup SessionIds \cup CodeIds \cup KeyIds
  /\ asked  \in [SessionIds -> Asked  \cup {NoRow}]
  /\ origin \in [CodeIds    -> Origin \cup {NoRow}]
  /\ grants \in [KeyIds     -> Grant  \cup {NoRow}]

Init ==
  /\ clients  = [c \in ClientIds  |-> NoRow]
  /\ sessions = [s \in SessionIds |-> NoRow]
  /\ codes    = [k \in CodeIds    |-> NoRow]
  /\ users = [a \in Accounts |-> 0]
  /\ lastUserId = 0
  /\ keys = [t \in KeyIds |-> 0]
  /\ invites = {}
  /\ callbacks = [s \in SessionIds |-> NoRow]
  /\ exchanges = [x \in Exchanges  |-> NoRow]
  /\ pass = {}
  /\ issued = {}
  /\ asked  = [s \in SessionIds |-> NoRow]
  /\ origin = [k \in CodeIds    |-> NoRow]
  /\ grants = [t \in KeyIds     |-> NoRow]

-----------------------------------------------------------------------------
(* Lookups.                                                                *)

Registered(c) == clients[c] # NoRow
LiveUser(u)   == \E a \in Accounts : users[a] = u /\ u # 0

(* Configuration, never the contents of the invites table, closes a server. *)
InviteOnly == Admins # {} \/ Allowlist # {}

LoginAllowed(a) == a \in Admins \cup Allowlist \cup invites \/ ~InviteOnly

(* The accounts a bearer token identifies: the api_keys JOIN users.        *)
IdentityForKey(t) == {a \in Accounts : users[a] = keys[t] /\ keys[t] # 0}

(* randomToken: 32 bytes of crypto/rand, so never the same one twice.      *)
Draw(id) == id \notin issued /\ issued' = issued \cup {id}

-----------------------------------------------------------------------------
(* The client's side: registration and /authorize.                         *)

ServeRegister(c) ==
  /\ Draw(c)
  /\ clients' = [clients EXCEPT ![c] = [age |-> 0, used |-> FALSE]]
  /\ UNCHANGED <<sessions, codes, users, lastUserId, keys, invites, memory, history>>

(* A client pruned between LookupClient and the INSERT fails the foreign   *)
(* key, so the registration is checked at the insert.                      *)
ServeAuthorize(c, s, ch) ==
  /\ Registered(c)
  /\ Draw(s)
  /\ sessions' = [sessions EXCEPT ![s] = [client |-> c, challenge |-> ch, age |-> 0]]
  /\ asked' = [asked EXCEPT ![s] = [client |-> c, challenge |-> ch]]
  /\ UNCHANGED <<clients, codes, users, lastUserId, keys, invites, memory, origin, grants>>

-----------------------------------------------------------------------------
(* ServeCallback: consume the session, ask GitHub who signed in, check the *)
(* allowlist, upsert the user, mint the code.                              *)

WithSession(s)    == sessions
WithoutSession(s) == [sessions EXCEPT ![s] = NoRow]

ConsumeAuthorizeSession(s) ==
  /\ sessions[s] # NoRow
  /\ callbacks[s] = NoRow
  /\ sessions' = WithoutSession(s)
  /\ IF sessions[s].age > SessionTTL
     THEN UNCHANGED callbacks
     ELSE callbacks' = [callbacks EXCEPT ![s] =
            [step |-> "consumed", client |-> sessions[s].client,
             challenge |-> sessions[s].challenge, account |-> NoRow, user |-> 0]]
  /\ UNCHANGED <<clients, codes, users, lastUserId, keys, invites,
                 exchanges, pass, issued, history>>

AuthenticateAtGitHub(s, a) ==
  /\ callbacks[s] # NoRow /\ callbacks[s].step = "consumed"
  /\ LoginAllowed(a)
  /\ callbacks' = [callbacks EXCEPT ![s].step = "allowed", ![s].account = a]
  /\ UNCHANGED <<tables, exchanges, pass, issued, history>>

(* users.id is AUTOINCREMENT: the id of a deleted row is not used again.   *)
LowestFreeId == CHOOSE u \in 1 .. lastUserId + 1 :
                  /\ \A a \in Accounts : users[a] # u
                  /\ \A w \in 1 .. u - 1 : \E a \in Accounts : users[a] = w
NextUserId   == lastUserId + 1

(* INSERT ... ON CONFLICT DO UPDATE ... RETURNING id                       *)
ReturnedId(a) == IF users[a] = 0 THEN NextUserId ELSE users[a]

UpsertGitHubUser(s) ==
  /\ callbacks[s] # NoRow /\ callbacks[s].step = "allowed"
  /\ LET a == callbacks[s].account IN
     /\ IF users[a] = 0
        THEN /\ lastUserId < MaxUserRows
             /\ lastUserId' = lastUserId + 1
             /\ users' = [users EXCEPT ![a] = NextUserId]
        ELSE UNCHANGED <<users, lastUserId>>
     /\ callbacks' = [callbacks EXCEPT ![s].step = "upserted", ![s].user = ReturnedId(a)]
  /\ UNCHANGED <<clients, sessions, codes, keys, invites, exchanges, pass, issued, history>>

MintAuthorizationCode(s, k) ==
  LET cb == callbacks[s] IN
  /\ cb # NoRow /\ cb.step = "upserted"
  /\ LiveUser(cb.user) /\ Registered(cb.client)
  /\ Draw(k)
  /\ codes' = [codes EXCEPT ![k] =
       [user |-> cb.user, client |-> cb.client, challenge |-> cb.challenge,
        used |-> FALSE, age |-> 0]]
  /\ origin' = [origin EXCEPT ![k] = [session |-> s, account |-> cb.account]]
  /\ callbacks' = [callbacks EXCEPT ![s] = NoRow]
  /\ UNCHANGED <<clients, sessions, users, lastUserId, keys, invites,
                 exchanges, pass, asked, grants>>

(* GitHub failed, the login is not allowed, or a statement failed: every   *)
(* one of these ends the handler with a redirect or a refusal page.        *)
CallbackFails(s) ==
  /\ callbacks[s] # NoRow
  /\ callbacks' = [callbacks EXCEPT ![s] = NoRow]
  /\ UNCHANGED <<tables, exchanges, pass, issued, history>>

-----------------------------------------------------------------------------
(* ServeToken: the code is consumed, and the client marked used, before    *)
(* the request's client_id and verifier are compared with what it holds.   *)

RedeemableAgain(k) == codes[k] # NoRow /\ codes[k].age <= CodeTTL
Redeemable(k)      == codes[k] # NoRow /\ ~codes[k].used /\ codes[k].age <= CodeTTL

(* The client_id (with its redirect_uri) and verifyPKCE comparisons.       *)
AnswersWithoutPKCE(row, c, v) == row.client = c
Answers(row, c, v)            == row.client = c /\ row.challenge = v

(* UPDATE oauth_clients SET last_used_at; without a row, it changes none.   *)
MarkUsed(c) == [clients EXCEPT ![c] = IF @ = NoRow THEN @ ELSE [age |-> @.age, used |-> TRUE]]

ConsumeAuthorizationCode(x, k, c, v) ==
  LET row == codes[k] IN
  /\ exchanges[x] = NoRow
  /\ Redeemable(k)
  /\ codes' = [codes EXCEPT ![k].used = TRUE]
  /\ clients' = MarkUsed(row.client)
  /\ IF Answers(row, c, v)
     THEN exchanges' = [exchanges EXCEPT ![x] =
            [code |-> k, client |-> c, challenge |-> v, user |-> row.user]]
     ELSE UNCHANGED exchanges
  /\ UNCHANGED <<sessions, users, lastUserId, keys, invites,
                 callbacks, pass, issued, history>>

IssueAPIKey(x, t) ==
  LET ex == exchanges[x] IN
  /\ ex # NoRow
  /\ LiveUser(ex.user)
  /\ Draw(t)
  /\ keys' = [keys EXCEPT ![t] = ex.user]
  /\ grants' = [grants EXCEPT ![t] =
       [code |-> ex.code, client |-> ex.client, challenge |-> ex.challenge]]
  /\ exchanges' = [exchanges EXCEPT ![x] = NoRow]
  /\ UNCHANGED <<clients, sessions, codes, users, lastUserId, invites,
                 callbacks, pass, asked, origin>>

IssueAPIKeyFails(x) ==
  /\ exchanges[x] # NoRow
  /\ exchanges' = [exchanges EXCEPT ![x] = NoRow]
  /\ UNCHANGED <<tables, callbacks, pass, issued, history>>

-----------------------------------------------------------------------------
(* The administrator.                                                      *)

CreateInvite(a) ==
  /\ invites' = invites \cup {a}
  /\ UNCHANGED <<clients, sessions, codes, users, lastUserId, keys, memory, issued, history>>

RevokeInvite(a) ==
  /\ invites' = invites \ {a}
  /\ UNCHANGED <<clients, sessions, codes, users, lastUserId, keys, memory, issued, history>>

KeysWithout(u)  == [t \in KeyIds |-> IF keys[t] = u THEN 0 ELSE keys[t]]
CodesUncascaded(u) == codes
CodesWithout(u) == [k \in CodeIds |-> IF codes[k] # NoRow /\ codes[k].user = u
                                      THEN NoRow ELSE codes[k]]

RevokeAPIKeys(a) ==
  /\ keys' = KeysWithout(users[a])
  /\ UNCHANGED <<clients, sessions, codes, users, lastUserId, invites, memory, issued, history>>

(* The users row goes and, through ON DELETE CASCADE, its keys and codes.  *)
DeleteUser(a) ==
  /\ users[a] # 0 \/ a \in invites
  /\ users' = [users EXCEPT ![a] = 0]
  /\ keys'  = KeysWithout(users[a])
  /\ codes' = CodesWithout(users[a])
  /\ invites' = invites \ {a}
  /\ UNCHANGED <<clients, sessions, lastUserId, memory, issued, history>>

-----------------------------------------------------------------------------
(* The sweeper's client prune: a listing, which is logged, and then a      *)
(* DELETE that asks the question again with the same cutoff. No client     *)
(* registered later can be older than that cutoff, so the cutoff is        *)
(* represented by the registrations it selects.                            *)

BeforeCutoffReversed == {c \in ClientIds : Registered(c) /\ clients[c].age < ClientTTL}
BeforeCutoff         == {c \in ClientIds : Registered(c) /\ clients[c].age > ClientTTL}

UnusedClientsBefore ==
  /\ ClientTTL > 0
  /\ pass = {}
  /\ \E c \in BeforeCutoff : ~clients[c].used
  /\ pass' = BeforeCutoff
  /\ UNCHANGED <<tables, callbacks, exchanges, issued, history>>

PrunableByAge(c) == c \in pass /\ Registered(c)
Prunable(c) == c \in pass /\ Registered(c) /\ ~clients[c].used

DeleteUnusedClients ==
  /\ pass # {}
  /\ clients' = [c \in ClientIds |-> IF Prunable(c) THEN NoRow ELSE clients[c]]
  /\ sessions' = [s \in SessionIds |->
       IF sessions[s] # NoRow /\ Prunable(sessions[s].client) THEN NoRow ELSE sessions[s]]
  /\ codes' = [k \in CodeIds |->
       IF codes[k] # NoRow /\ Prunable(codes[k].client) THEN NoRow ELSE codes[k]]
  /\ pass' = {}
  /\ UNCHANGED <<users, lastUserId, keys, invites, callbacks, exchanges, issued, history>>

(* A failing pass is logged; the loop starts another at the next interval. *)
SweepFails ==
  /\ pass # {}
  /\ pass' = {}
  /\ UNCHANGED <<tables, callbacks, exchanges, issued, history>>

-----------------------------------------------------------------------------
(* The process stops and starts again.                                     *)
Restart ==
  /\ callbacks' = [s \in SessionIds |-> NoRow]
  /\ exchanges' = [x \in Exchanges |-> NoRow]
  /\ pass' = {}
  /\ UNCHANGED <<tables, issued, history>>

Older(row, ttl) ==
  IF row = NoRow \/ row.age > ttl THEN row ELSE [row EXCEPT !.age = row.age + 1]

Tick ==
  /\ clients'  = [c \in ClientIds  |-> Older(clients[c], ClientTTL)]
  /\ sessions' = [s \in SessionIds |-> Older(sessions[s], SessionTTL)]
  /\ codes'    = [k \in CodeIds    |-> Older(codes[k], CodeTTL)]
  /\ UNCHANGED <<users, lastUserId, keys, invites, memory, issued, history>>

Next ==
  \/ \E c \in ClientIds : ServeRegister(c)
  \/ \E c \in ClientIds, s \in SessionIds, ch \in Challenges : ServeAuthorize(c, s, ch)
  \/ \E s \in SessionIds :
       \/ ConsumeAuthorizeSession(s)
       \/ \E a \in Accounts : AuthenticateAtGitHub(s, a)
       \/ UpsertGitHubUser(s)
       \/ \E k \in CodeIds : MintAuthorizationCode(s, k)
       \/ CallbackFails(s)
  \/ \E x \in Exchanges :
       \/ \E k \in CodeIds, c \in ClientIds, v \in Challenges :
            ConsumeAuthorizationCode(x, k, c, v)
       \/ \E t \in KeyIds : IssueAPIKey(x, t)
       \/ IssueAPIKeyFails(x)
  \/ \E a \in Accounts :
       CreateInvite(a) \/ RevokeInvite(a) \/ RevokeAPIKeys(a) \/ DeleteUser(a)
  \/ UnusedClientsBefore \/ DeleteUnusedClients \/ SweepFails
  \/ Restart
  \/ Tick

Spec == Init /\ [][Next]_vars

(* Time passes; the sweeper's loop runs a pass at every interval, and a    *)
(* DELETE it keeps retrying is not refused for ever.                       *)
FairSpec ==
  /\ Spec
  /\ WF_vars(Tick)
  /\ WF_vars(UnusedClientsBefore)
  /\ SF_vars(DeleteUnusedClients)
-----------------------------------------------------------------------------
(* Properties.                                                             *)

(* No row outlives the row it references: sessions and codes go with their *)
(* client, codes and keys with their user, whatever the pruning, deleting  *)
(* and half-finished sign-ins that run beside one another (gc.go: "The     *)
(* sessions and codes belonging to a removed client go with it").          *)
NoDanglingRows ==
  /\ \A s \in SessionIds : sessions[s] # NoRow => Registered(sessions[s].client)
  /\ \A k \in CodeIds : codes[k] # NoRow =>
       Registered(codes[k].client) /\ LiveUser(codes[k].user)
  /\ \A t \in KeyIds : keys[t] # 0 => LiveUser(keys[t])

(* The GitHub callback "can fire exactly once per /authorize" (oauth.go):  *)
(* however often it is replayed, a session gives at most one code.         *)
OneCodePerSession ==
  \A k1, k2 \in CodeIds :
    k1 # k2 /\ origin[k1] # NoRow /\ origin[k2] # NoRow
      => origin[k1].session # origin[k2].session

(* "v1 issues exactly one token per code": concurrent and repeated /token  *)
(* requests for one code end with at most one API key.                     *)
OneTokenPerCode ==
  \A t1, t2 \in KeyIds :
    t1 # t2 /\ grants[t1] # NoRow /\ grants[t2] # NoRow
      => grants[t1].code # grants[t2].code

(* A token goes to the client whose /authorize request started the sign-in *)
(* it came from, against the verifier of that request's challenge.         *)
TokenAnswersRequest ==
  \A t \in KeyIds : grants[t] # NoRow =>
    LET from == origin[grants[t].code] IN
    /\ from # NoRow
    /\ asked[from.session] = [client |-> grants[t].client, challenge |-> grants[t].challenge]

(* As long as a token works it identifies the account that signed in at    *)
(* GitHub for it, and nobody else: also when that account was deleted, and *)
(* perhaps signed in again, while the callback or the exchange was held up. *)
TokenNamesSigner ==
  \A t \in KeyIds : keys[t] # 0 =>
    IdentityForKey(t) = {origin[grants[t].code].account}

(* "a client that got a token is never a client the prune may remove"      *)
(* (oauth.go), even when it gets it between the listing and the DELETE.    *)
ExchangedClientsKept ==
  \A t \in KeyIds : grants[t] # NoRow => Registered(grants[t].client)

(* A registration that redeems no code does not stay: it is eventually     *)
(* pruned (gc.go, DeleteUnusedClients).                                    *)
AbandonedClientsPruned ==
  \A c \in ClientIds : Registered(c) ~> (~Registered(c) \/ clients[c].used)

(* What sweeper.go says of ClientTTL: it is "how long a registration that  *)
(* has never completed a token exchange survives". Not so: redeeming a     *)
(* code marks the client used before the verifier is checked.              *)
UnexchangedClientsPruned ==
  \A c \in ClientIds :
    Registered(c) ~> (~Registered(c) \/ \E t \in KeyIds : grants[t] # NoRow /\ grants[t].client = c)
=============================================================================
