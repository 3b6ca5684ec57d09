-------------------------- MODULE AuthServerProofs --------------------------
(***************************************************************************)
(* Theorems about AuthServer for every number of clients, sessions, codes, *)
(* keys, accounts and concurrent requests, and every lifetime.             *)
(***************************************************************************)
EXTENDS AuthServer, TLAPS

(* Ageing keeps a client row a client row.                                 *)
LEMMA OlderClient ==
  ASSUME ConstantsAssumption, NEW row \in ClientRow \cup {NoRow}
  PROVE  Older(row, ClientTTL) \in ClientRow \cup {NoRow}
  BY DEF Older, ClientRow, ConstantsAssumption

(* Ageing keeps a session row a session row.                               *)
LEMMA OlderSession ==
  ASSUME ConstantsAssumption, NEW row \in SessionRow \cup {NoRow}
  PROVE  Older(row, SessionTTL) \in SessionRow \cup {NoRow}
  BY DEF Older, SessionRow, ConstantsAssumption

(* Ageing keeps a code row a code row.                                     *)
LEMMA OlderCode ==
  ASSUME ConstantsAssumption, NEW row \in CodeRow \cup {NoRow}
  PROVE  Older(row, CodeTTL) \in CodeRow \cup {NoRow}
  BY DEF Older, CodeRow, ConstantsAssumption

(* The tables, the memory of the handlers and the history always have the  *)
(* types TypeOK gives them.                                                *)
LEMMA TypeOKStep == TypeOK /\ [Next]_vars => TypeOK'
  <1> SUFFICES ASSUME TypeOK, [Next]_vars PROVE TypeOK'
    OBVIOUS
  <1> USE ConstantsAssumption, NoRowAssumption
  <1>1. ASSUME NEW c \in ClientIds, ServeRegister(c) PROVE TypeOK'
    BY <1>1 DEF TypeOK, ServeRegister, Draw, ClientRow, memory, history, ConstantsAssumption
  <1>2. ASSUME NEW c \in ClientIds, NEW s \in SessionIds, NEW ch \in Challenges,
               ServeAuthorize(c, s, ch)
        PROVE  TypeOK'
    BY <1>2 DEF TypeOK, ServeAuthorize, Draw, SessionRow, Asked, memory, ConstantsAssumption
  <1>3. ASSUME NEW s \in SessionIds, ConsumeAuthorizeSession(s) PROVE TypeOK'
    <2>1. sessions[s] \in SessionRow
      BY <1>3 DEF TypeOK, ConsumeAuthorizeSession
    <2>2. [step |-> "consumed", client |-> sessions[s].client,
           challenge |-> sessions[s].challenge, account |-> NoRow, user |-> 0] \in Callback
      BY <2>1 DEF SessionRow, Callback
    <2>3. callbacks' \in [SessionIds -> Callback \cup {NoRow}]
      BY <1>3, <2>2 DEF TypeOK, ConsumeAuthorizeSession
    <2> QED
      BY <1>3, <2>3 DEF TypeOK, ConsumeAuthorizeSession, WithoutSession, history
  <1>4. ASSUME NEW s \in SessionIds, NEW a \in Accounts, AuthenticateAtGitHub(s, a)
        PROVE  TypeOK'
    <2>1. callbacks[s] \in Callback
      BY <1>4 DEF TypeOK, AuthenticateAtGitHub
    <2>2. callbacks' = [callbacks EXCEPT ![s] =
                         [callbacks[s] EXCEPT !.step = "allowed", !.account = a]]
      BY <1>4, <2>1 DEF TypeOK, AuthenticateAtGitHub
    <2>3. [callbacks[s] EXCEPT !.step = "allowed", !.account = a] \in Callback
      BY <2>1 DEF Callback
    <2> QED
      BY <1>4, <2>2, <2>3 DEF TypeOK, AuthenticateAtGitHub, tables, history
  <1>5. ASSUME NEW s \in SessionIds, UpsertGitHubUser(s) PROVE TypeOK'
    <2> DEFINE a == callbacks[s].account
    <2>1. callbacks[s] \in Callback /\ a \in Accounts
      BY <1>5 DEF TypeOK, UpsertGitHubUser, Callback
    <2>2. ReturnedId(a) \in Nat
      BY <2>1 DEF TypeOK, ReturnedId, NextUserId
    <2>3. callbacks' = [callbacks EXCEPT ![s] =
                         [callbacks[s] EXCEPT !.step = "upserted", !.user = ReturnedId(a)]]
      BY <1>5, <2>1 DEF TypeOK, UpsertGitHubUser
    <2>4. [callbacks[s] EXCEPT !.step = "upserted", !.user = ReturnedId(a)] \in Callback
      BY <2>1, <2>2 DEF Callback
    <2>5. users' \in [Accounts -> Nat] /\ lastUserId' \in Nat
      BY <1>5 DEF TypeOK, UpsertGitHubUser, NextUserId
    <2>6. callbacks' \in [SessionIds -> Callback \cup {NoRow}]
      <3> HIDE DEF a
      <3> QED BY <2>3, <2>4 DEF TypeOK
    <2> QED
      BY <1>5, <2>5, <2>6 DEF TypeOK, UpsertGitHubUser, history
  <1>6. ASSUME NEW s \in SessionIds, NEW k \in CodeIds, MintAuthorizationCode(s, k)
        PROVE  TypeOK'
    <2> DEFINE cb == callbacks[s]
    <2>1. cb \in Callback
      BY <1>6 DEF TypeOK, MintAuthorizationCode
    <2>2. [user |-> cb.user, client |-> cb.client, challenge |-> cb.challenge,
           used |-> FALSE, age |-> 0] \in CodeRow
      BY <2>1 DEF Callback, CodeRow, ConstantsAssumption
    <2>3. [session |-> s, account |-> cb.account] \in Origin
      BY <1>6, <2>1 DEF Callback, Origin, MintAuthorizationCode
    <2>4. codes' \in [CodeIds -> CodeRow \cup {NoRow}]
      BY <1>6, <2>2 DEF TypeOK, MintAuthorizationCode
    <2>5. origin' \in [CodeIds -> Origin \cup {NoRow}]
      BY <1>6, <2>3 DEF TypeOK, MintAuthorizationCode
    <2> QED
      BY <1>6, <2>4, <2>5 DEF TypeOK, MintAuthorizationCode, Draw
  <1>7. ASSUME NEW s \in SessionIds, CallbackFails(s) PROVE TypeOK'
    BY <1>7 DEF TypeOK, CallbackFails, tables, history
  <1>8. ASSUME NEW x \in Exchanges, NEW k \in CodeIds, NEW c \in ClientIds,
               NEW v \in Challenges, ConsumeAuthorizationCode(x, k, c, v)
        PROVE  TypeOK'
    <2>1. codes[k] \in CodeRow
      BY <1>8 DEF TypeOK, ConsumeAuthorizationCode, Redeemable
    <2>2. codes' \in [CodeIds -> CodeRow \cup {NoRow}]
      BY <1>8, <2>1 DEF TypeOK, ConsumeAuthorizationCode, CodeRow
    <2>3. clients' \in [ClientIds -> ClientRow \cup {NoRow}]
      BY <1>8, <2>1 DEF TypeOK, ConsumeAuthorizationCode, MarkUsed, CodeRow, ClientRow
    <2>4. exchanges' \in [Exchanges -> Exchange \cup {NoRow}]
      BY <1>8, <2>1 DEF TypeOK, ConsumeAuthorizationCode, Answers, CodeRow, Exchange
    <2> QED
      BY <1>8, <2>2, <2>3, <2>4 DEF TypeOK, ConsumeAuthorizationCode, history
  <1>9. ASSUME NEW x \in Exchanges, NEW t \in KeyIds, IssueAPIKey(x, t) PROVE TypeOK'
    BY <1>9 DEF TypeOK, IssueAPIKey, Draw, Exchange, Grant
  <1>10. ASSUME NEW x \in Exchanges, IssueAPIKeyFails(x) PROVE TypeOK'
    BY <1>10 DEF TypeOK, IssueAPIKeyFails, tables, history
  <1>11. ASSUME NEW a \in Accounts,
                CreateInvite(a) \/ RevokeInvite(a) \/ RevokeAPIKeys(a) \/ DeleteUser(a)
         PROVE  TypeOK'
    BY <1>11 DEF TypeOK, CreateInvite, RevokeInvite, RevokeAPIKeys, DeleteUser,
                 KeysWithout, CodesWithout, memory, history
  <1>12. CASE UnusedClientsBefore
    BY <1>12 DEF TypeOK, UnusedClientsBefore, BeforeCutoff, tables, history
  <1>13. CASE DeleteUnusedClients
    BY <1>13 DEF TypeOK, DeleteUnusedClients, history
  <1>14. CASE SweepFails
    BY <1>14 DEF TypeOK, SweepFails, tables, history
  <1>15. CASE Restart
    BY <1>15 DEF TypeOK, Restart, tables, history
  <1>16. CASE Tick
    BY <1>16, OlderClient, OlderSession, OlderCode DEF TypeOK, Tick, memory, history
  <1>17. CASE UNCHANGED vars
    BY <1>17 DEF TypeOK, vars, tables, memory, history
  <1> QED
    BY <1>1, <1>2, <1>3, <1>4, <1>5, <1>6, <1>7, <1>8, <1>9, <1>10, <1>11, <1>12,
       <1>13, <1>14, <1>15, <1>16, <1>17 DEF Next

(* TypeOK holds in every state of every behaviour.                         *)
THEOREM TypeCorrect == Spec => []TypeOK
  <1>1. Init => TypeOK
    BY DEF Init, TypeOK
  <1> QED
    BY <1>1, TypeOKStep, PTL DEF Spec

-----------------------------------------------------------------------------
(* The inductive invariant behind the safety properties: what each row and *)
(* each running handler still owes to the request that started the sign-in *)
(* it belongs to, even after other rows of that sign-in are gone.          *)

(* u is an id assigned to a users row of account a, present or deleted. It *)
(* can name nobody else later, because ids are never assigned twice.       *)
Belongs(u, a) ==
  /\ u # 0 /\ u <= lastUserId
  /\ \A b \in Accounts : users[b] = u => b = a

(* What is bound to the code drawn for a session: its client, challenge.   *)
Bound(k, c, ch) ==
  /\ origin[k] # NoRow
  /\ asked[origin[k].session] = [client |-> c, challenge |-> ch]

Spent(k) == codes[k] # NoRow => codes[k].used

InUse(c) == Registered(c) /\ clients[c].used

Unanswered(s) == \A k \in CodeIds : origin[k] # NoRow => origin[k].session # s

IssuedInv ==
  /\ \A c \in ClientIds  : c \notin issued => clients[c] = NoRow
  /\ \A s \in SessionIds : s \notin issued =>
       sessions[s] = NoRow /\ callbacks[s] = NoRow /\ asked[s] = NoRow
  /\ \A k \in CodeIds : k \notin issued => codes[k] = NoRow /\ origin[k] = NoRow
  /\ \A t \in KeyIds  : t \notin issued => keys[t] = 0 /\ grants[t] = NoRow

UserInv == \A a \in Accounts : users[a] # 0 => Belongs(users[a], a)

OriginInv == \A k \in CodeIds : origin[k] # NoRow => asked[origin[k].session] # NoRow

SessionInv ==
  \A s \in SessionIds : sessions[s] # NoRow =>
    /\ callbacks[s] = NoRow
    /\ asked[s] = [client |-> sessions[s].client, challenge |-> sessions[s].challenge]
    /\ Unanswered(s)

CallbackOK(s) ==
  /\ asked[s] = [client |-> callbacks[s].client, challenge |-> callbacks[s].challenge]
  /\ Unanswered(s)
  /\ callbacks[s].step = "upserted" => Belongs(callbacks[s].user, callbacks[s].account)

CallbackInv == \A s \in SessionIds : callbacks[s] # NoRow => CallbackOK(s)

CodeInv ==
  \A k \in CodeIds : codes[k] # NoRow =>
    /\ Bound(k, codes[k].client, codes[k].challenge)
    /\ Belongs(codes[k].user, origin[k].account)

ExchangeOK(x) ==
  LET ex == exchanges[x] IN
  /\ Bound(ex.code, ex.client, ex.challenge)
  /\ Belongs(ex.user, origin[ex.code].account)
  /\ Spent(ex.code)
  /\ InUse(ex.client)
  /\ \A y \in Exchanges : y # x /\ exchanges[y] # NoRow => exchanges[y].code # ex.code
  /\ \A t \in KeyIds : grants[t] # NoRow => grants[t].code # ex.code

ExchangeInv == \A x \in Exchanges : exchanges[x] # NoRow => ExchangeOK(x)

GrantInv ==
  \A t \in KeyIds :
    /\ grants[t] # NoRow =>
         /\ Bound(grants[t].code, grants[t].client, grants[t].challenge)
         /\ Spent(grants[t].code)
         /\ InUse(grants[t].client)
    /\ keys[t] # 0 =>
         grants[t] # NoRow /\ Belongs(keys[t], origin[grants[t].code].account)

Inv ==
  /\ TypeOK
  /\ IssuedInv /\ UserInv /\ OriginInv
  /\ SessionInv /\ CallbackInv /\ CodeInv /\ ExchangeInv /\ GrantInv
  /\ NoDanglingRows /\ OneCodePerSession /\ OneTokenPerCode

-----------------------------------------------------------------------------
(* What the rows and the handlers' records are made of.                    *)
LEMMA FieldTypes ==
  ASSUME TypeOK
  PROVE
    /\ \A c \in ClientIds : clients[c] # NoRow => clients[c] \in ClientRow
    /\ \A s \in SessionIds : sessions[s] # NoRow =>
         sessions[s] \in SessionRow /\ sessions[s].client \in ClientIds
    /\ \A k \in CodeIds : codes[k] # NoRow =>
         codes[k] \in CodeRow /\ codes[k].client \in ClientIds /\ codes[k].user \in Nat
    /\ \A k \in CodeIds : origin[k] # NoRow =>
         origin[k].session \in SessionIds /\ origin[k].account \in Accounts
    /\ \A s \in SessionIds : callbacks[s] # NoRow =>
         /\ callbacks[s] \in Callback
         /\ callbacks[s].client \in ClientIds /\ callbacks[s].user \in Nat
    /\ \A x \in Exchanges : exchanges[x] # NoRow =>
         /\ exchanges[x] \in Exchange
         /\ exchanges[x].code \in CodeIds /\ exchanges[x].client \in ClientIds
         /\ exchanges[x].user \in Nat
    /\ \A t \in KeyIds : keys[t] \in Nat
    /\ \A t \in KeyIds : grants[t] # NoRow =>
         grants[t].code \in CodeIds /\ grants[t].client \in ClientIds
  BY DEF TypeOK, ClientRow, SessionRow, CodeRow, Origin, Callback, Exchange, Grant

(* Ageing changes nothing but the age.                                     *)
LEMMA OlderKeeps ==
  ASSUME ConstantsAssumption, NoRowAssumption, NEW ttl
  PROVE
    /\ \A row \in ClientRow :
         Older(row, ttl).used = row.used /\ Older(row, ClientTTL) \in ClientRow
    /\ \A row \in SessionRow :
         LET new == Older(row, ttl) IN
         new.client = row.client /\ new.challenge = row.challenge
    /\ \A row \in CodeRow :
         LET new == Older(row, ttl) IN
         /\ new.client = row.client /\ new.challenge = row.challenge
         /\ new.user = row.user /\ new.used = row.used
    /\ Older(NoRow, ttl) = NoRow
  BY DEF Older, ClientRow, SessionRow, CodeRow, ConstantsAssumption

(* ServeRegister inserts a row under an id nothing refers to yet.          *)
LEMMA RegisterStep ==
    ASSUME Inv, NEW c \in ClientIds, ServeRegister(c)
  PROVE  Inv'
  <1> USE ConstantsAssumption, NoRowAssumption
  <1>0. TypeOK'
    BY TypeOKStep DEF Inv, Next
  <1>a. /\ clients[c] = NoRow /\ clients'[c] # NoRow
        /\ \A d \in ClientIds : d # c => clients'[d] = clients[d]
    <2>1. [age |-> 0, used |-> FALSE] \in ClientRow
      BY DEF ClientRow, ConstantsAssumption
    <2> QED
      BY <2>1 DEF Inv, TypeOK, IssuedInv, ServeRegister, Draw
  <1>1. IssuedInv'
    BY <1>0 DEF Inv, TypeOK, IssuedInv, ServeRegister, Draw, memory, history
  <1>2. ExchangeInv'
    BY <1>a, FieldTypes DEF Inv, TypeOK, ExchangeInv, ExchangeOK, Bound,
       Belongs, Spent, InUse, Registered, ServeRegister, Draw, memory, history
  <1>3. GrantInv'
    BY <1>a, FieldTypes DEF Inv, TypeOK, GrantInv, Bound, Belongs, Spent,
       InUse, Registered, ServeRegister, Draw, memory, history
  <1>4. NoDanglingRows'
    BY <1>a, FieldTypes DEF Inv, TypeOK, NoDanglingRows, LiveUser, Registered,
       ServeRegister, Draw, memory, history
  <1>5. (UserInv /\ OriginInv /\ SessionInv /\ CallbackInv /\ CodeInv /\ OneCodePerSession
        /\ OneTokenPerCode)'
    BY DEF Inv, UserInv, Belongs, OriginInv, IssuedInv, SessionInv,
       Unanswered, CallbackInv, CallbackOK, CodeInv, Bound, OneCodePerSession,
       OneTokenPerCode, ServeRegister, Draw, memory, history
  <1> QED
    BY <1>0, <1>1, <1>2, <1>3, <1>4, <1>5 DEF Inv

(* ServeAuthorize binds a new session to a registered client; what older   *)
(* sessions and codes were bound to is untouched.                          *)
LEMMA AuthorizeStep ==
    ASSUME Inv, NEW c \in ClientIds, NEW s \in SessionIds, NEW ch \in
         Challenges, ServeAuthorize(c, s, ch)
  PROVE  Inv'
  <1> USE ConstantsAssumption, NoRowAssumption
  <1>0. TypeOK'
    BY TypeOKStep DEF Inv, Next
  <1>a. /\ sessions[s] = NoRow /\ callbacks[s] = NoRow /\ asked[s] = NoRow
        /\ \A k \in CodeIds : origin[k] # NoRow =>
             origin[k].session # s /\ asked'[origin[k].session] = asked[origin[k].session]
    BY FieldTypes DEF Inv, TypeOK, IssuedInv, OriginInv, ServeAuthorize, Draw
  <1>1. IssuedInv'
    BY <1>0 DEF Inv, TypeOK, IssuedInv, ServeAuthorize, Draw, memory,
       Registered
  <1>2. OriginInv'
    BY <1>a, FieldTypes DEF Inv, TypeOK, OriginInv, IssuedInv, ServeAuthorize,
       Draw, memory, Registered
  <1>3. SessionInv'
    BY <1>a, FieldTypes DEF Inv, TypeOK, SessionInv, Unanswered,
       ServeAuthorize, Draw, memory, Registered
  <1>4. CallbackInv'
    BY <1>a, FieldTypes DEF Inv, TypeOK, CallbackInv, CallbackOK, Unanswered,
       Belongs, ServeAuthorize, Draw, memory, Registered
  <1>5. CodeInv'
    BY <1>a, FieldTypes DEF Inv, TypeOK, CodeInv, Bound, Belongs,
       ServeAuthorize, Draw, memory, Registered
  <1>6. ExchangeInv'
    BY <1>a, FieldTypes DEF Inv, TypeOK, ExchangeInv, ExchangeOK, Bound,
       Belongs, Spent, InUse, Registered, ServeAuthorize, Draw, memory
  <1>7. GrantInv'
    BY <1>a, FieldTypes DEF Inv, TypeOK, GrantInv, Bound, Belongs, Spent,
       InUse, Registered, ServeAuthorize, Draw, memory
  <1>8. NoDanglingRows'
    BY <1>0 DEF Inv, TypeOK, NoDanglingRows, LiveUser, Registered,
       ServeAuthorize, Draw, memory
  <1>9. (UserInv /\ OneCodePerSession /\ OneTokenPerCode)'
    BY DEF Inv, UserInv, Belongs, OneCodePerSession, OneTokenPerCode,
       ServeAuthorize, Draw, memory, Registered
  <1> QED
    BY <1>0, <1>1, <1>2, <1>3, <1>4, <1>5, <1>6, <1>7, <1>8, <1>9 DEF Inv

(* The session row becomes the callback, with the same client and          *)
(* challenge, and no code is drawn for it yet.                             *)
LEMMA ConsumeSessionStep ==
    ASSUME Inv, NEW s \in SessionIds, ConsumeAuthorizeSession(s)
  PROVE  Inv'
  <1> USE ConstantsAssumption, NoRowAssumption
  <1>0. TypeOK'
    BY TypeOKStep DEF Inv, Next
  <1>1. IssuedInv'
    BY <1>0 DEF Inv, TypeOK, IssuedInv, ConsumeAuthorizeSession,
       WithoutSession, history
  <1>2. SessionInv'
    BY <1>0 DEF Inv, TypeOK, SessionInv, Unanswered, ConsumeAuthorizeSession,
       WithoutSession, history
  <1>3. CallbackInv'
    BY <1>0, FieldTypes DEF Inv, TypeOK, CallbackInv, CallbackOK, Unanswered,
       Belongs, ConsumeAuthorizeSession, WithoutSession, history, SessionInv,
       SessionRow
  <1>4. NoDanglingRows'
    BY <1>0 DEF Inv, TypeOK, NoDanglingRows, LiveUser, Registered,
       ConsumeAuthorizeSession, WithoutSession, history
  <1>5. (UserInv /\ OriginInv /\ CodeInv /\ ExchangeInv /\ GrantInv /\ OneCodePerSession /\
        OneTokenPerCode)'
    BY DEF Inv, UserInv, Belongs, OriginInv, IssuedInv, CodeInv, Bound,
       ExchangeInv, ExchangeOK, Spent, InUse, Registered, GrantInv,
       OneCodePerSession, OneTokenPerCode, ConsumeAuthorizeSession,
       WithoutSession, history
  <1> QED
    BY <1>0, <1>1, <1>2, <1>3, <1>4, <1>5 DEF Inv

(* Learning who signed in changes only the callback's account.             *)
LEMMA AuthenticateStep ==
    ASSUME Inv, NEW s \in SessionIds, NEW a \in Accounts,
         AuthenticateAtGitHub(s, a)
  PROVE  Inv'
  <1> USE ConstantsAssumption, NoRowAssumption
  <1>0. TypeOK'
    BY TypeOKStep DEF Inv, Next
  <1>1. IssuedInv'
    BY <1>0 DEF Inv, TypeOK, IssuedInv, AuthenticateAtGitHub, tables, history,
       Callback
  <1>2. SessionInv'
    BY <1>0 DEF Inv, TypeOK, SessionInv, Unanswered, AuthenticateAtGitHub,
       tables, history, Callback
  <1>3. CallbackInv'
    BY <1>0 DEF Inv, TypeOK, CallbackInv, CallbackOK, Unanswered, Belongs,
       AuthenticateAtGitHub, tables, history, Callback
  <1>4. (UserInv /\ OriginInv /\ CodeInv /\ ExchangeInv /\ GrantInv /\ NoDanglingRows /\
        OneCodePerSession /\ OneTokenPerCode)'
    BY DEF Inv, UserInv, Belongs, OriginInv, IssuedInv, CodeInv, Bound,
       ExchangeInv, ExchangeOK, Spent, InUse, Registered, GrantInv,
       NoDanglingRows, LiveUser, OneCodePerSession, OneTokenPerCode,
       AuthenticateAtGitHub, tables, history, Callback
  <1> QED
    BY <1>0, <1>1, <1>2, <1>3, <1>4 DEF Inv

(* The upsert assigns an id above every earlier one, so whatever an older  *)
(* id belonged to it still belongs to.                                     *)
LEMMA UpsertStep ==
    ASSUME Inv, NEW s \in SessionIds, UpsertGitHubUser(s)
  PROVE  Inv'
  <1> USE ConstantsAssumption, NoRowAssumption
  <1>0. TypeOK'
    BY TypeOKStep DEF Inv, Next
  <1> DEFINE a == callbacks[s].account
  <1>a. a \in Accounts
    BY FieldTypes DEF Inv, UpsertGitHubUser, Callback
  <1>b. ASSUME NEW u, NEW b \in Accounts, Belongs(u, b), u \in Nat
        PROVE  Belongs(u, b)'
    BY <1>a, <1>b DEF Inv, TypeOK, Belongs, UpsertGitHubUser, NextUserId
  <1>c. LET id == ReturnedId(a) IN
        /\ id # 0 /\ id <= lastUserId'
        /\ \A b \in Accounts : users'[b] = id => b = a
    BY <1>a DEF Inv, TypeOK, UserInv, Belongs, UpsertGitHubUser, ReturnedId, NextUserId
  <1>1. IssuedInv'
    BY <1>0 DEF Inv, TypeOK, IssuedInv, UpsertGitHubUser, ReturnedId,
       NextUserId, history, Callback
  <1>2. UserInv'
    BY <1>0 DEF Inv, TypeOK, UserInv, Belongs, UpsertGitHubUser, ReturnedId,
       NextUserId, history, Callback
  <1>3. SessionInv'
    BY <1>0 DEF Inv, TypeOK, SessionInv, Unanswered, UpsertGitHubUser,
       ReturnedId, NextUserId, history, Callback
  <1>4. CallbackInv'
    <2> SUFFICES ASSUME NEW r \in SessionIds, (callbacks[r] # NoRow)'
                 PROVE  CallbackOK(r)'
      BY DEF CallbackInv
    <2>1. CASE r = s
      <3>1. callbacks[s] \in Callback /\ callbacks[s] # NoRow
        BY FieldTypes DEF Inv, UpsertGitHubUser
      <3>2. /\ callbacks'[s].user = ReturnedId(a) /\ callbacks'[s].account = a
            /\ callbacks'[s].client = callbacks[s].client
            /\ callbacks'[s].challenge = callbacks[s].challenge
        BY <3>1 DEF Inv, TypeOK, UpsertGitHubUser, Callback
      <3>3. asked' = asked /\ origin' = origin
        BY DEF UpsertGitHubUser, history
      <3> QED
        BY <2>1, <3>1, <3>2, <3>3, <1>c DEF Inv, CallbackInv, CallbackOK, Unanswered, Belongs
    <2>2. CASE r # s
      <3>1. callbacks'[r] = callbacks[r] /\ callbacks[r] \in Callback
        BY <2>2, FieldTypes DEF Inv, TypeOK, UpsertGitHubUser
      <3>2. asked' = asked /\ origin' = origin
        BY DEF UpsertGitHubUser, history
      <3>3. callbacks[r].step = "upserted" =>
              callbacks[r].account \in Accounts /\ callbacks[r].user \in Nat
        BY <3>1 DEF Callback
      <3> QED
        BY <3>1, <3>2, <3>3, <1>b DEF Inv, CallbackInv, CallbackOK, Unanswered
    <2> QED
      BY <2>1, <2>2
  <1>5. CodeInv'
    BY <1>b, FieldTypes DEF Inv, TypeOK, CodeInv, Bound, Belongs,
       UpsertGitHubUser, ReturnedId, NextUserId, history, Callback, CodeRow,
       Origin
  <1>6. ExchangeInv'
    BY <1>b, FieldTypes DEF Inv, TypeOK, ExchangeInv, ExchangeOK, Bound,
       Belongs, Spent, InUse, Registered, UpsertGitHubUser, ReturnedId,
       NextUserId, history, Callback, Exchange, Origin
  <1>7. GrantInv'
    BY <1>b, FieldTypes DEF Inv, TypeOK, GrantInv, Bound, Belongs, Spent,
       InUse, Registered, UpsertGitHubUser, ReturnedId, NextUserId, history,
       Callback, Grant, Origin
  <1>8. NoDanglingRows'
    BY <1>0 DEF Inv, TypeOK, NoDanglingRows, LiveUser, Registered,
       UpsertGitHubUser, ReturnedId, NextUserId, history, Callback
  <1>9. (OriginInv /\ OneCodePerSession /\ OneTokenPerCode)'
    BY DEF Inv, OriginInv, IssuedInv, OneCodePerSession, OneTokenPerCode,
       UpsertGitHubUser, ReturnedId, NextUserId, history, Callback
  <1> QED
    BY <1>0, <1>1, <1>2, <1>3, <1>4, <1>5, <1>6, <1>7, <1>8, <1>9 DEF Inv

(* The code takes over what the callback carried, and the callback ends:   *)
(* no second code can come from its session.                               *)
LEMMA MintStep ==
    ASSUME Inv, NEW s \in SessionIds, NEW k \in CodeIds,
         MintAuthorizationCode(s, k)
  PROVE  Inv'
  <1> USE ConstantsAssumption, NoRowAssumption
  <1>0. TypeOK'
    BY TypeOKStep DEF Inv, Next
  <1> DEFINE cb == callbacks[s]
  <1>a. /\ cb \in Callback /\ cb.account \in Accounts /\ cb.client \in ClientIds
        /\ Registered(cb.client) /\ Belongs(cb.user, cb.account)
        /\ asked[s] = [client |-> cb.client, challenge |-> cb.challenge]
        /\ asked[s] # NoRow /\ Unanswered(s)
    BY FieldTypes DEF Inv, TypeOK, MintAuthorizationCode, CallbackInv, CallbackOK, Callback, Asked
  <1>b. /\ origin[k] = NoRow /\ codes[k] = NoRow
        /\ origin'[k] = [session |-> s, account |-> cb.account] /\ origin'[k] # NoRow
        /\ codes'[k] = [user |-> cb.user, client |-> cb.client, challenge |-> cb.challenge,
                         used |-> FALSE, age |-> 0]
        /\ \A j \in CodeIds : j # k => origin'[j] = origin[j] /\ codes'[j] = codes[j]
    BY <1>a DEF Inv, TypeOK, IssuedInv, MintAuthorizationCode, Draw, Origin
  <1>c. /\ \A x \in Exchanges : exchanges[x] # NoRow => exchanges[x].code # k
        /\ \A t \in KeyIds : grants[t] # NoRow => grants[t].code # k
    <2>1. \A x \in Exchanges : exchanges[x] # NoRow => origin[exchanges[x].code] # NoRow
      BY DEF Inv, ExchangeInv, ExchangeOK, Bound
    <2>2. \A t \in KeyIds : grants[t] # NoRow => origin[grants[t].code] # NoRow
      BY DEF Inv, GrantInv, Bound
    <2> QED
      BY <1>b, <2>1, <2>2
  <1>1. IssuedInv'
    BY <1>b DEF Inv, TypeOK, IssuedInv, MintAuthorizationCode, Draw
  <1>2. OriginInv'
    BY <1>a, <1>b, <1>c, FieldTypes DEF Inv, TypeOK, OriginInv, IssuedInv,
       MintAuthorizationCode, Draw, Unanswered
  <1>3. SessionInv'
    BY <1>a, <1>b, <1>c, FieldTypes DEF Inv, TypeOK, SessionInv, Unanswered,
       MintAuthorizationCode, Draw
  <1>4. CallbackInv'
    BY <1>a, <1>b, <1>c, FieldTypes DEF Inv, TypeOK, CallbackInv, CallbackOK,
       Unanswered, Belongs, MintAuthorizationCode, Draw
  <1>5. CodeInv'
    BY <1>a, <1>b, <1>c, FieldTypes DEF Inv, TypeOK, CodeInv, Bound, Belongs,
       MintAuthorizationCode, Draw, Unanswered
  <1>6. ExchangeInv'
    BY <1>a, <1>b, <1>c, FieldTypes DEF Inv, TypeOK, ExchangeInv, ExchangeOK,
       Bound, Belongs, Spent, InUse, Registered, MintAuthorizationCode, Draw,
       Unanswered
  <1>7. GrantInv'
    BY <1>a, <1>b, <1>c, FieldTypes DEF Inv, TypeOK, GrantInv, Bound, Belongs,
       Spent, InUse, Registered, MintAuthorizationCode, Draw, Unanswered
  <1>8. NoDanglingRows'
    BY <1>a, <1>b, <1>c, FieldTypes DEF Inv, TypeOK, NoDanglingRows, LiveUser,
       Registered, MintAuthorizationCode, Draw, Unanswered
  <1>9. OneCodePerSession'
    BY <1>a, <1>b, <1>c, FieldTypes DEF Inv, TypeOK, OneCodePerSession,
       MintAuthorizationCode, Draw, Unanswered
  <1>10. (UserInv /\ OneTokenPerCode)'
    BY DEF Inv, UserInv, Belongs, OneTokenPerCode, MintAuthorizationCode, Draw
  <1> QED
    BY <1>0, <1>1, <1>2, <1>3, <1>4, <1>5, <1>6, <1>7, <1>8, <1>9, <1>10 DEF
       Inv

(* A callback that fails leaves the tables as they are.                    *)
LEMMA CallbackFailsStep ==
    ASSUME Inv, NEW s \in SessionIds, CallbackFails(s)
  PROVE  Inv'
  <1> USE ConstantsAssumption, NoRowAssumption
  <1>0. TypeOK'
    BY TypeOKStep DEF Inv, Next
  <1>1. IssuedInv'
    BY <1>0 DEF Inv, TypeOK, IssuedInv, CallbackFails, tables, history
  <1>2. SessionInv'
    BY <1>0 DEF Inv, TypeOK, SessionInv, Unanswered, CallbackFails, tables,
       history
  <1>3. CallbackInv'
    BY <1>0 DEF Inv, TypeOK, CallbackInv, CallbackOK, Unanswered, Belongs,
       CallbackFails, tables, history
  <1>4. (UserInv /\ OriginInv /\ CodeInv /\ ExchangeInv /\ GrantInv /\ NoDanglingRows /\
        OneCodePerSession /\ OneTokenPerCode)'
    BY DEF Inv, UserInv, Belongs, OriginInv, IssuedInv, CodeInv, Bound,
       ExchangeInv, ExchangeOK, Spent, InUse, Registered, GrantInv,
       NoDanglingRows, LiveUser, OneCodePerSession, OneTokenPerCode,
       CallbackFails, tables, history
  <1> QED
    BY <1>0, <1>1, <1>2, <1>3, <1>4 DEF Inv

(* The exchange takes over what the code carried; the code is spent and    *)
(* its client in use from here on.                                         *)
LEMMA ConsumeCodeStep ==
    ASSUME Inv, NEW x \in Exchanges, NEW k \in CodeIds, NEW c \in ClientIds,
         NEW v \in Challenges, ConsumeAuthorizationCode(x, k, c, v)
  PROVE  Inv'
  <1> USE ConstantsAssumption, NoRowAssumption
  <1>0. TypeOK'
    BY TypeOKStep DEF Inv, Next
  <1> DEFINE row == codes[k]
  <1>a. row \in CodeRow /\ row.client \in ClientIds /\ row # NoRow /\ ~row.used
    BY FieldTypes DEF Inv, ConsumeAuthorizationCode, Redeemable
  <1>b. /\ \A d \in ClientIds : Registered(d) <=> Registered(d)'
        /\ \A d \in ClientIds : InUse(d) => InUse(d)'
        /\ clients'[row.client] # NoRow /\ clients'[row.client].used
    <2>1. Registered(row.client)
      BY <1>a DEF Inv, NoDanglingRows
    <2>2. clients[row.client] \in ClientRow
      BY <1>a, <2>1, FieldTypes DEF Inv, Registered
    <2>3. [age |-> clients[row.client].age, used |-> TRUE] \in ClientRow
      BY <2>2 DEF ClientRow
    <2>4. /\ clients'[row.client] = [age |-> clients[row.client].age, used |-> TRUE]
          /\ \A d \in ClientIds : d # row.client => clients'[d] = clients[d]
      BY <1>a, <2>1 DEF Inv, TypeOK, ConsumeAuthorizationCode, MarkUsed, Registered
    <2>5. clients'[row.client] # NoRow /\ clients'[row.client].used
      <3> DEFINE new == [age |-> clients[row.client].age, used |-> TRUE]
      <3>1. new # NoRow /\ new.used
        BY <2>3
      <3> QED
        BY <2>4, <3>1
    <2>6. ASSUME NEW d \in ClientIds, d # row.client
          PROVE  (Registered(d) <=> Registered(d)') /\ (InUse(d) => InUse(d)')
      BY <2>4, <2>6 DEF Registered, InUse
    <2> QED
      BY <2>1, <2>5, <2>6 DEF InUse, Registered
  <1>c. /\ codes'[k] # NoRow /\ codes'[k].used
        /\ codes'[k].client = row.client /\ codes'[k].challenge = row.challenge
        /\ codes'[k].user = row.user
        /\ \A j \in CodeIds : j # k => codes'[j] = codes[j]
    <2>1. codes' = [codes EXCEPT ![k] = [row EXCEPT !.used = TRUE]]
      BY DEF ConsumeAuthorizationCode
    <2>2. [row EXCEPT !.used = TRUE] \in CodeRow
      BY <1>a DEF CodeRow
    <2> QED
      BY <1>a, <2>1, <2>2 DEF Inv, TypeOK, CodeRow
  <1>d. /\ \A y \in Exchanges : exchanges[y] # NoRow => exchanges[y].code # k
        /\ \A t \in KeyIds : grants[t] # NoRow => grants[t].code # k
    BY <1>a DEF Inv, ExchangeInv, ExchangeOK, GrantInv, Spent
  <1>1. IssuedInv'
    BY <1>a, <1>b, <1>c, <1>d, FieldTypes DEF Inv, TypeOK, IssuedInv,
       ConsumeAuthorizationCode, Redeemable, Answers, MarkUsed, history
  <1>2. CodeInv'
    BY <1>a, <1>b, <1>c, <1>d, FieldTypes DEF Inv, TypeOK, CodeInv, Bound,
       Belongs, ConsumeAuthorizationCode, Redeemable, Answers, MarkUsed,
       history
  <1>3. ExchangeInv'
    <2> SUFFICES ASSUME NEW y \in Exchanges, (exchanges[y] # NoRow)'
                 PROVE  ExchangeOK(y)'
      BY DEF ExchangeInv
    <2>0. /\ origin' = origin /\ asked' = asked /\ grants' = grants
          /\ users' = users /\ lastUserId' = lastUserId
      BY DEF ConsumeAuthorizationCode, history
    <2>1. CASE exchanges'[y] = exchanges[y]
      <3>1. exchanges[y].code \in CodeIds /\ exchanges[y].client \in ClientIds
        BY <2>1, FieldTypes DEF Inv
      <3>2. \A z \in Exchanges : exchanges'[z] = exchanges[z] \/ exchanges'[z].code = k
        BY DEF Inv, TypeOK, ConsumeAuthorizationCode
      <3> QED
        BY <1>b, <1>c, <1>d, <2>0, <2>1, <3>1, <3>2
        DEF Inv, ExchangeInv, ExchangeOK, Spent, Bound, Belongs
    <2>2. CASE exchanges'[y] # exchanges[y]
      <3>1. /\ y = x /\ c = row.client /\ v = row.challenge
            /\ exchanges'[y] = [code |-> k, client |-> c, challenge |-> v, user |-> row.user]
            /\ \A z \in Exchanges : z # y => exchanges'[z] = exchanges[z]
        BY <2>2 DEF Inv, TypeOK, ConsumeAuthorizationCode, Answers
      <3> QED
        <4>1. InUse(c)' /\ Spent(k)'
          BY <1>b, <1>c, <3>1 DEF InUse, Registered, Spent
        <4>2. Bound(k, c, v) /\ Belongs(row.user, origin[k].account)
          BY <1>a, <3>1 DEF Inv, CodeInv
        <4>3. /\ \A z \in Exchanges : z # y /\ exchanges'[z] # NoRow => exchanges'[z].code # k
              /\ \A t \in KeyIds : grants[t] # NoRow => grants[t].code # k
          BY <1>d, <3>1
        <4> HIDE DEF row
        <4> QED
          BY <2>0, <3>1, <4>1, <4>2, <4>3 DEF ExchangeOK, Bound, Belongs
    <2> QED
      BY <2>1, <2>2
  <1>4. GrantInv'
    BY <1>a, <1>b, <1>c, <1>d, FieldTypes DEF Inv, TypeOK, GrantInv, Bound,
       Belongs, Spent, InUse, Registered, ConsumeAuthorizationCode,
       Redeemable, Answers, MarkUsed, history
  <1>5. NoDanglingRows'
    BY <1>a, <1>b, <1>c, <1>d, FieldTypes DEF Inv, TypeOK, NoDanglingRows,
       LiveUser, Registered, ConsumeAuthorizationCode, Redeemable, Answers,
       MarkUsed, history
  <1>6. (UserInv /\ OriginInv /\ SessionInv /\ CallbackInv /\ OneCodePerSession /\ OneTokenPerCode)'
    BY DEF Inv, UserInv, Belongs, OriginInv, IssuedInv, SessionInv,
       Unanswered, CallbackInv, CallbackOK, OneCodePerSession,
       OneTokenPerCode, ConsumeAuthorizationCode, Redeemable, Answers,
       MarkUsed, history
  <1> QED
    BY <1>0, <1>1, <1>2, <1>3, <1>4, <1>5, <1>6 DEF Inv

(* The token takes over what the exchange carried, and the exchange ends:  *)
(* no second token can come from its code.                                 *)
LEMMA IssueStep ==
    ASSUME Inv, NEW x \in Exchanges, NEW t \in KeyIds, IssueAPIKey(x, t)
  PROVE  Inv'
  <1> USE ConstantsAssumption, NoRowAssumption
  <1>0. TypeOK'
    BY TypeOKStep DEF Inv, Next
  <1> DEFINE ex == exchanges[x]
  <1>a. /\ ex # NoRow /\ ex \in Exchange /\ ex.code \in CodeIds /\ ex.client \in ClientIds
        /\ Bound(ex.code, ex.client, ex.challenge)
        /\ Belongs(ex.user, origin[ex.code].account)
        /\ Spent(ex.code) /\ InUse(ex.client)
        /\ \A y \in Exchanges : y # x /\ exchanges[y] # NoRow => exchanges[y].code # ex.code
        /\ \A u \in KeyIds : grants[u] # NoRow => grants[u].code # ex.code
    BY FieldTypes DEF Inv, IssueAPIKey, ExchangeInv, ExchangeOK
  <1>b. /\ grants[t] = NoRow /\ keys[t] = 0 /\ keys'[t] = ex.user
        /\ grants'[t] = [code |-> ex.code, client |-> ex.client, challenge |-> ex.challenge]
        /\ grants'[t] # NoRow
        /\ \A u \in KeyIds : u # t => grants'[u] = grants[u] /\ keys'[u] = keys[u]
        /\ exchanges'[x] = NoRow
        /\ \A y \in Exchanges : y # x => exchanges'[y] = exchanges[y]
    BY <1>a DEF Inv, TypeOK, IssuedInv, IssueAPIKey, Draw, Exchange, Grant
  <1>1. IssuedInv'
    BY <1>a, <1>b, FieldTypes DEF Inv, TypeOK, IssuedInv, IssueAPIKey, Draw
  <1>2. ExchangeInv'
    BY <1>a, <1>b, FieldTypes DEF Inv, TypeOK, ExchangeInv, ExchangeOK, Bound,
       Belongs, Spent, InUse, Registered, IssueAPIKey, Draw
  <1>3. GrantInv'
    BY <1>a, <1>b, FieldTypes DEF Inv, TypeOK, GrantInv, Bound, Belongs,
       Spent, InUse, Registered, IssueAPIKey, Draw
  <1>4. NoDanglingRows'
    BY <1>a, <1>b, FieldTypes DEF Inv, TypeOK, NoDanglingRows, LiveUser,
       Registered, IssueAPIKey, Draw
  <1>5. OneTokenPerCode'
    BY <1>a, <1>b, FieldTypes DEF Inv, TypeOK, OneTokenPerCode, IssueAPIKey,
       Draw
  <1>6. (UserInv /\ OriginInv /\ SessionInv /\ CallbackInv /\ CodeInv /\ OneCodePerSession)'
    BY DEF Inv, UserInv, Belongs, OriginInv, IssuedInv, SessionInv,
       Unanswered, CallbackInv, CallbackOK, CodeInv, Bound, OneCodePerSession,
       IssueAPIKey, Draw
  <1> QED
    BY <1>0, <1>1, <1>2, <1>3, <1>4, <1>5, <1>6 DEF Inv

(* An exchange that fails leaves the tables as they are.                   *)
LEMMA IssueFailsStep ==
    ASSUME Inv, NEW x \in Exchanges, IssueAPIKeyFails(x)
  PROVE  Inv'
  <1> USE ConstantsAssumption, NoRowAssumption
  <1>0. TypeOK'
    BY TypeOKStep DEF Inv, Next
  <1>1. ExchangeInv'
    BY <1>0 DEF Inv, TypeOK, ExchangeInv, ExchangeOK, Bound, Belongs, Spent,
       InUse, Registered, IssueAPIKeyFails, tables, history
  <1>2. (IssuedInv /\ UserInv /\ OriginInv /\ SessionInv /\ CallbackInv /\ CodeInv /\
        GrantInv /\ NoDanglingRows /\ OneCodePerSession /\ OneTokenPerCode)'
    BY DEF Inv, IssuedInv, UserInv, Belongs, OriginInv, SessionInv,
       Unanswered, CallbackInv, CallbackOK, CodeInv, Bound, GrantInv, Spent,
       InUse, Registered, NoDanglingRows, LiveUser, OneCodePerSession,
       OneTokenPerCode, IssueAPIKeyFails, tables, history
  <1> QED
    BY <1>0, <1>1, <1>2 DEF Inv

(* Invites are read by the allowlist check only.                           *)
LEMMA InviteStep ==
    ASSUME Inv, NEW a \in Accounts, CreateInvite(a) \/ RevokeInvite(a)
  PROVE  Inv'
  <1> USE ConstantsAssumption, NoRowAssumption
  <1>0. TypeOK'
    BY TypeOKStep DEF Inv, Next
  <1>1. (IssuedInv /\ UserInv /\ OriginInv /\ SessionInv /\ CallbackInv /\ CodeInv /\
        ExchangeInv /\ GrantInv /\ NoDanglingRows /\ OneCodePerSession /\ OneTokenPerCode)'
    BY DEF Inv, IssuedInv, UserInv, Belongs, OriginInv, SessionInv,
       Unanswered, CallbackInv, CallbackOK, CodeInv, Bound, ExchangeInv,
       ExchangeOK, Spent, InUse, Registered, GrantInv, NoDanglingRows,
       LiveUser, OneCodePerSession, OneTokenPerCode, CreateInvite,
       RevokeInvite, memory, history
  <1> QED
    BY <1>0, <1>1 DEF Inv

(* Revoking keys removes keys and nothing else.                            *)
LEMMA RevokeKeysStep ==
    ASSUME Inv, NEW a \in Accounts, RevokeAPIKeys(a)
  PROVE  Inv'
  <1> USE ConstantsAssumption, NoRowAssumption
  <1>0. TypeOK'
    BY TypeOKStep DEF Inv, Next
  <1>1. IssuedInv'
    BY <1>0 DEF Inv, TypeOK, IssuedInv, RevokeAPIKeys, KeysWithout, memory,
       history
  <1>2. GrantInv'
    BY <1>0 DEF Inv, TypeOK, GrantInv, Bound, Belongs, Spent, InUse,
       Registered, RevokeAPIKeys, KeysWithout, memory, history
  <1>3. NoDanglingRows'
    BY <1>0 DEF Inv, TypeOK, NoDanglingRows, LiveUser, Registered,
       RevokeAPIKeys, KeysWithout, memory, history
  <1>4. (UserInv /\ OriginInv /\ SessionInv /\ CallbackInv /\ CodeInv /\ ExchangeInv /\
        OneCodePerSession /\ OneTokenPerCode)'
    BY DEF Inv, UserInv, Belongs, OriginInv, IssuedInv, SessionInv,
       Unanswered, CallbackInv, CallbackOK, CodeInv, Bound, ExchangeInv,
       ExchangeOK, Spent, InUse, Registered, OneCodePerSession,
       OneTokenPerCode, RevokeAPIKeys, KeysWithout, memory, history
  <1> QED
    BY <1>0, <1>1, <1>2, <1>3, <1>4 DEF Inv

(* Deleting a user removes its keys and codes with it; an id in a callback *)
(* or an exchange now names nobody, and will never name anybody else.      *)
LEMMA DeleteStep ==
    ASSUME Inv, NEW a \in Accounts, DeleteUser(a)
  PROVE  Inv'
  <1> USE ConstantsAssumption, NoRowAssumption
  <1>0. TypeOK'
    BY TypeOKStep DEF Inv, Next
  <1>a. /\ \A u, b : Belongs(u, b) => Belongs(u, b)'
        /\ \A k \in CodeIds : codes'[k] # NoRow => codes'[k] = codes[k]
        /\ \A t \in KeyIds : keys'[t] # 0 => keys'[t] = keys[t]
    BY DEF Inv, TypeOK, Belongs, DeleteUser, CodesWithout, KeysWithout
  <1>b. \A k \in CodeIds : Spent(k) => Spent(k)'
    BY <1>a DEF Spent
  <1>1. IssuedInv'
    BY <1>0 DEF Inv, TypeOK, IssuedInv, DeleteUser, KeysWithout, CodesWithout,
       memory, history
  <1>2. UserInv'
    BY <1>0 DEF Inv, TypeOK, UserInv, Belongs, DeleteUser, KeysWithout,
       CodesWithout, memory, history
  <1>3. CallbackInv'
    BY <1>0 DEF Inv, TypeOK, CallbackInv, CallbackOK, Unanswered, Belongs,
       DeleteUser, KeysWithout, CodesWithout, memory, history
  <1>4. CodeInv'
    BY <1>a, <1>b, FieldTypes DEF Inv, TypeOK, CodeInv, Bound, Belongs,
       DeleteUser, KeysWithout, CodesWithout, memory, history
  <1>5. ExchangeInv'
    BY <1>a, <1>b, FieldTypes DEF Inv, TypeOK, ExchangeInv, ExchangeOK, Bound,
       Belongs, Spent, InUse, Registered, DeleteUser, KeysWithout,
       CodesWithout, memory, history
  <1>6. GrantInv'
    BY <1>a, <1>b, FieldTypes DEF Inv, TypeOK, GrantInv, Bound, Belongs,
       Spent, InUse, Registered, DeleteUser, KeysWithout, CodesWithout,
       memory, history
  <1>7. NoDanglingRows'
    BY <1>0 DEF Inv, TypeOK, NoDanglingRows, LiveUser, Registered, DeleteUser,
       KeysWithout, CodesWithout, memory, history
  <1>8. (OriginInv /\ SessionInv /\ OneCodePerSession /\ OneTokenPerCode)'
    BY DEF Inv, OriginInv, IssuedInv, SessionInv, Unanswered,
       OneCodePerSession, OneTokenPerCode, DeleteUser, KeysWithout,
       CodesWithout, memory, history
  <1> QED
    BY <1>0, <1>1, <1>2, <1>3, <1>4, <1>5, <1>6, <1>7, <1>8 DEF Inv

(* Listing the prunable clients only reads the tables.                     *)
LEMMA ListStep ==
    ASSUME Inv, UnusedClientsBefore
  PROVE  Inv'
  <1> USE ConstantsAssumption, NoRowAssumption
  <1>0. TypeOK'
    BY TypeOKStep DEF Inv, Next
  <1>1. (IssuedInv /\ UserInv /\ OriginInv /\ SessionInv /\ CallbackInv /\ CodeInv /\
        ExchangeInv /\ GrantInv /\ NoDanglingRows /\ OneCodePerSession /\ OneTokenPerCode)'
    BY DEF Inv, IssuedInv, UserInv, Belongs, OriginInv, SessionInv,
       Unanswered, CallbackInv, CallbackOK, CodeInv, Bound, ExchangeInv,
       ExchangeOK, Spent, InUse, Registered, GrantInv, NoDanglingRows,
       LiveUser, OneCodePerSession, OneTokenPerCode, UnusedClientsBefore,
       tables, history
  <1> QED
    BY <1>0, <1>1 DEF Inv

(* The prune removes clients that are not in use, with their sessions and  *)
(* codes.                                                                  *)
LEMMA PruneStep ==
    ASSUME Inv, DeleteUnusedClients
  PROVE  Inv'
  <1> USE ConstantsAssumption, NoRowAssumption
  <1>0. TypeOK'
    BY TypeOKStep DEF Inv, Next
  <1>a. /\ \A c \in ClientIds : clients'[c] # NoRow => clients'[c] = clients[c]
        /\ \A c \in ClientIds : InUse(c) => clients'[c] = clients[c]
        /\ \A s \in SessionIds : sessions'[s] # NoRow =>
             sessions'[s] = sessions[s] /\ ~Prunable(sessions[s].client)
        /\ \A k \in CodeIds : codes'[k] # NoRow =>
             codes'[k] = codes[k] /\ ~Prunable(codes[k].client)
        /\ \A c \in ClientIds : ~Prunable(c) => clients'[c] = clients[c]
    BY DEF DeleteUnusedClients, Prunable, InUse
  <1>b. /\ \A k \in CodeIds : Spent(k) => Spent(k)'
        /\ \A c \in ClientIds : InUse(c) => InUse(c)'
    BY <1>a DEF Spent, InUse, Registered
  <1>1. IssuedInv'
    BY <1>0 DEF Inv, TypeOK, IssuedInv, DeleteUnusedClients, Prunable, history
  <1>2. SessionInv'
    BY <1>0 DEF Inv, TypeOK, SessionInv, Unanswered, DeleteUnusedClients,
       Prunable, history
  <1>3. CodeInv'
    BY <1>0 DEF Inv, TypeOK, CodeInv, Bound, Belongs, DeleteUnusedClients,
       Prunable, history
  <1>4. ExchangeInv'
    BY <1>b, FieldTypes DEF Inv, DeleteUnusedClients, history, ExchangeInv, ExchangeOK, Bound, Belongs
  <1>5. GrantInv'
    BY <1>b, FieldTypes DEF Inv, DeleteUnusedClients, history, GrantInv, Bound, Belongs
  <1>6. NoDanglingRows'
    BY <1>a, FieldTypes DEF Inv, DeleteUnusedClients, NoDanglingRows, LiveUser, Registered
  <1>7. (UserInv /\ OriginInv /\ CallbackInv /\ OneCodePerSession /\ OneTokenPerCode)'
    BY DEF Inv, UserInv, Belongs, OriginInv, IssuedInv, CallbackInv,
       CallbackOK, Unanswered, OneCodePerSession, OneTokenPerCode,
       DeleteUnusedClients, Prunable, history
  <1> QED
    BY <1>0, <1>1, <1>2, <1>3, <1>4, <1>5, <1>6, <1>7 DEF Inv

(* A pass that fails leaves the tables as they are.                        *)
LEMMA SweepFailsStep ==
    ASSUME Inv, SweepFails
  PROVE  Inv'
  <1> USE ConstantsAssumption, NoRowAssumption
  <1>0. TypeOK'
    BY TypeOKStep DEF Inv, Next
  <1>1. (IssuedInv /\ UserInv /\ OriginInv /\ SessionInv /\ CallbackInv /\ CodeInv /\
        ExchangeInv /\ GrantInv /\ NoDanglingRows /\ OneCodePerSession /\ OneTokenPerCode)'
    BY DEF Inv, IssuedInv, UserInv, Belongs, OriginInv, SessionInv,
       Unanswered, CallbackInv, CallbackOK, CodeInv, Bound, ExchangeInv,
       ExchangeOK, Spent, InUse, Registered, GrantInv, NoDanglingRows,
       LiveUser, OneCodePerSession, OneTokenPerCode, SweepFails, tables,
       history
  <1> QED
    BY <1>0, <1>1 DEF Inv

(* A restart loses the handlers and keeps the tables.                      *)
LEMMA RestartStep ==
    ASSUME Inv, Restart
  PROVE  Inv'
  <1> USE ConstantsAssumption, NoRowAssumption
  <1>0. TypeOK'
    BY TypeOKStep DEF Inv, Next
  <1>1. IssuedInv'
    BY <1>0 DEF Inv, TypeOK, IssuedInv, Restart, tables, history
  <1>2. SessionInv'
    BY <1>0 DEF Inv, TypeOK, SessionInv, Unanswered, Restart, tables, history
  <1>3. CallbackInv'
    BY <1>0 DEF Inv, TypeOK, CallbackInv, CallbackOK, Unanswered, Belongs,
       Restart, tables, history
  <1>4. ExchangeInv'
    BY <1>0 DEF Inv, TypeOK, ExchangeInv, ExchangeOK, Bound, Belongs, Spent,
       InUse, Registered, Restart, tables, history
  <1>5. (UserInv /\ OriginInv /\ CodeInv /\ GrantInv /\ NoDanglingRows /\ OneCodePerSession
        /\ OneTokenPerCode)'
    BY DEF Inv, UserInv, Belongs, OriginInv, IssuedInv, CodeInv, Bound,
       GrantInv, Spent, InUse, Registered, NoDanglingRows, LiveUser,
       OneCodePerSession, OneTokenPerCode, Restart, tables, history
  <1> QED
    BY <1>0, <1>1, <1>2, <1>3, <1>4, <1>5 DEF Inv

(* Time changes nothing but ages.                                          *)
LEMMA TickStep ==
    ASSUME Inv, Tick
  PROVE  Inv'
  <1> USE ConstantsAssumption, NoRowAssumption
  <1>0. TypeOK'
    BY TypeOKStep DEF Inv, Next
  <1>a. /\ \A c \in ClientIds : InUse(c) => InUse(c)'
        /\ \A c \in ClientIds : Registered(c) <=> Registered(c)'
    BY OlderKeeps, FieldTypes DEF Inv, Tick, InUse, Registered, ClientRow
  <1>b. \A s \in SessionIds : sessions'[s] # NoRow =>
          /\ sessions[s] # NoRow
          /\ sessions'[s].client = sessions[s].client
          /\ sessions'[s].challenge = sessions[s].challenge
    BY OlderKeeps, FieldTypes DEF Inv, Tick, SessionRow
  <1>c. \A k \in CodeIds : codes'[k] # NoRow =>
          /\ codes[k] # NoRow
          /\ codes'[k].client = codes[k].client
          /\ codes'[k].challenge = codes[k].challenge
          /\ codes'[k].user = codes[k].user
          /\ codes'[k].used = codes[k].used
    BY OlderKeeps, FieldTypes DEF Inv, Tick, CodeRow
  <1>1. IssuedInv'
    BY <1>b, <1>c DEF Inv, Tick, memory, history, IssuedInv, Older
  <1>2. SessionInv'
    BY <1>b DEF Inv, Tick, memory, history, SessionInv, Unanswered
  <1>3. CodeInv'
    BY <1>c DEF Inv, Tick, history, CodeInv, Bound, Belongs
  <1>4. ExchangeInv'
    BY <1>a, <1>c, FieldTypes DEF Inv, Tick, memory, history, ExchangeInv, ExchangeOK, Bound, Belongs, Spent
  <1>5. GrantInv'
    BY <1>a, <1>c, FieldTypes DEF Inv, Tick, memory, history, GrantInv, Bound, Belongs, Spent
  <1>6. NoDanglingRows'
    BY <1>a, <1>b, <1>c, FieldTypes DEF Inv, Tick, NoDanglingRows, LiveUser
  <1>7. (UserInv /\ OriginInv /\ CallbackInv /\ OneCodePerSession /\ OneTokenPerCode)'
    BY DEF Inv, UserInv, Belongs, OriginInv, IssuedInv, CallbackInv,
       CallbackOK, Unanswered, OneCodePerSession, OneTokenPerCode, Tick,
       Older, memory, history
  <1> QED
    BY <1>0, <1>1, <1>2, <1>3, <1>4, <1>5, <1>6, <1>7 DEF Inv

-----------------------------------------------------------------------------
(* The invariant holds of the empty database.                              *)
LEMMA InvInit == Init => Inv
  BY NoRowAssumption DEF Init, Inv, TypeOK, IssuedInv, UserInv, OriginInv, SessionInv, CallbackInv,
     CodeInv, ExchangeInv, GrantInv, NoDanglingRows, OneCodePerSession, OneTokenPerCode

(* Every step preserves the invariant.                                     *)
LEMMA InvStep == Inv /\ [Next]_vars => Inv'
  <1> SUFFICES ASSUME Inv, [Next]_vars PROVE Inv'
    OBVIOUS
  <1>1. CASE UNCHANGED vars
    BY <1>1, TypeOKStep
    DEF vars, tables, memory, history, Inv, IssuedInv, UserInv, OriginInv, SessionInv, CallbackInv,
        CallbackOK, CodeInv, ExchangeInv, ExchangeOK, GrantInv, NoDanglingRows, OneCodePerSession,
        OneTokenPerCode, Belongs, Bound, Spent, InUse, Unanswered, Registered, LiveUser
  <1>2. CASE Next
    BY <1>2, RegisterStep, AuthorizeStep, ConsumeSessionStep, AuthenticateStep, UpsertStep,
       MintStep, CallbackFailsStep, ConsumeCodeStep, IssueStep, IssueFailsStep, InviteStep,
       RevokeKeysStep, DeleteStep, ListStep, PruneStep, SweepFailsStep, RestartStep, TickStep
    DEF Next
  <1> QED
    BY <1>1, <1>2

(* The invariant holds for ever.                                           *)
LEMMA Invariance == Spec => []Inv
  BY InvInit, InvStep, PTL DEF Spec

(* No session, code or key outlives the client or user it references.      *)
THEOREM ReferencesHold == Spec => []NoDanglingRows
  <1>1. Inv => NoDanglingRows
    BY DEF Inv
  <1> QED
    BY <1>1, Invariance, PTL

(* The GitHub callback mints at most one code for a session, however often *)
(* it is replayed and whatever restarts or prunes fall in between.         *)
THEOREM SessionsGiveOneCode == Spec => []OneCodePerSession
  <1>1. Inv => OneCodePerSession
    BY DEF Inv
  <1>. QED
    BY <1>1, Invariance, PTL

(* One /authorize request leads to at most one code, and one code to at    *)
(* most one token, however requests are replayed, interleaved or lost.     *)
THEOREM SingleUse == Spec => [](OneCodePerSession /\ OneTokenPerCode)
  <1>1. Inv => OneCodePerSession /\ OneTokenPerCode
    BY DEF Inv
  <1> QED
    BY <1>1, Invariance, PTL

(* A token goes to the client, and against the challenge, of the request   *)
(* that started the sign-in.                                               *)
THEOREM TokensAnswerRequests == Spec => []TokenAnswersRequest
  <1>1. Inv => TokenAnswersRequest
    BY DEF Inv, GrantInv, Bound, TokenAnswersRequest
  <1> QED
    BY <1>1, Invariance, PTL

(* A working token identifies the account that signed in for it, whatever  *)
(* rows were deleted and created since.                                    *)
THEOREM TokensNameTheirSigner == Spec => []TokenNamesSigner
  <1>1. ASSUME Inv, NEW t \in KeyIds, keys[t] # 0
        PROVE  IdentityForKey(t) = {origin[grants[t].code].account}
    <2>1. Belongs(keys[t], origin[grants[t].code].account) /\ grants[t] # NoRow
      BY <1>1 DEF Inv, GrantInv
    <2>2. LiveUser(keys[t])
      BY <1>1 DEF Inv, NoDanglingRows
    <2> QED
      BY <1>1, <2>1, <2>2 DEF IdentityForKey, LiveUser, Belongs
  <1>2. Inv => TokenNamesSigner
    BY <1>1 DEF TokenNamesSigner
  <1> QED
    BY <1>2, Invariance, PTL

(* The prune never removes a client that a token was issued to.            *)
THEOREM ExchangedClientsStay == Spec => []ExchangedClientsKept
  <1>1. Inv => ExchangedClientsKept
    BY DEF Inv, GrantInv, InUse, ExchangedClientsKept
  <1> QED
    BY <1>1, Invariance, PTL
=============================================================================
