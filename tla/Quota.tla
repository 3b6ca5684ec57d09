-------------------------------- MODULE Quota --------------------------------
(***************************************************************************)
(* What the compile quota promises: a compile reads its user's limit,      *)
(* stamps the day, and then takes one unit of that day or is refused, in   *)
(* one step.  Meanwhile users sign in, midnight passes, and administrators *)
(* change quotas, clear today's counter and delete users.  QuotaLocks is   *)
(* what the code does on SQLite, and implements this specification.        *)
(***************************************************************************)
EXTENDS Integers

CONSTANTS
  Users,       \* GitHub ids; "gh:<id>" keys the counters
  Logins,      \* the logins cached in users rows; two rows may share one
  Requests,    \* compiles that may run at once
  Overrides,   \* limits an administrator sets; 0 is unlimited
  quotaPerDay, \* the deployment's default; 0 is unlimited
  MaxDay,      \* bound: days in one behaviour
  None         \* no row, no override, no compile

Limits == Overrides \cup {quotaPerDay}
Days   == 0 .. MaxDay
Row    == [login : Logins, quota : Overrides \cup {None}]

VARIABLES
  day,       \* today
  users,     \* the users row of each id
  compiles,  \* the count of each user's row of each day; no row counts 0
  requests   \* the compile calls at the quota gate

vars == <<day, users, compiles, requests>>

Gate == [at : {"limit"}, user : Users]
          \cup [at : {"day"}, user : Users, limit : Limits]
          \cup [at : {"count"}, user : Users, limit : Limits, day : Days]

Init ==
  /\ day = 0
  /\ users = [u \in Users |-> None]
  /\ compiles = [u \in Users |-> [d \in Days |-> 0]]
  /\ requests = [q \in Requests |-> None]

At(q, at) == requests[q] # None /\ requests[q].at = at
Named(l)  == {u \in Users : users[u] # None /\ users[u].login = l}

(* The caller is a user with an API key; the row may go while it compiles. *)
Start(q) ==
  /\ requests[q] = None
  /\ \E u \in Users :
       /\ users[u] # None
       /\ requests' = [requests EXCEPT ![q] = [at |-> "limit", user |-> u]]
  /\ UNCHANGED <<day, users, compiles>>

EffectiveQuota(u) ==
  IF users[u] = None THEN quotaPerDay
  ELSE IF users[u].quota = None THEN quotaPerDay ELSE users[u].quota

(* A read that fails leaves the default.                                   *)
ReadLimit(q) ==
  /\ At(q, "limit")
  /\ \E limit \in {EffectiveQuota(requests[q].user), quotaPerDay} :
       requests' = [requests EXCEPT ![q] =
         [at |-> "day", user |-> requests[q].user, limit |-> limit]]
  /\ UNCHANGED <<day, users, compiles>>

(* No quota: the compile goes ahead and nothing is counted.                *)
StampDay(q) ==
  /\ At(q, "day")
  /\ requests' = [requests EXCEPT ![q] =
       IF requests[q].limit <= 0 THEN None
       ELSE [at |-> "count", user |-> requests[q].user, limit |-> requests[q].limit, day |-> day]]
  /\ UNCHANGED <<day, users, compiles>>

Increment(q) ==
  /\ At(q, "count")
  /\ compiles[requests[q].user][requests[q].day] < requests[q].limit
  /\ compiles' = [compiles EXCEPT ![requests[q].user][requests[q].day] = @ + 1]
  /\ requests' = [requests EXCEPT ![q] = None]
  /\ UNCHANGED <<day, users>>

(* The day's units are spent, or the database does not answer.             *)
Refuse(q) ==
  /\ At(q, "count")
  /\ requests' = [requests EXCEPT ![q] = None]
  /\ UNCHANGED <<day, users, compiles>>

UpsertGitHubUser ==
  /\ \E u \in Users, l \in Logins :
       users' = [users EXCEPT ![u] =
         [login |-> l, quota |-> IF users[u] = None THEN None ELSE users[u].quota]]
  /\ UNCHANGED <<day, compiles, requests>>

SetQuota ==
  /\ \E l \in Logins, n \in Overrides \cup {None} :
       /\ Named(l) # {}
       /\ users' = [u \in Users |->
            IF u \in Named(l) THEN [login |-> l, quota |-> n] ELSE users[u]]
  /\ UNCHANGED <<day, compiles, requests>>

ResetTodayCompiles ==
  /\ \E u \in Users, d \in 0 .. day : compiles' = [compiles EXCEPT ![u][d] = 0]
  /\ UNCHANGED <<day, users, requests>>

(* One row gives the id whose counters go; every row with the login goes.  *)
DeleteUser ==
  /\ \E l \in Logins : \E u \in Named(l) :
       /\ users' = [v \in Users |-> IF v \in Named(l) THEN None ELSE users[v]]
       /\ compiles' = [compiles EXCEPT ![u] = [d \in Days |-> 0]]
  /\ UNCHANGED <<day, requests>>

Midnight ==
  /\ day < MaxDay /\ day' = day + 1
  /\ UNCHANGED <<users, compiles, requests>>

Next ==
  \/ \E q \in Requests : Start(q) \/ ReadLimit(q) \/ StampDay(q) \/ Increment(q) \/ Refuse(q)
  \/ UpsertGitHubUser \/ SetQuota \/ ResetTodayCompiles \/ DeleteUser
  \/ Midnight

Spec == Init /\ [][Next]_vars
=============================================================================
