------------------------------ MODULE Namespaces ------------------------------
(***************************************************************************)
(* Template namespaces: internal/authdb/namespaces.go and orgs.go, with    *)
(* the parts of sign-in and account deletion that touch them.              *)
(*                                                                         *)
(* A namespace has an id for life and any number of names. The name a      *)
(* personal namespace starts with is derived from its owner's GitHub id    *)
(* and is represented here by the account itself. Administrators name      *)
(* people by login, which GitHub may move from one account to another      *)
(* while the users table still caches who had it at the last sign-in.      *)
(*                                                                         *)
(* Each transaction is one step; a sign-in is several (UpsertGitHubUser,   *)
(* then the lookup and the transaction of EnsurePersonalNamespace).        *)
(***************************************************************************)

CONSTANTS
  Accounts,   \* GitHub accounts, and the names derived from their ids
  Logins,     \* GitHub logins, lower case
  Slugs,      \* the names ValidateName accepts
  NsIds,      \* what newNamespaceID can draw
  SignIns,    \* sign-ins that may run at once
  Administrator,  \* who CreateOrg records in created_by
  None        \* no row, no namespace, no sign-in

Names    == Slugs \cup Accounts
Roles    == {"owner", "member"}
Creators == Accounts \cup {Administrator}
SignIn   == [account : Accounts, step : {"upserted", "missing"}]

ASSUME NamespacesAssumption ==
  /\ Slugs \cap Accounts = {}
  /\ Administrator \notin Accounts
  /\ None \notin Logins /\ None \notin NsIds /\ None \notin Creators
  /\ None \notin SignIn /\ None \notin Roles

VARIABLES
  githubLogin, \* each account's login at GitHub
  users,       \* users.github_login, None without a row
  creator,     \* namespaces.created_by, None without a row
  names,       \* namespace_names.namespace_id, None without a row
  primary,     \* the names whose is_primary is 1
  role,        \* namespace_members.role, None without a row
  drawn,       \* the ids newNamespaceID has returned
  signIns      \* the running sign-ins

accounts == <<githubLogin, users>>
spaces   == <<creator, names, primary, role, drawn>>
vars     == <<accounts, spaces, signIns>>

Init ==
  /\ githubLogin \in [Accounts -> Logins]
  /\ \A a, b \in Accounts : a # b => githubLogin[a] # githubLogin[b]
  /\ users = [a \in Accounts |-> None]
  /\ creator = [id \in NsIds |-> None]
  /\ names = [n \in Names |-> None]
  /\ primary = {}
  /\ role = [id \in NsIds |-> [a \in Accounts |-> None]]
  /\ drawn = {}
  /\ signIns = [h \in SignIns |-> None]

-----------------------------------------------------------------------------
SignedUp(a)  == users[a] # None
Exists(id)   == creator[id] # None
Owners(id)   == {a \in Accounts : role[id][a] = "owner"}
Members(id)  == {a \in Accounts : role[id][a] # None}

AnyName(n)      == TRUE
ValidateName(n) == n \in Slugs

(* name is the primary key of namespace_names. *)
Free(n) == names[n] = None

Draw(id) == id \notin drawn /\ drawn' = drawn \cup {id}

(* An account takes a login nobody has now. *)
RenameAtGitHub(a, l) ==
  /\ \A b \in Accounts : githubLogin[b] # l
  /\ githubLogin' = [githubLogin EXCEPT ![a] = l]
  /\ UNCHANGED <<users, spaces, signIns>>

-----------------------------------------------------------------------------
(* Sign-in.                                                                *)

UpsertGitHubUser(h, a) ==
  /\ signIns[h] = None
  /\ users' = [users EXCEPT ![a] = githubLogin[a]]
  /\ signIns' = [signIns EXCEPT ![h] = [account |-> a, step |-> "upserted"]]
  /\ UNCHANGED <<githubLogin, spaces>>

LookUpPersonalNamespace(h) ==
  LET a == signIns[h].account IN
  /\ signIns[h] # None /\ signIns[h].step = "upserted"
  /\ signIns' = [signIns EXCEPT ![h] =
       IF Free(a) THEN [account |-> a, step |-> "missing"] ELSE None]
  /\ UNCHANGED <<accounts, spaces>>

CreatePersonalNamespace(h, id) ==
  LET a == signIns[h].account IN
  /\ signIns[h] # None /\ signIns[h].step = "missing"
  /\ Free(a)
  /\ Draw(id)
  /\ creator' = [creator EXCEPT ![id] = a]
  /\ names' = [names EXCEPT ![a] = id]
  /\ primary' = primary \cup {a}
  /\ role' = [role EXCEPT ![id][a] = "owner"]
  /\ signIns' = [signIns EXCEPT ![h] = None]
  /\ UNCHANGED accounts

(* The name was taken meanwhile, or a statement failed: logged, and the    *)
(* sign-in goes on without a namespace.                                    *)
EnsurePersonalNamespaceFails(h) ==
  /\ signIns[h] # None
  /\ signIns' = [signIns EXCEPT ![h] = None]
  /\ UNCHANGED <<accounts, spaces>>

-----------------------------------------------------------------------------
(* Namespaces and their names.                                             *)

CreateOrg(n, id) ==
  /\ ValidateName(n)
  /\ Free(n)
  /\ Draw(id)
  /\ creator' = [creator EXCEPT ![id] = Administrator]
  /\ names' = [names EXCEPT ![n] = id]
  /\ primary' = primary \cup {n}
  /\ UNCHANGED <<accounts, role, signIns>>

StillPrimary(id) == primary
Demoted(id)      == {n \in primary : names[n] # id}

NamesMoved(id, n) == [m \in Names |-> IF m = n THEN id ELSE IF names[m] = id THEN None ELSE names[m]]
NamesWith(id, n)  == [names EXCEPT ![n] = id]

AddName(id, n) ==
  /\ ValidateName(n)
  /\ Exists(id)
  /\ Free(n)
  /\ names' = NamesWith(id, n)
  /\ primary' = Demoted(id) \cup {n}
  /\ UNCHANGED <<accounts, creator, role, drawn, signIns>>

(* The namespaces row goes and, by ON DELETE CASCADE, its names and its    *)
(* memberships.                                                            *)
RolesKept(id)    == role
RolesWithout(id) == [role EXCEPT ![id] = [a \in Accounts |-> None]]

DeleteOrg(n) ==
  LET id == names[n] IN
  /\ id # None
  /\ creator' = [creator EXCEPT ![id] = None]
  /\ names' = [m \in Names |-> IF names[m] = id THEN None ELSE names[m]]
  /\ primary' = {m \in primary : names[m] # id}
  /\ role' = RolesWithout(id)
  /\ UNCHANGED <<accounts, drawn, signIns>>

-----------------------------------------------------------------------------
(* Membership. The administrator gives a login; the query takes one of the *)
(* users rows that cache it, here account a.                               *)

KnownRole(r) == r \in Roles

AddOrgMember(n, a, r) ==
  LET id == names[n] IN
  /\ KnownRole(r)
  /\ id # None
  /\ SignedUp(a)
  /\ role[id][a] = None
  /\ role' = [role EXCEPT ![id][a] = r]
  /\ UNCHANGED <<accounts, creator, names, primary, drawn, signIns>>

(* Counting the members that remain, owners or not, would not do. *)
WouldEmptyNamespace(id, a)  == role[id][a] = "owner" /\ Members(id) \ {a} = {}
WouldStrandNamespace(id, a) == role[id][a] = "owner" /\ Owners(id) \ {a} = {}

RemoveOrgMember(n, a) ==
  LET id == names[n] IN
  /\ id # None
  /\ SignedUp(a)
  /\ ~WouldStrandNamespace(id, a)
  /\ role[id][a] # None
  /\ role' = [role EXCEPT ![id][a] = None]
  /\ UNCHANGED <<accounts, creator, names, primary, drawn, signIns>>

SetOrgMemberRole(n, a, r) ==
  LET id == names[n] IN
  /\ KnownRole(r)
  /\ id # None
  /\ SignedUp(a)
  /\ r = "member" => ~WouldStrandNamespace(id, a)
  /\ role[id][a] # None
  /\ role' = [role EXCEPT ![id][a] = r]
  /\ UNCHANGED <<accounts, creator, names, primary, drawn, signIns>>

(* Every users row that caches the login goes; namespace_members has no    *)
(* foreign key to users and is not among the tables DeleteUser empties.    *)
DeleteUser(l) ==
  /\ \E a \in Accounts : users[a] = l
  /\ users' = [a \in Accounts |-> IF users[a] = l THEN None ELSE users[a]]
  /\ UNCHANGED <<githubLogin, spaces, signIns>>

-----------------------------------------------------------------------------
SignInStep ==
  \E h \in SignIns :
    \/ \E a \in Accounts : UpsertGitHubUser(h, a)
    \/ LookUpPersonalNamespace(h)
    \/ \E id \in NsIds : CreatePersonalNamespace(h, id)
    \/ EnsurePersonalNamespaceFails(h)

(* What the form may hold as a role; "editor" stands for anything else.    *)
RoleInputs == Roles \cup {"editor"}

AdminStep ==
  \/ \E n \in Names :
       \/ \E id \in NsIds : CreateOrg(n, id) \/ AddName(id, n)
       \/ DeleteOrg(n)
       \/ \E a \in Accounts :
            \/ RemoveOrgMember(n, a)
            \/ \E r \in RoleInputs : AddOrgMember(n, a, r) \/ SetOrgMemberRole(n, a, r)
  \/ \E l \in Logins : DeleteUser(l)

Next ==
  \/ \E a \in Accounts, l \in Logins : RenameAtGitHub(a, l)
  \/ SignInStep
  \/ AdminStep

Spec == Init /\ [][Next]_vars

-----------------------------------------------------------------------------
(* Properties.                                                             *)

TypeOK ==
  /\ githubLogin \in [Accounts -> Logins]
  /\ users   \in [Accounts -> Logins \cup {None}]
  /\ creator \in [NsIds -> Creators \cup {None}]
  /\ names   \in [Names -> NsIds \cup {None}]
  /\ primary \subseteq Names
  /\ role    \in [NsIds -> [Accounts -> Roles \cup {None}]]
  /\ drawn   \subseteq NsIds
  /\ signIns \in [SignIns -> SignIn \cup {None}]

(* Names and memberships never outlive their namespace: a compile resolves *)
(* no import, and RoleFor grants nothing, in a namespace that is gone.     *)
RowsNeedNamespace ==
  /\ \A n \in Names : names[n] # None => Exists(names[n])
  /\ \A id \in NsIds : Members(id) # {} => Exists(id)

(* Every namespace shows exactly one name (namespace_names.is_primary),    *)
(* through every renaming, deletion and concurrent sign-in.                *)
OnePrimaryName ==
  \A id \in NsIds : Exists(id) =>
    \E n \in primary : names[n] = id /\ \A m \in primary : names[m] = id => m = n

(* "Nobody may claim a name with this prefix": the name derived from an    *)
(* account's id only ever leads to the namespace made at its own sign-in.  *)
PersonalNamesOwn ==
  \A a \in Accounts : names[a] # None => creator[names[a]] = a

(* "documents that already import it never break": while its namespace     *)
(* exists, a name keeps pointing at it, whatever is renamed or created.    *)
NamesStay ==
  [][\A n \in Names, id \in NsIds : names[n] = id /\ Exists(id)' => names'[n] = id]_vars

(* A namespace that has an owner never loses its last one (ErrLastOwner),  *)
(* also when two rows cache the login the administrator typed.             *)
OwnersStay ==
  [][\A id \in NsIds : Owners(id) # {} /\ Exists(id)' => Owners(id)' # {}]_vars

(* What orgs.go says: ErrLastOwner "is returned when an action would leave *)
(* a namespace with nobody able to publish to it". Not so: the owners that *)
(* count include those whose account was deleted.                          *)
LiveOwners(id) == {a \in Owners(id) : SignedUp(a)}
GuardKeepsPublisher ==
  [][\A id \in NsIds : \A n \in Names, a \in Accounts :
       (RemoveOrgMember(n, a) \/ SetOrgMemberRole(n, a, "member"))
         => (LiveOwners(id) # {} => LiveOwners(id)' # {})]_vars

(* What admin.go says: DeleteUser "removes every trace of a user from the  *)
(* database". Not so: the memberships stay.                                *)
DeletedUsersForgotten ==
  [][\A a \in Accounts : SignedUp(a) /\ ~SignedUp(a)'
       => \A id \in NsIds : a \notin Members(id)']_vars
=============================================================================
