--------------------------- MODULE NamespacesProofs ---------------------------
(***************************************************************************)
(* Theorems about Namespaces for every number of accounts, logins, names,  *)
(* namespace ids and concurrent sign-ins.                                  *)
(***************************************************************************)
EXTENDS Namespaces, TLAPS

(* The steps that leave the namespace tables alone.                        *)
Elsewhere == UNCHANGED spaces

(* The tables and the running sign-ins keep their types.                   *)
LEMMA TypeOKStep == TypeOK /\ [Next]_vars => TypeOK'
  <1> SUFFICES ASSUME TypeOK, [Next]_vars PROVE TypeOK'
    OBVIOUS
  <1> USE NamespacesAssumption
  <1>1. ASSUME NEW a \in Accounts, NEW l \in Logins, RenameAtGitHub(a, l) PROVE TypeOK'
    BY <1>1 DEF TypeOK, RenameAtGitHub, spaces
  <1>2. ASSUME NEW h \in SignIns, NEW a \in Accounts, UpsertGitHubUser(h, a) PROVE TypeOK'
    BY <1>2 DEF TypeOK, UpsertGitHubUser, spaces, SignIn
  <1>3. ASSUME NEW h \in SignIns, LookUpPersonalNamespace(h) PROVE TypeOK'
    BY <1>3 DEF TypeOK, LookUpPersonalNamespace, accounts, spaces, SignIn
  <1>4. ASSUME NEW h \in SignIns, NEW id \in NsIds, CreatePersonalNamespace(h, id)
        PROVE  TypeOK'
    <2> DEFINE a == signIns[h].account
    <2>1. a \in Accounts /\ a \in Names /\ a \in Creators
      BY <1>4 DEF TypeOK, CreatePersonalNamespace, SignIn, Names, Creators
    <2>2. role' \in [NsIds -> [Accounts -> Roles \cup {None}]]
      BY <1>4, <2>1 DEF TypeOK, CreatePersonalNamespace, Roles
    <2> QED
      BY <1>4, <2>1, <2>2 DEF TypeOK, CreatePersonalNamespace, Draw, accounts
  <1>5. ASSUME NEW h \in SignIns, EnsurePersonalNamespaceFails(h) PROVE TypeOK'
    BY <1>5 DEF TypeOK, EnsurePersonalNamespaceFails, accounts, spaces
  <1>6. ASSUME NEW n \in Names, NEW id \in NsIds, CreateOrg(n, id) PROVE TypeOK'
    BY <1>6 DEF TypeOK, CreateOrg, Draw, accounts, Creators
  <1>7. ASSUME NEW n \in Names, NEW id \in NsIds, AddName(id, n) PROVE TypeOK'
    BY <1>7 DEF TypeOK, AddName, NamesWith, Demoted, accounts
  <1>8. ASSUME NEW n \in Names, DeleteOrg(n) PROVE TypeOK'
    BY <1>8 DEF TypeOK, DeleteOrg, RolesWithout, accounts
  <1>9. ASSUME NEW n \in Names, NEW a \in Accounts, RemoveOrgMember(n, a) PROVE TypeOK'
    BY <1>9 DEF TypeOK, RemoveOrgMember, accounts
  <1>10. ASSUME NEW n \in Names, NEW a \in Accounts, NEW r \in RoleInputs,
                AddOrgMember(n, a, r) \/ SetOrgMemberRole(n, a, r)
         PROVE  TypeOK'
    BY <1>10 DEF TypeOK, AddOrgMember, SetOrgMemberRole, KnownRole, accounts
  <1>11. ASSUME NEW l \in Logins, DeleteUser(l) PROVE TypeOK'
    BY <1>11 DEF TypeOK, DeleteUser, spaces
  <1>12. CASE UNCHANGED vars
    BY <1>12 DEF TypeOK, vars, accounts, spaces
  <1> QED
    BY <1>1, <1>2, <1>3, <1>4, <1>5, <1>6, <1>7, <1>8, <1>9, <1>10, <1>11, <1>12
    DEF Next, SignInStep, AdminStep

(* TypeOK holds in every state of every behaviour.                         *)
THEOREM TypeCorrect == Spec => []TypeOK
  <1>1. Init => TypeOK
    BY DEF Init, TypeOK
  <1> QED
    BY <1>1, TypeOKStep, PTL DEF Spec

-----------------------------------------------------------------------------
(* An id that exists has been drawn, so a drawn id is always a new one.    *)
DrawnInv == \A id \in NsIds : Exists(id) => id \in drawn

Inv == TypeOK /\ DrawnInv /\ RowsNeedNamespace /\ OnePrimaryName /\ PersonalNamesOwn

(* A namespace made under a fresh id with its first name.                  *)
LEMMA NewNamespace ==
  ASSUME Inv, TypeOK', NEW n \in Names, NEW id \in NsIds, NEW c \in Creators,
         Free(n), Draw(id), n \in Accounts => c = n,
         creator' = [creator EXCEPT ![id] = c],
         names' = [names EXCEPT ![n] = id],
         primary' = primary \cup {n},
         \A i \in NsIds : i # id => role'[i] = role[i]
  PROVE  Inv'
  <1> USE NamespacesAssumption
  <1>1. ~Exists(id) /\ \A m \in Names : names[m] # id
    BY DEF Inv, TypeOK, DrawnInv, RowsNeedNamespace, Draw
  <1>2. /\ \A i \in NsIds : i # id => creator'[i] = creator[i]
        /\ creator'[id] = c /\ c # None
        /\ \A m \in Names : m # n => names'[m] = names[m]
        /\ names'[n] = id
    BY DEF Inv, TypeOK
  <1>3. DrawnInv'
    BY <1>2 DEF Inv, DrawnInv, Exists, Draw
  <1>4. RowsNeedNamespace'
    <2>1. ASSUME NEW m \in Names, names'[m] # None PROVE creator'[names'[m]] # None
      BY <1>2, <2>1 DEF Inv, TypeOK, RowsNeedNamespace, Exists
    <2>2. ASSUME NEW i \in NsIds, i # id, Members(i)' # {} PROVE Exists(i)'
      BY <1>2, <2>2 DEF Inv, RowsNeedNamespace, Exists, Members
    <2> QED
      BY <1>2, <2>1, <2>2 DEF RowsNeedNamespace, Exists
  <1>5. OnePrimaryName'
    <2> SUFFICES ASSUME NEW i \in NsIds, Exists(i)'
                 PROVE  \E m \in primary' : names'[m] = i
                          /\ \A k \in primary' : names'[k] = i => k = m
      BY DEF OnePrimaryName
    <2>1. CASE i = id
      BY <1>1, <1>2, <2>1 DEF Inv, TypeOK
    <2>2. CASE i # id
      <3>1. Exists(i)
        BY <1>2, <2>2 DEF Exists
      <3>2. PICK m \in primary : names[m] = i /\ \A k \in primary : names[k] = i => k = m
        BY <3>1 DEF Inv, OnePrimaryName
      <3> QED
        BY <1>2, <2>2, <3>2 DEF Inv, TypeOK, Free
    <2> QED
      BY <2>1, <2>2
  <1>6. PersonalNamesOwn'
    BY <1>1, <1>2 DEF Inv, TypeOK, PersonalNamesOwn, Names, RowsNeedNamespace
  <1> QED
    BY <1>3, <1>4, <1>5, <1>6 DEF Inv

(* AddName moves the primary mark to the new name and keeps the others.    *)
LEMMA AddNameStep ==
  ASSUME Inv, TypeOK', NEW n \in Names, NEW id \in NsIds, AddName(id, n)
  PROVE  Inv'
  <1> USE NamespacesAssumption
  <1>1. /\ names'[n] = id /\ names[n] = None
        /\ \A m \in Names : m # n => names'[m] = names[m]
        /\ n \in Slugs /\ Exists(id)
    BY DEF Inv, TypeOK, AddName, NamesWith, Free, ValidateName
  <1>2. DrawnInv' /\ RowsNeedNamespace'
    BY <1>1 DEF Inv, DrawnInv, RowsNeedNamespace, AddName, Exists, Members
  <1>3. OnePrimaryName'
    <2> SUFFICES ASSUME NEW i \in NsIds, Exists(i)'
                 PROVE  \E m \in primary' : names'[m] = i
                          /\ \A k \in primary' : names'[k] = i => k = m
      BY DEF OnePrimaryName
    <2>0. primary' = Demoted(id) \cup {n} /\ primary \subseteq Names
      BY DEF AddName, Inv, TypeOK
    <2>1. CASE i = id
      BY <1>1, <2>0, <2>1 DEF Demoted
    <2>2. CASE i # id
      <3>1. PICK m \in primary : names[m] = i /\ \A k \in primary : names[k] = i => k = m
        BY DEF Inv, OnePrimaryName, AddName, Exists
      <3>2. m # n /\ m \in Demoted(id)
        BY <1>1, <2>2, <3>1 DEF Demoted
      <3> QED
        BY <1>1, <2>0, <2>2, <3>1, <3>2 DEF Demoted
    <2> QED
      BY <2>1, <2>2
  <1>4. PersonalNamesOwn'
    BY <1>1 DEF Inv, PersonalNamesOwn, AddName, Names
  <1> QED
    BY <1>2, <1>3, <1>4 DEF Inv

(* DeleteOrg takes the namespace, its names and its memberships together.  *)
LEMMA DeleteOrgStep ==
  ASSUME Inv, TypeOK', NEW n \in Names, DeleteOrg(n)
  PROVE  Inv'
  <1> USE NamespacesAssumption
  <1> DEFINE id == names[n]
  <1>1. /\ id \in NsIds /\ creator'[id] = None
        /\ \A i \in NsIds : i # id => creator'[i] = creator[i] /\ role'[i] = role[i]
        /\ \A a \in Accounts : role'[id][a] = None
        /\ \A m \in Names : names'[m] = IF names[m] = id THEN None ELSE names[m]
        /\ primary' = {m \in primary : names[m] # id} /\ primary \subseteq Names
    BY DEF Inv, TypeOK, DeleteOrg, RolesWithout
  <1> HIDE DEF id
  <1>2. DrawnInv'
    BY <1>1 DEF Inv, DrawnInv, DeleteOrg, Exists
  <1>3. RowsNeedNamespace'
    BY <1>1 DEF Inv, TypeOK, RowsNeedNamespace, Exists, Members
  <1>4. OnePrimaryName'
    <2> SUFFICES ASSUME NEW i \in NsIds, Exists(i)'
                 PROVE  \E m \in primary' : names'[m] = i
                          /\ \A k \in primary' : names'[k] = i => k = m
      BY DEF OnePrimaryName
    <2>1. i # id /\ Exists(i)
      BY <1>1 DEF Exists
    <2>2. PICK m \in primary : names[m] = i /\ \A k \in primary : names[k] = i => k = m
      BY <2>1 DEF Inv, OnePrimaryName
    <2> QED
      BY <1>1, <2>1, <2>2
  <1>5. PersonalNamesOwn'
    BY <1>1 DEF Inv, TypeOK, PersonalNamesOwn, Names
  <1> QED
    BY <1>2, <1>3, <1>4, <1>5 DEF Inv

(* A membership changes only in a namespace that a name leads to.          *)
LEMMA MemberStep ==
  ASSUME Inv, TypeOK', NEW n \in Names, NEW a \in Accounts, NEW r,
         names[n] # None, role' = [role EXCEPT ![names[n]][a] = r],
         UNCHANGED <<creator, names, primary, drawn>>
  PROVE  Inv'
  <1>1. \A i \in NsIds : i # names[n] => role'[i] = role[i]
    BY DEF Inv, TypeOK
  <1>2. RowsNeedNamespace'
    BY <1>1 DEF Inv, RowsNeedNamespace, Exists, Members
  <1>3. (DrawnInv /\ OnePrimaryName /\ PersonalNamesOwn)'
    BY DEF Inv, DrawnInv, OnePrimaryName, PersonalNamesOwn, Exists
  <1> QED
    BY <1>2, <1>3 DEF Inv

(* Every step preserves the invariant.                                     *)
LEMMA InvStep == Inv /\ [Next]_vars => Inv'
  <1> SUFFICES ASSUME Inv, [Next]_vars PROVE Inv'
    OBVIOUS
  <1>0. TypeOK'
    BY TypeOKStep DEF Inv
  <1>1. ASSUME Elsewhere PROVE Inv'
    BY <1>0, <1>1 DEF Elsewhere, spaces, Inv, DrawnInv, RowsNeedNamespace, OnePrimaryName,
                      PersonalNamesOwn, Exists, Members
  <1>2. ASSUME NEW h \in SignIns, NEW id \in NsIds, CreatePersonalNamespace(h, id) PROVE Inv'
    <2> DEFINE a == signIns[h].account
    <2>1. a \in Accounts /\ a \in Names /\ a \in Creators
      BY <1>2 DEF Inv, TypeOK, CreatePersonalNamespace, SignIn, Names, Creators
    <2>2. \A i \in NsIds : i # id => role'[i] = role[i]
      BY <1>2 DEF Inv, TypeOK, CreatePersonalNamespace
    <2> HIDE DEF a
    <2>3. /\ Free(a) /\ Draw(id)
          /\ creator' = [creator EXCEPT ![id] = a]
          /\ names' = [names EXCEPT ![a] = id]
          /\ primary' = primary \cup {a}
      BY <1>2 DEF CreatePersonalNamespace, a
    <2> QED
      BY <1>0, <2>1, <2>2, <2>3, NewNamespace
  <1>3. ASSUME NEW n \in Names, NEW id \in NsIds, CreateOrg(n, id) PROVE Inv'
    <2>1. Administrator \in Creators /\ (n \in Accounts => Administrator = n)
      BY <1>3, NamespacesAssumption DEF CreateOrg, ValidateName, Creators
    <2> QED
      BY <1>0, <1>3, <2>1, NewNamespace DEF CreateOrg
  <1>4. ASSUME NEW n \in Names, NEW a \in Accounts, RemoveOrgMember(n, a) PROVE Inv'
    BY <1>0, <1>4, MemberStep DEF RemoveOrgMember
  <1>5. ASSUME NEW n \in Names, NEW a \in Accounts, NEW r \in RoleInputs,
               AddOrgMember(n, a, r) \/ SetOrgMemberRole(n, a, r)
        PROVE  Inv'
    BY <1>0, <1>5, MemberStep DEF AddOrgMember, SetOrgMemberRole
  <1> QED
    BY <1>0, <1>1, <1>2, <1>3, <1>4, <1>5, AddNameStep, DeleteOrgStep
    DEF Next, SignInStep, AdminStep, Elsewhere, vars, RenameAtGitHub, UpsertGitHubUser,
        LookUpPersonalNamespace, EnsurePersonalNamespaceFails, DeleteUser

(* The invariant holds in every state.                                     *)
LEMMA Invariance == Spec => []Inv
  <1>1. Init => Inv
    BY NamespacesAssumption DEF Init, Inv, TypeOK, DrawnInv, RowsNeedNamespace, OnePrimaryName,
                                PersonalNamesOwn, Exists, Members, Names
  <1> QED
    BY <1>1, InvStep, PTL DEF Spec

(* Names and memberships never outlive their namespace.                    *)
THEOREM RowsHaveNamespaces == Spec => []RowsNeedNamespace
  <1>1. Inv => RowsNeedNamespace
    BY DEF Inv
  <1> QED
    BY <1>1, Invariance, PTL

(* Every namespace has exactly one primary name.                           *)
THEOREM OnePrimary == Spec => []OnePrimaryName
  <1>1. Inv => OnePrimaryName
    BY DEF Inv
  <1> QED
    BY <1>1, Invariance, PTL

(* The name derived from an account only leads to its own namespace.       *)
THEOREM PersonalNamesStayOwn == Spec => []PersonalNamesOwn
  <1>1. Inv => PersonalNamesOwn
    BY DEF Inv
  <1> QED
    BY <1>1, Invariance, PTL

(* A name is repointed by no step; only its namespace's deletion frees it. *)
THEOREM NamesNeverRepoint == Spec => NamesStay
  <1> DEFINE Stays == \A n \in Names, id \in NsIds :
                        names[n] = id /\ Exists(id)' => names'[n] = id
  <1>1. Inv /\ [Next]_vars => [Stays]_vars
    <2> SUFFICES ASSUME Inv, Next, NEW n \in Names, NEW id \in NsIds,
                        names[n] = id, Exists(id)'
                 PROVE  names'[n] = id
      OBVIOUS
    <2> USE NamespacesAssumption
    <2>1. ASSUME NEW m \in Names, Free(m), NEW i, names' = [names EXCEPT ![m] = i]
          PROVE  names'[n] = id
      BY <2>1 DEF Inv, TypeOK, Free
    <2>2. ASSUME NEW m \in Names, DeleteOrg(m) PROVE names'[n] = id
      BY <2>2 DEF Inv, TypeOK, DeleteOrg, Exists
    <2>3. ASSUME NEW h \in SignIns, NEW i \in NsIds, CreatePersonalNamespace(h, i)
          PROVE  names'[n] = id
      <3>1. signIns[h].account \in Names
        BY <2>3 DEF Inv, TypeOK, CreatePersonalNamespace, SignIn, Names
      <3> QED
        BY <2>1, <2>3, <3>1 DEF CreatePersonalNamespace
    <2> QED
      BY <2>1, <2>2, <2>3
      DEF Next, SignInStep, AdminStep, RenameAtGitHub, UpsertGitHubUser, CreateOrg, AddName,
          NamesWith, LookUpPersonalNamespace, EnsurePersonalNamespaceFails, AddOrgMember,
          RemoveOrgMember, SetOrgMemberRole, DeleteUser, spaces
  <1> QED
    BY <1>1, Invariance, PTL DEF Spec, NamesStay

(* No step takes the last owner row of a namespace that goes on existing.  *)
THEOREM LastOwnerStays == Spec => OwnersStay
  <1> DEFINE Stays == \A id \in NsIds : Owners(id) # {} /\ Exists(id)' => Owners(id)' # {}
  <1>1. Inv /\ [Next]_vars => [Stays]_vars
    <2> SUFFICES ASSUME Inv, Next, NEW id \in NsIds, Owners(id) # {}, Exists(id)'
                 PROVE  Owners(id)' # {}
      OBVIOUS
    <2> USE NamespacesAssumption
    <2>0. PICK o \in Accounts : role[id][o] = "owner"
      BY DEF Owners
    <2>1. ASSUME role'[id] = role[id] PROVE Owners(id)' # {}
      BY <2>0, <2>1 DEF Owners
    <2>2. ASSUME NEW h \in SignIns, NEW i \in NsIds, CreatePersonalNamespace(h, i)
          PROVE  Owners(id)' # {}
      <3>1. i # id
        BY <2>0, <2>2 DEF Inv, DrawnInv, RowsNeedNamespace, CreatePersonalNamespace, Draw,
                          Members, Roles
      <3> QED
        BY <2>1, <2>2, <3>1 DEF Inv, TypeOK, CreatePersonalNamespace
    <2>3. ASSUME NEW m \in Names, DeleteOrg(m) PROVE Owners(id)' # {}
      BY <2>1, <2>3 DEF Inv, TypeOK, DeleteOrg, RolesWithout, Exists
    <2>4. ASSUME NEW m \in Names, NEW a \in Accounts, NEW r \in RoleInputs, AddOrgMember(m, a, r)
          PROVE  Owners(id)' # {}
      BY <2>0, <2>4 DEF Inv, TypeOK, AddOrgMember, Owners, Roles
    <2>5. ASSUME NEW m \in Names, NEW a \in Accounts, NEW r, r # "owner",
                 ~WouldStrandNamespace(names[m], a), names[m] # None,
                 role' = [role EXCEPT ![names[m]][a] = r]
          PROVE  Owners(id)' # {}
      <3>1. CASE names[m] # id
        BY <2>1, <2>5, <3>1 DEF Inv, TypeOK
      <3>2. CASE names[m] = id /\ a # o
        BY <2>0, <2>5, <3>2 DEF Inv, TypeOK, Owners
      <3>3. CASE names[m] = id /\ a = o
        <4>1. PICK p \in Accounts : role[id][p] = "owner" /\ p # a
          BY <2>0, <2>5, <3>3 DEF WouldStrandNamespace, Owners
        <4> QED
          BY <2>5, <3>3, <4>1 DEF Inv, TypeOK, Owners
      <3> QED
        BY <3>1, <3>2, <3>3
    <2>6. ASSUME NEW m \in Names, NEW a \in Accounts, RemoveOrgMember(m, a)
          PROVE  Owners(id)' # {}
      BY <2>5, <2>6 DEF RemoveOrgMember, Roles
    <2>7. ASSUME NEW m \in Names, NEW a \in Accounts, NEW r \in RoleInputs,
                 SetOrgMemberRole(m, a, r)
          PROVE  Owners(id)' # {}
      <3>1. CASE r = "owner"
        BY <2>0, <2>7, <3>1 DEF Inv, TypeOK, SetOrgMemberRole, Owners
      <3>2. CASE r = "member"
        BY <2>5, <2>7, <3>2 DEF SetOrgMemberRole
      <3> QED
        BY <2>7, <3>1, <3>2 DEF SetOrgMemberRole, KnownRole, Roles
    <2> QED
      BY <2>1, <2>2, <2>3, <2>4, <2>6, <2>7
      DEF Next, SignInStep, AdminStep, RenameAtGitHub, UpsertGitHubUser, CreateOrg, AddName,
          LookUpPersonalNamespace, EnsurePersonalNamespaceFails, DeleteUser, spaces
  <1> QED
    BY <1>1, Invariance, PTL DEF Spec, OwnersStay
=============================================================================
