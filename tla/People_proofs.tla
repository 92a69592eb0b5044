--------------------------- MODULE People_proofs ----------------------------
(***************************************************************************)
(* Proofs about People, SuperAdmins and SubOrgs, for any tenants, members, *)
(* administrators, sub-organisations and requests, whether or not requests *)
(* stop half way.                                                          *)
(***************************************************************************)
EXTENDS MCPeople, FiniteSetTheorems, TLAPS

(* A person's requests.                                                    *)
PersonSteps == {"create", "add", "place", "find", "unlink", "count", "purge"}
PersonRequests ==
  [op : {"invite", "sso", "member", "remove"}, at : PersonSteps, id : 0..MaxIds,
   tenant : Tenants, user : 0..MaxIds, placing : BOOLEAN]

PeopleTables ==
  /\ PeopleOK
  /\ ident.id <= made.idents
  /\ \A t \in Tenants : users[t] <= made.users

(* What a request has read, and what of it still holds.                    *)
Relies(q, r) ==
  /\ q.at = "add" => q.id # 0
  /\ q.at \in {"place", "find", "unlink"} => q.user # 0 /\ q.user <= made.users
  /\ q.at \in {"unlink", "count", "purge"} => q.id # 0
  /\ q.at = "unlink" /\ users[q.tenant] = q.user => q.id = ident.id
  /\ q.at = "purge" /\ q.id = ident.id => \A t \in Tenants : users[t] # 0 => t \in joined[r]

PeopleInv ==
  /\ req \in [Requests -> {Idle} \cup PersonRequests]
  /\ PeopleTables
  /\ \A r \in Requests : Relies(req[r], r)

LEMMA PeopleBegins ==
  ASSUME HandlersInit, PeopleInit
  PROVE  PeopleInv
  <1>1. req \in [Requests -> {Idle} \cup PersonRequests]
    BY DEF HandlersInit
  <1>2. PeopleTables
    BY PeopleAssumption DEF PeopleInit, PeopleTables, PeopleOK
  <1>3. ASSUME NEW r \in Requests PROVE Relies(req[r], r)
    BY DEF HandlersInit, Relies, Idle
  <1> QED BY <1>1, <1>2, <1>3 DEF PeopleInv

(* Each change of the tables leaves them in order, and what requests rely  *)
(* on as it was.                                                           *)
Keeps ==
  PeopleTables' /\ \A q \in {Idle} \cup PersonRequests, r \in Requests : Relies(q, r) => Relies(q, r)'

LEMMA KeepsAll ==
  ASSUME PeopleTables, UNCHANGED peopleVars
  PROVE  Keeps
  BY DEF peopleVars, PeopleTables, PeopleOK, Keeps, Relies

LEMMA KeepsInsertIdentity ==
  ASSUME PeopleTables, ident.id = 0, made.idents < MaxIds, InsertIdentity, UNCHANGED <<users, joined>>
  PROVE  Keeps /\ ident'.id # 0
  <1> DEFINE n == made.idents  k == made.users
  <1>1. n \in 0..MaxIds /\ k \in 0..MaxIds /\ made = [idents |-> n, users |-> k]
    BY DEF PeopleTables, PeopleOK
  <1>2. made' = [idents |-> n + 1, users |-> k] /\ ident' = [id |-> n + 1, super |-> FALSE]
    BY <1>1 DEF InsertIdentity
  <1>3. n + 1 \in 0..MaxIds /\ n + 1 # 0
    BY <1>1, PeopleAssumption
  <1> HIDE DEF n, k
  <1>4. \A t \in Tenants : users[t] = 0
    BY DEF PeopleTables, PeopleOK
  <1>5. PeopleOK'
    BY <1>1, <1>2, <1>3 DEF PeopleTables, PeopleOK
  <1>6. PeopleTables'
    BY <1>1, <1>2, <1>4, <1>5 DEF PeopleTables
  <1>7. ASSUME NEW q \in {Idle} \cup PersonRequests, NEW r \in Requests, Relies(q, r)
        PROVE  Relies(q, r)'
    <2>1. made'.users = made.users
      BY <1>1, <1>2
    <2>2. q.at = "unlink" => users[q.tenant] # q.user
      BY <1>4, <1>7 DEF Relies, PersonRequests, Idle
    <2> QED BY <1>4, <1>7, <2>1, <2>2 DEF Relies
  <1> QED BY <1>2, <1>3, <1>6, <1>7 DEF Keeps

LEMMA KeepsInsertUser ==
  ASSUME PeopleTables, NEW t \in Tenants, users[t] = 0, ident.id # 0, made.users < MaxIds,
         InsertUser(t), UNCHANGED ident
  PROVE  Keeps /\ users'[t] # 0 /\ users'[t] = made.users + 1
  <1> DEFINE n == made.idents  k == made.users
  <1>1. n \in 0..MaxIds /\ k \in 0..MaxIds /\ made = [idents |-> n, users |-> k]
    BY DEF PeopleTables, PeopleOK
  <1>2. made' = [idents |-> n, users |-> k + 1] /\ users' = [users EXCEPT ![t] = k + 1]
    BY <1>1 DEF InsertUser
  <1>3. k + 1 \in 0..MaxIds /\ k + 1 # 0
    BY <1>1, PeopleAssumption
  <1>4. users \in [Tenants -> 0..MaxIds] /\ joined \in [Requests -> SUBSET Tenants]
    BY DEF PeopleTables, PeopleOK
  <1>5. joined' = [r \in Requests |-> joined[r] \cup {t}]
    BY DEF InsertUser
  <1> HIDE DEF n, k
  <1>6. users' \in [Tenants -> 0..MaxIds] /\ users'[t] = k + 1
        /\ \A s \in Tenants \ {t} : users'[s] = users[s]
    BY <1>2, <1>3, <1>4
  <1>7. PeopleOK'
    BY <1>1, <1>2, <1>3, <1>4, <1>5, <1>6 DEF PeopleTables, PeopleOK
  <1>8. PeopleTables'
    <2>1. ident'.id <= made'.idents
      BY <1>1, <1>2 DEF PeopleTables
    <2>2. ASSUME NEW s \in Tenants PROVE users'[s] <= made'.users
      BY <1>1, <1>2, <1>4, <1>6 DEF PeopleTables
    <2> QED BY <1>7, <2>1, <2>2 DEF PeopleTables
  <1>9. ASSUME NEW q \in {Idle} \cup PersonRequests, NEW r \in Requests, Relies(q, r)
        PROVE  Relies(q, r)'
    <2>1. q.at \in {"place", "find", "unlink"} => q \in PersonRequests
      BY DEF Idle
    <2>2. made.users = k /\ made'.users = k + 1
      BY <1>1, <1>2
    <2>3. q.at \in {"place", "find", "unlink"} => q.user # 0 /\ q.user <= made'.users
      BY <1>1, <1>9, <2>1, <2>2 DEF Relies, PersonRequests
    <2>4. q.at = "unlink" /\ users'[q.tenant] = q.user => q.id = ident'.id
      BY <1>1, <1>6, <1>9, <2>1, <2>2 DEF Relies, PersonRequests
    <2>5. q.at = "purge" /\ q.id = ident'.id => \A s \in Tenants : users'[s] # 0 => s \in joined'[r]
      BY <1>5, <1>6, <1>9 DEF Relies
    <2> QED BY <1>9, <2>3, <2>4, <2>5 DEF Relies
  <1> QED BY <1>1, <1>3, <1>6, <1>8, <1>9 DEF Keeps

LEMMA KeepsClear ==
  ASSUME PeopleTables, UNCHANGED <<made, joined>>,
         \/ /\ ident' = ident
            /\ \E t \in Tenants : users' = [users EXCEPT ![t] = 0]
         \/ /\ ident' = [id |-> 0, super |-> FALSE]
            /\ users' = [t \in Tenants |-> 0]
  PROVE  Keeps
  <1>1. PeopleOK
    BY DEF PeopleTables
  <1>2. /\ users' \in [Tenants -> 0..MaxIds]
        /\ \A t \in Tenants : users'[t] = users[t] \/ users'[t] = 0
    BY <1>1, PeopleAssumption DEF PeopleOK
  <1>3. ident' = ident \/ (ident'.id = 0 /\ users' = [t \in Tenants |-> 0])
    OBVIOUS
  <1>4. 0 \in 0..MaxIds
    BY PeopleAssumption
  <1>5. ident' \in [id : 0..MaxIds, super : BOOLEAN]
    <2>1. CASE ident' = ident
      BY <1>1, <2>1 DEF PeopleOK
    <2>2. CASE ident' = [id |-> 0, super |-> FALSE]
      BY <1>4, <2>2
    <2> QED BY <2>1, <2>2
  <1>6. PeopleOK'
    BY <1>1, <1>2, <1>3, <1>5 DEF PeopleOK
  <1>7. PeopleTables'
    BY <1>1, <1>2, <1>3, <1>6 DEF PeopleTables, PeopleOK
  <1>8. ASSUME NEW q \in {Idle} \cup PersonRequests, NEW r \in Requests, Relies(q, r)
        PROVE  Relies(q, r)'
    <2>1. q.at \in {"place", "find", "unlink", "count", "purge"} => q \in PersonRequests
      BY DEF Idle
    <2>2. q.at = "unlink" /\ users'[q.tenant] = q.user => q.id = ident'.id
      BY <1>2, <1>3, <1>8, <2>1 DEF Relies, PersonRequests
    <2>3. q.at = "purge" /\ q.id = ident'.id => \A s \in Tenants : users'[s] # 0 => s \in joined[r]
      BY <1>2, <1>3, <1>8 DEF Relies
    <2> QED BY <1>8, <2>2, <2>3 DEF Relies
  <1> QED BY <1>7, <1>8 DEF Keeps

LEMMA KeepsFlag ==
  ASSUME PeopleTables, ident' = [ident EXCEPT !.super = ~@], UNCHANGED <<users, made, joined>>
  PROVE  Keeps
  <1>1. ident'.id = ident.id /\ ident' \in [id : 0..MaxIds, super : BOOLEAN]
    BY DEF PeopleTables, PeopleOK
  <1> QED BY <1>1 DEF PeopleTables, PeopleOK, Keeps, Relies

LEMMA PersonMoves ==
  ASSUME PeopleInv, NEW r \in Requests, NEW q \in {Idle} \cup PersonRequests,
         req' = [req EXCEPT ![r] = q], PeopleTables', Relies(q, r)',
         \A p \in {Idle} \cup PersonRequests, x \in Requests \ {r} : Relies(p, x) => Relies(p, x)'
  PROVE  PeopleInv'
  <1>1. /\ req' \in [Requests -> {Idle} \cup PersonRequests]
        /\ req'[r] = q /\ \A x \in Requests \ {r} : req'[x] = req[x]
    BY DEF PeopleInv
  <1>2. ASSUME NEW x \in Requests PROVE Relies(req[x], x)'
    <2>1. CASE x = r
      BY <1>1, <2>1 DEF Relies
    <2>2. CASE x # r
      <3>1. PICK p \in {Idle} \cup PersonRequests : p = req[x]
        BY DEF PeopleInv
      <3>2. Relies(p, x) /\ p = req'[x]
        BY <1>1, <2>2, <3>1 DEF PeopleInv
      <3>3. Relies(p, x)'
        BY <2>2, <3>2
      <3> QED BY <3>2, <3>3 DEF Relies
    <2> QED BY <2>1, <2>2
  <1> QED BY <1>1, <1>2 DEF PeopleInv

LEMMA PersonIdle == \A r \in Requests : Relies(Idle, r) /\ Relies(Idle, r)'
  BY DEF Relies, Idle

LEMMA PersonEnds ==
  ASSUME PeopleInv, NEW r \in Requests, Done(r), Keeps
  PROVE  PeopleInv'
  <1>1. PICK q \in {Idle} \cup PersonRequests : q = Idle
    OBVIOUS
  <1>2. req' = [req EXCEPT ![r] = q]
    BY <1>1 DEF Done
  <1>3. Relies(q, r)'
    BY <1>1, PersonIdle
  <1> QED BY <1>2, <1>3, PersonMoves DEF Keeps

(* A request goes on to a step that relies on what it has just read.       *)
LEMMA PersonGoes ==
  ASSUME PeopleInv, NEW r \in Requests, Keeps,
         NEW p \in PersonRequests, req' = [req EXCEPT ![r] = p], p.at # "purge",
         p.at = "add" => p.id # 0,
         p.at \in {"place", "find", "unlink"} => p.user # 0 /\ p.user <= made'.users,
         p.at \in {"unlink", "count"} => p.id # 0,
         p.at = "unlink" => p.id = ident'.id
  PROVE  PeopleInv'
  <1>1. Relies(p, r)'
    BY DEF Relies
  <1> QED BY <1>1, PersonMoves DEF Keeps

LEMMA PersonStarts ==
  ASSUME PeopleInv, UNCHANGED peopleVars, NEW r \in Requests, NEW p \in PersonRequests,
         Begin(r, p), p.at \in {"create", "add", "find"},
         p.at = "add" => p.id # 0, p.at = "find" => p.user # 0 /\ p.user <= made.users
  PROVE  PeopleInv'
  <1>1. Keeps
    BY KeepsAll DEF PeopleInv
  <1>2. Relies(p, r)'
    BY DEF Relies, peopleVars
  <1> QED BY <1>1, <1>2, PersonMoves DEF Keeps, Begin

LEMMA InviteStep ==
  ASSUME PeopleInv, NEW r \in Requests, NEW t \in Tenants, NEW placing \in BOOLEAN,
         Invite(r, t, placing) \/ CompleteSSO(r, t) \/ AdminAddIdentityToTenant(r, t)
           \/ TenantRemoveMember(r, t)
  PROVE  PeopleInv'
  <1>1. ident.id \in 0..MaxIds /\ users[t] \in 0..MaxIds /\ users[t] <= made.users /\ 0 \in 0..MaxIds
    BY PeopleAssumption DEF PeopleInv, PeopleTables, PeopleOK
  <1>2. PICK id \in 0..MaxIds, user \in 0..MaxIds, op \in {"invite", "sso", "member", "remove"},
             at \in {"create", "add", "find"}, pl \in BOOLEAN :
          /\ Begin(r, [op |-> op, at |-> at, id |-> id, tenant |-> t, user |-> user, placing |-> pl])
          /\ at = "add" => id # 0
          /\ at = "find" => user # 0 /\ user <= made.users
    <2>1. CASE Invite(r, t, placing)
      <3>1. CASE ident.id = 0
        BY <1>1, <2>1, <3>1 DEF Invite
      <3>2. CASE ident.id # 0
        BY <1>1, <2>1, <3>2 DEF Invite
      <3> QED BY <3>1, <3>2
    <2>2. CASE CompleteSSO(r, t)
      BY <1>1, <2>2 DEF CompleteSSO
    <2>3. CASE AdminAddIdentityToTenant(r, t)
      BY <1>1, <2>3 DEF AdminAddIdentityToTenant
    <2>4. CASE TenantRemoveMember(r, t)
      BY <1>1, <2>4 DEF TenantRemoveMember
    <2> QED BY <2>1, <2>2, <2>3, <2>4
  <1> DEFINE p == [op |-> op, at |-> at, id |-> id, tenant |-> t, user |-> user, placing |-> pl]
  <1>3. p \in PersonRequests /\ p.at = at /\ p.id = id /\ p.user = user
    BY DEF PersonRequests, PersonSteps
  <1>4. UNCHANGED peopleVars
    BY DEF Invite, CompleteSSO, AdminAddIdentityToTenant, TenantRemoveMember
  <1>5. Begin(r, p)
    BY <1>2
  <1> HIDE DEF p
  <1> QED BY <1>2, <1>3, <1>4, <1>5, PersonStarts

LEMMA PersonShape ==
  ASSUME PeopleInv, NEW r \in Requests, req[r].at \in PersonSteps
  PROVE  req[r] \in PersonRequests
  BY DEF PeopleInv, PersonSteps, Idle

LEMMA PersonRelies ==
  ASSUME PeopleInv, NEW r \in Requests
  PROVE  PeopleTables /\ Relies(req[r], r)
  BY DEF PeopleInv

LEMMA CreateIdentityStep ==
  ASSUME PeopleInv, NEW r \in Requests, CreateIdentity(r)
  PROVE  PeopleInv'
  <1>1. CASE ident.id # 0
    BY <1>1, KeepsAll, PersonEnds DEF CreateIdentity, PeopleInv, peopleVars
  <1>2. CASE ident.id = 0
    <2>1. /\ InsertIdentity /\ made.idents < MaxIds /\ UNCHANGED <<users, joined>>
          /\ req' = [req EXCEPT ![r].at = "add", ![r].id = made.idents + 1]
      BY <1>2 DEF CreateIdentity
    <2>2. Keeps
      BY <1>2, <2>1, KeepsInsertIdentity DEF PeopleInv
    <2>3. req[r] \in PersonRequests
      BY PersonShape DEF CreateIdentity, PersonSteps
    <2>4. made.idents + 1 \in 0..MaxIds /\ made.idents + 1 # 0
      BY <2>1, PeopleAssumption DEF PeopleInv, PeopleTables, PeopleOK
    <2> DEFINE p == [req[r] EXCEPT !.at = "add", !.id = made.idents + 1]
    <2>5. p \in PersonRequests /\ p.at = "add" /\ p.id # 0
      BY <2>3, <2>4 DEF PersonRequests, PersonSteps
    <2>6. req' = [req EXCEPT ![r] = p]
      BY <2>1
    <2> HIDE DEF p
    <2> QED BY <2>2, <2>5, <2>6, PersonGoes
  <1> QED BY <1>1, <1>2

LEMMA AddIdentityStep ==
  ASSUME PeopleInv, NEW r \in Requests, AddIdentityToTenant(r)
  PROVE  PeopleInv'
  <1>1. CASE ~MayInsertUser(req[r].id, req[r].tenant)
    BY <1>1, KeepsAll, PersonEnds DEF AddIdentityToTenant, PeopleInv, peopleVars
  <1>2. CASE MayInsertUser(req[r].id, req[r].tenant)
    <2>1. req[r] \in PersonRequests /\ req[r].id # 0
      BY PersonShape, PersonRelies DEF AddIdentityToTenant, PersonSteps, Relies
    <2>2. PICK t \in Tenants : t = req[r].tenant
      BY <2>1 DEF PersonRequests
    <2>3. /\ users[t] = 0 /\ ident.id # 0 /\ made.users < MaxIds
          /\ InsertUser(t) /\ UNCHANGED ident
      BY <1>2, <2>1, <2>2 DEF AddIdentityToTenant, MayInsertUser
    <2>4. Keeps
      BY <2>3, KeepsInsertUser DEF PeopleInv
    <2>5. PICK user \in 0..MaxIds : user = made.users + 1 /\ user # 0
      BY <2>3, PeopleAssumption DEF PeopleInv, PeopleTables, PeopleOK
    <2>6. CASE req[r].placing
      <3>1. user <= made'.users
        BY <2>3, <2>5 DEF InsertUser, PeopleInv, PeopleTables, PeopleOK
      <3> DEFINE p == [req[r] EXCEPT !.at = "place", !.user = user]
      <3>2. p \in PersonRequests /\ p.at = "place" /\ p.user = user
        BY <2>1 DEF PersonRequests, PersonSteps
      <3>3. req' = [req EXCEPT ![r] = p]
        BY <1>2, <2>5, <2>6 DEF AddIdentityToTenant
      <3> HIDE DEF p
      <3> QED BY <2>4, <2>5, <3>1, <3>2, <3>3, PersonGoes
    <2>7. CASE ~req[r].placing
      BY <1>2, <2>4, <2>7, PersonEnds DEF AddIdentityToTenant
    <2> QED BY <2>6, <2>7
  <1> QED BY <1>1, <1>2

LEMMA PlaceMemberStep ==
  ASSUME PeopleInv, NEW r \in Requests, PlaceMember(r)
  PROVE  PeopleInv'
  <1>1. Keeps /\ made' = made
    BY KeepsAll DEF PlaceMember, PeopleInv, peopleVars
  <1>2. CASE Done(r)
    BY <1>1, <1>2, PersonEnds
  <1>3. CASE GoTo(r, "find")
    <2>1. req[r] \in PersonRequests /\ req[r].user # 0 /\ req[r].user <= made.users
      BY PersonShape, PersonRelies DEF PlaceMember, At, PersonSteps, Relies
    <2> DEFINE p == [req[r] EXCEPT !.at = "find"]
    <2>2. p \in PersonRequests /\ p.at = "find" /\ p.user = req[r].user
      BY <2>1 DEF PersonRequests, PersonSteps
    <2>3. req' = [req EXCEPT ![r] = p]
      BY <1>3 DEF GoTo
    <2> HIDE DEF p
    <2> QED BY <1>1, <2>1, <2>2, <2>3, PersonGoes
  <1> QED BY <1>2, <1>3 DEF PlaceMember

LEMMA FindIdentityStep ==
  ASSUME PeopleInv, NEW r \in Requests, FindIdentity(r)
  PROVE  PeopleInv'
  <1>1. Keeps /\ made' = made /\ ident' = ident
    BY KeepsAll DEF FindIdentity, PeopleInv, peopleVars
  <1>2. CASE ~Present(r)
    BY <1>1, <1>2, PersonEnds DEF FindIdentity
  <1>3. CASE Present(r)
    <2>1. req[r] \in PersonRequests /\ req[r].user # 0 /\ req[r].user <= made.users
      BY PersonShape, PersonRelies DEF FindIdentity, PersonSteps, Relies
    <2>2. ident.id # 0 /\ ident.id \in 0..MaxIds
      BY <1>3, <2>1, PersonRelies DEF Present, PeopleTables, PeopleOK, PersonRequests
    <2> DEFINE p == [req[r] EXCEPT !.at = "unlink", !.id = ident.id]
    <2>3. /\ p \in PersonRequests /\ p.at = "unlink"
          /\ p.id = ident.id /\ p.user = req[r].user
      BY <2>1, <2>2 DEF PersonRequests, PersonSteps
    <2>4. req' = [req EXCEPT ![r] = p]
      BY <1>3 DEF FindIdentity
    <2> HIDE DEF p
    <2> QED BY <1>1, <2>1, <2>2, <2>3, <2>4, PersonGoes
  <1> QED BY <1>2, <1>3

LEMMA UnlinkStep ==
  ASSUME PeopleInv, NEW r \in Requests, Unlink(r)
  PROVE  PeopleInv'
  <1>1. CASE ~Present(r)
    BY <1>1, KeepsAll, PersonEnds DEF Unlink, PeopleInv, peopleVars
  <1>2. CASE Present(r)
    <2>1. req[r] \in PersonRequests /\ req[r].id # 0
      BY PersonShape, PersonRelies DEF Unlink, PersonSteps, Relies
    <2>2. Keeps
      <3>1. \E t \in Tenants : users' = [users EXCEPT ![t] = 0]
        BY <1>2, <2>1 DEF Unlink, PersonRequests
      <3> QED BY <3>1, KeepsClear DEF Unlink, PeopleInv
    <2> DEFINE p == [req[r] EXCEPT !.at = "count"]
    <2>3. p \in PersonRequests /\ p.at = "count" /\ p.id # 0
      BY <2>1 DEF PersonRequests, PersonSteps
    <2>4. req' = [req EXCEPT ![r] = p]
      BY <1>2 DEF Unlink, GoTo
    <2> HIDE DEF p
    <2> QED BY <2>2, <2>3, <2>4, PersonGoes
  <1> QED BY <1>1, <1>2

LEMMA CountRemainingStep ==
  ASSUME PeopleInv, NEW r \in Requests, CountRemaining(r)
  PROVE  PeopleInv'
  <1>1. PeopleTables /\ joined' = [joined EXCEPT ![r] = {}] /\ UNCHANGED <<ident, users, made>>
    BY DEF CountRemaining, PeopleInv
  <1>2. PeopleTables'
    BY <1>1 DEF PeopleTables, PeopleOK
  <1>3. \A p \in {Idle} \cup PersonRequests, x \in Requests \ {r} : Relies(p, x) => Relies(p, x)'
    BY <1>1 DEF Relies, PeopleTables, PeopleOK
  <1>4. req[r] \in PersonRequests /\ req[r].id # 0
    BY PersonShape, PersonRelies DEF CountRemaining, PersonSteps, Relies
  <1>5. CASE Done(r)
    <2>1. PICK q \in {Idle} \cup PersonRequests : q = Idle
      OBVIOUS
    <2> QED BY <1>2, <1>3, <1>5, <2>1, PersonIdle, PersonMoves DEF Done
  <1>6. CASE GoTo(r, "purge") /\ Orphaned
    <2> DEFINE p == [req[r] EXCEPT !.at = "purge"]
    <2>1. p \in PersonRequests /\ p.at = "purge" /\ p.id # 0
      BY <1>4 DEF PersonRequests, PersonSteps
    <2>2. req' = [req EXCEPT ![r] = p]
      BY <1>6 DEF GoTo
    <2> HIDE DEF p
    <2>3. PICK q \in {Idle} \cup PersonRequests : q = p
      BY <2>1
    <2>4. Relies(q, r)'
      BY <1>1, <1>6, <2>1, <2>3 DEF Relies, Orphaned
    <2> QED BY <1>2, <1>3, <2>2, <2>3, <2>4, PersonMoves
  <1> QED BY <1>5, <1>6 DEF CountRemaining

LEMMA PersonOtherStep ==
  ASSUME PeopleInv,
         \/ \E r \in Requests : PurgeIdentity(r)
         \/ \E r \in Requests : Abandon(r) /\ UNCHANGED peopleVars
         \/ AdminCreateIdentity \/ SetPersonSuperAdmin \/ AdminDeleteIdentity
         \/ UNCHANGED <<mix, req, peopleVars>>
  PROVE  PeopleInv'
  <1>1. PeopleTables
    BY DEF PeopleInv
  <1>2. ASSUME UNCHANGED req, Keeps PROVE PeopleInv'
    <2>1. ASSUME NEW x \in Requests PROVE Relies(req[x], x)'
      <3>1. PICK p \in {Idle} \cup PersonRequests : p = req[x]
        BY DEF PeopleInv
      <3>2. Relies(p, x)'
        BY <1>2, <3>1 DEF PeopleInv, Keeps
      <3> QED BY <1>2, <3>1, <3>2 DEF Relies
    <2> QED BY <1>2, <2>1 DEF PeopleInv, Keeps
  <1>3. ASSUME NEW r \in Requests, PurgeIdentity(r) PROVE PeopleInv'
    <2>1. Keeps
      BY <1>1, <1>3, KeepsAll, KeepsClear DEF PurgeIdentity, DeleteIdentity, peopleVars
    <2> QED BY <1>3, <2>1, PersonEnds DEF PurgeIdentity
  <1>4. ASSUME NEW r \in Requests, Abandon(r) /\ UNCHANGED peopleVars PROVE PeopleInv'
    BY <1>1, <1>4, KeepsAll, PersonEnds DEF Abandon
  <1>5. CASE AdminCreateIdentity
    BY <1>1, <1>2, <1>5, KeepsInsertIdentity DEF AdminCreateIdentity
  <1>6. CASE SetPersonSuperAdmin
    BY <1>1, <1>2, <1>6, KeepsFlag DEF SetPersonSuperAdmin
  <1>7. CASE AdminDeleteIdentity
    BY <1>1, <1>2, <1>7, KeepsClear DEF AdminDeleteIdentity, DeleteIdentity
  <1>8. CASE UNCHANGED <<mix, req, peopleVars>>
    BY <1>1, <1>2, <1>8, KeepsAll
  <1> QED BY <1>3, <1>4, <1>5, <1>6, <1>7, <1>8

LEMMA PeopleStays ==
  ASSUME PeopleInv, [PeopleNext]_<<mix, req, peopleVars>>
  PROVE  PeopleInv'
  BY InviteStep, CreateIdentityStep, AddIdentityStep, PlaceMemberStep, FindIdentityStep,
     UnlinkStep, CountRemainingStep, PersonOtherStep DEF PeopleNext

(* A step of a request that changes the request, and how.                  *)
LEMMA PersonMoved ==
  ASSUME PeopleInv, NEW r \in Requests, req[r].at \in PersonSteps,
         \/ Done(r)
         \/ \E s \in PersonSteps \ {req[r].at} : GoTo(r, s)
  PROVE  Moves(r) /\ (Done(r) => req'[r] = Idle)
  <1>1. req[r] \in PersonRequests /\ req[r] # Idle /\ Idle.at \notin PersonSteps
    BY PersonShape DEF PersonSteps, Idle
  <1>2. req'[r].at # req[r].at /\ (Done(r) => req'[r] = Idle)
    BY <1>1 DEF PeopleInv, Done, GoTo, PersonRequests
  <1> QED BY <1>1, <1>2 DEF Moves

(* A membership ends by its own removal, with the identity a super admin   *)
(* deletes, or with an identity that a removal found orphaned before the   *)
(* membership was added (auth/store.go:559).                               *)
THEOREM MembersStay == PeopleSpec => MembershipLostOnlyBy
  <1>1. ASSUME PeopleInv, [PeopleNext]_<<mix, req, peopleVars>>
        PROVE  [\A t \in Tenants :
                  users[t] # 0 /\ users'[t] # users[t] =>
                    \/ "erase" \in mix /\ UNCHANGED req
                    \/ \E r \in Requests :
                         /\ Moves(r)
                         /\ \/ req[r].at = "unlink" /\ req[r].tenant = t
                            \/ req[r].at = "purge" /\ t \in joined[r]]_<<mix, req, peopleVars>>
    <2>1. SUFFICES ASSUME NEW t \in Tenants, users[t] # 0, users'[t] # users[t]
                   PROVE  \/ "erase" \in mix /\ UNCHANGED req
                          \/ \E r \in Requests :
                               /\ Moves(r)
                               /\ \/ req[r].at = "unlink" /\ req[r].tenant = t
                                  \/ req[r].at = "purge" /\ t \in joined[r]
      OBVIOUS
    <2>2. PeopleOK
      BY <1>1 DEF PeopleInv, PeopleTables
    <2>3. ASSUME NEW r \in Requests, AddIdentityToTenant(r)
          PROVE  FALSE
      BY <2>1, <2>2, <2>3 DEF AddIdentityToTenant, InsertUser, MayInsertUser, PeopleOK
    <2>4. ASSUME NEW r \in Requests, Unlink(r)
          PROVE  Moves(r) /\ req[r].at = "unlink" /\ req[r].tenant = t
      <3>1. Present(r) /\ req[r].tenant = t
        BY <2>1, <2>2, <2>4 DEF Unlink, PeopleOK
      <3> QED BY <1>1, <2>4, <3>1, PersonMoved DEF Unlink, PersonSteps
    <2>5. ASSUME NEW r \in Requests, PurgeIdentity(r)
          PROVE  Moves(r) /\ req[r].at = "purge" /\ t \in joined[r]
      <3>1. req[r].at = "purge" /\ req[r].id = ident.id /\ Done(r)
        BY <2>1, <2>5 DEF PurgeIdentity, DeleteIdentity
      <3>2. t \in joined[r]
        BY <1>1, <2>1, <3>1, PersonRelies DEF Relies
      <3> QED BY <1>1, <3>1, <3>2, PersonMoved DEF PersonSteps
    <2>6. CASE AdminDeleteIdentity
      BY <2>6 DEF AdminDeleteIdentity
    <2> QED BY <1>1, <2>1, <2>3, <2>4, <2>5, <2>6
            DEF PeopleNext, Invite, CompleteSSO, AdminAddIdentityToTenant, TenantRemoveMember,
                CreateIdentity, PlaceMember, FindIdentity, CountRemaining, Abandon,
                AdminCreateIdentity, SetPersonSuperAdmin, peopleVars
  <1>2. HandlersInit /\ PeopleInit => PeopleInv
    BY PeopleBegins
  <1>3. PeopleInv /\ [PeopleNext]_<<mix, req, peopleVars>> => PeopleInv'
    BY PeopleStays
  <1> QED BY <1>1, <1>2, <1>3, PTL DEF PeopleSpec, MembershipLostOnlyBy

(* No removal and no invitation that goes through leaves an identity that  *)
(* belongs to no tenant (auth/store.go:520).                               *)
THEOREM NoPhantomLeft == PeopleSpec => PhantomLeftOnlyBy
  <1>1. ASSUME PeopleInv, [PeopleNext]_<<mix, req, peopleVars>>
        PROVE  [~Phantom /\ Phantom' =>
                  \/ mix \cap {"create", "flag"} # {} /\ UNCHANGED req
                  \/ \E r \in Requests : /\ Moves(r) /\ req'[r] = Idle
                                         /\ UNCHANGED <<ident, users>>]_<<mix, req, peopleVars>>
    <2>1. SUFFICES ASSUME ~Phantom, Phantom', PeopleNext
                   PROVE  \/ mix \cap {"create", "flag"} # {} /\ UNCHANGED req
                          \/ \E r \in Requests : /\ Moves(r) /\ req'[r] = Idle
                                                 /\ UNCHANGED <<ident, users>>
      BY <1>1 DEF Phantom, peopleVars
    <2>2. PeopleOK /\ req \in [Requests -> {Idle} \cup PersonRequests]
      BY <1>1 DEF PeopleInv, PeopleTables
    (* An identity and its memberships as they were, and a request more or *)
    (* further on.                                                         *)
    <2>3. ASSUME NEW r \in Requests, UNCHANGED <<ident, users>>,
                 \A x \in Requests \ {r} : req'[x] = req[x],
                 req[r] # Idle => req'[r] # Idle /\ (req'[r].id = req[r].id \/ req'[r].id = ident.id)
          PROVE  FALSE
      <3>1. \A x \in Requests : req[x] # Idle => req[x].id # ident.id
        BY <2>1, <2>3 DEF Phantom
      <3> QED BY <2>1, <2>3, <3>1 DEF Phantom
    <2>4. ASSUME NEW r \in Requests, NEW p, Begin(r, p), UNCHANGED peopleVars
          PROVE  FALSE
      BY <2>2, <2>3, <2>4 DEF Begin, peopleVars
    <2>5. ASSUME NEW r \in Requests, req[r].at \in PersonSteps,
                 UNCHANGED <<ident, users>>, Done(r)
          PROVE  \E x \in Requests : /\ Moves(x) /\ req'[x] = Idle
                                     /\ UNCHANGED <<ident, users>>
      BY <1>1, <2>5, PersonMoved
    <2>6. ASSUME NEW r \in Requests, NEW s, req[r] \in PersonRequests,
                 req' = [req EXCEPT ![r] = [@ EXCEPT !.at = s]], s \in PersonSteps
          PROVE  /\ req'[r] # Idle /\ req'[r].id = req[r].id
                 /\ \A x \in Requests \ {r} : req'[x] = req[x]
      BY <2>2, <2>6 DEF PersonRequests, PersonSteps, Idle
    <2>7. ASSUME NEW r \in Requests, CreateIdentity(r), ident.id = 0
          PROVE  FALSE
      <3>1. req[r] \in PersonRequests
        BY <1>1, <2>7, PersonShape DEF CreateIdentity, PersonSteps
      <3>2. ident'.id = made.idents + 1 /\ req'[r].id = made.idents + 1 /\ req'[r].at = "add"
        BY <2>2, <2>7, <3>1 DEF CreateIdentity, InsertIdentity, PersonRequests
      <3> QED BY <2>1, <3>2 DEF Phantom, Idle
    <2>8. ASSUME NEW r \in Requests, AddIdentityToTenant(r)
          PROVE  Done(r) /\ UNCHANGED <<ident, users>>
      <3>1. CASE MayInsertUser(req[r].id, req[r].tenant)
        <4>1. req[r] \in PersonRequests /\ req[r].id # 0
          BY <1>1, <2>8, PersonShape, PersonRelies DEF AddIdentityToTenant, PersonSteps, Relies
        <4>2. PICK t \in Tenants : t = req[r].tenant
          BY <4>1 DEF PersonRequests
        <4>3. users'[t] = made.users + 1 /\ made.users \in Nat
          BY <2>2, <2>8, <3>1, <4>2 DEF AddIdentityToTenant, InsertUser, PeopleOK
        <4> QED BY <2>1, <4>3 DEF Phantom
      <3>2. CASE ~MayInsertUser(req[r].id, req[r].tenant)
        BY <2>8, <3>2 DEF AddIdentityToTenant
      <3> QED BY <3>1, <3>2
    <2>9. ASSUME NEW r \in Requests, PlaceMember(r)
          PROVE  Done(r) /\ UNCHANGED <<ident, users>>
      <3>1. req[r] \in PersonRequests
        BY <1>1, <2>9, PersonShape DEF PlaceMember, At, PersonSteps
      <3> QED BY <2>3, <2>6, <2>9, <3>1 DEF PlaceMember, GoTo, PersonSteps, peopleVars
    <2>10. ASSUME NEW r \in Requests, FindIdentity(r)
           PROVE  Done(r) /\ UNCHANGED <<ident, users>>
      <3>1. CASE Present(r)
        <4>1. req[r] \in PersonRequests
          BY <1>1, <2>10, PersonShape DEF FindIdentity, PersonSteps
        <4>2. /\ req'[r].at = "unlink" /\ req'[r].id = ident.id
              /\ \A x \in Requests \ {r} : req'[x] = req[x]
          BY <2>2, <2>10, <3>1, <4>1 DEF FindIdentity, PersonRequests
        <4> QED BY <2>3, <2>10, <4>2 DEF FindIdentity, peopleVars, Idle
      <3>2. CASE ~Present(r)
        BY <2>10, <3>2 DEF FindIdentity, peopleVars
      <3> QED BY <3>1, <3>2
    <2>11. ASSUME NEW r \in Requests, Unlink(r)
           PROVE  Done(r) /\ UNCHANGED <<ident, users>>
      <3>1. CASE Present(r)
        <4>1. req[r] \in PersonRequests /\ req[r].id = ident.id
          BY <1>1, <2>11, <3>1, PersonShape, PersonRelies DEF Unlink, PersonSteps, Relies, Present
        <4>2. req'[r] # Idle /\ req'[r].id = ident.id /\ ident' = ident
          BY <2>6, <2>11, <3>1, <4>1 DEF Unlink, GoTo, PersonSteps
        <4> QED BY <2>1, <4>2 DEF Phantom
      <3>2. CASE ~Present(r)
        BY <2>11, <3>2 DEF Unlink
      <3> QED BY <3>1, <3>2
    <2>12. ASSUME NEW r \in Requests, CountRemaining(r)
           PROVE  Done(r) /\ UNCHANGED <<ident, users>>
      <3>1. req[r] \in PersonRequests
        BY <1>1, <2>12, PersonShape DEF CountRemaining, PersonSteps
      <3> QED BY <2>3, <2>6, <2>12, <3>1 DEF CountRemaining, GoTo, PersonSteps
    <2>13. ASSUME NEW r \in Requests, PurgeIdentity(r)
           PROVE  Done(r) /\ UNCHANGED <<ident, users>>
      BY <2>1, <2>13 DEF PurgeIdentity, DeleteIdentity, Phantom
    <2>14. ASSUME NEW r \in Requests, Abandon(r), UNCHANGED peopleVars
           PROVE  \E x \in Requests : /\ Moves(x) /\ req'[x] = Idle
                                      /\ UNCHANGED <<ident, users>>
      BY <2>2, <2>14 DEF Abandon, Done, Moves, peopleVars
    <2>15. CASE AdminCreateIdentity \/ SetPersonSuperAdmin
      BY <2>15 DEF AdminCreateIdentity, SetPersonSuperAdmin
    <2>16. CASE AdminDeleteIdentity
      BY <2>1, <2>16 DEF AdminDeleteIdentity, DeleteIdentity, Phantom
    <2>17. ASSUME NEW r \in Requests, NEW t \in Tenants,
                  \/ \E placing \in BOOLEAN : Invite(r, t, placing)
                  \/ CompleteSSO(r, t) \/ AdminAddIdentityToTenant(r, t)
                  \/ TenantRemoveMember(r, t)
           PROVE  FALSE
      BY <2>4, <2>17 DEF Invite, CompleteSSO, AdminAddIdentityToTenant, TenantRemoveMember
    <2>18. ASSUME NEW r \in Requests, CreateIdentity(r)
           PROVE  Done(r) /\ UNCHANGED <<ident, users>>
      BY <2>7, <2>18 DEF CreateIdentity
    <2> QED BY <2>1, <2>5, <2>8, <2>9, <2>10, <2>11, <2>12, <2>13, <2>14, <2>15, <2>16, <2>17,
               <2>18
            DEF PeopleNext, CreateIdentity, AddIdentityToTenant, PlaceMember, At, FindIdentity,
                Unlink, CountRemaining, PurgeIdentity, PersonSteps
  <1>2. HandlersInit /\ PeopleInit => PeopleInv
    BY PeopleBegins
  <1>3. PeopleInv /\ [PeopleNext]_<<mix, req, peopleVars>> => PeopleInv'
    BY PeopleStays
  <1> QED BY <1>1, <1>2, <1>3, PTL DEF PeopleSpec, PhantomLeftOnlyBy

-----------------------------------------------------------------------------
(* The super admins: their requests.                                       *)
Flags == [op : {"flag"}, at : {"set"}, admin : Admins, flag : BOOLEAN]
Removals == [op : {"suspend", "delete"}, at : {"count", "act", "revoke"},
             admin : Admins, seen : SUBSET Admins]

(* A removal that is about to act has counted more than one active super   *)
(* admin, or has not counted at all.                                       *)
Counted ==
  \A r \in Requests :
    req[r].op \in {"suspend", "delete"} /\ req[r].at = "act" =>
      req[r].seen = {} \/ Enough(Cardinality(req[r].seen))

AdminsInv ==
  /\ req \in [Requests -> {Idle} \cup Flags \cup Removals]
  /\ super \subseteq Admins
  /\ Counted

LEMMA AdminsBegin ==
  ASSUME HandlersInit, AdminsInit
  PROVE  AdminsInv
  BY DEF HandlersInit, AdminsInit, AdminsInv, Counted, Idle

(* A request begins or goes on.                                            *)
LEMMA AdminGoes ==
  ASSUME AdminsInv, NEW r \in Requests, NEW q \in Flags \cup Removals,
         req' = [req EXCEPT ![r] = q], super' \subseteq Admins,
         q.op \in {"suspend", "delete"} /\ q.at = "act" =>
           q.seen = {} \/ Enough(Cardinality(q.seen))
  PROVE  AdminsInv'
  <1>1. /\ req' \in [Requests -> {Idle} \cup Flags \cup Removals]
        /\ req'[r] = q /\ \A x \in Requests \ {r} : req'[x] = req[x]
    BY DEF AdminsInv
  <1> QED BY <1>1 DEF AdminsInv, Counted

LEMMA AdminEnds ==
  ASSUME AdminsInv, NEW r \in Requests, Done(r), super' \subseteq Admins
  PROVE  AdminsInv'
  <1>1. /\ req' \in [Requests -> {Idle} \cup Flags \cup Removals]
        /\ req'[r] = Idle /\ \A x \in Requests \ {r} : req'[x] = req[x]
    BY DEF AdminsInv, Done
  <1>2. Idle.op \notin {"suspend", "delete"}
    BY DEF Idle
  <1> QED BY <1>1, <1>2 DEF AdminsInv, Counted

LEMMA Removing ==
  ASSUME AdminsInv, NEW r \in Requests, req[r].op \in {"suspend", "delete"}
  PROVE  req[r] \in Removals
  BY DEF AdminsInv, Idle, Flags

LEMMA AdminsStays ==
  ASSUME AdminsInv, [AdminsNext]_<<mix, req, adminVars>>
  PROVE  AdminsInv'
  <1>1. ASSUME NEW r \in Requests, NEW a \in Admins, NEW b \in Admins,
               NEW flag \in BOOLEAN, AdminSetSuperAdmin(r, a, b, flag)
        PROVE  AdminsInv'
    <2> DEFINE q == [op |-> "flag", at |-> "set", admin |-> b, flag |-> flag]
    <2>1. q \in Flags /\ q.op = "flag"
      BY DEF Flags
    <2>2. req' = [req EXCEPT ![r] = q] /\ UNCHANGED super
      BY <1>1 DEF AdminSetSuperAdmin, Begin, adminVars
    <2> HIDE DEF q
    <2> QED BY <2>1, <2>2, AdminGoes DEF AdminsInv
  <1>2. ASSUME NEW r \in Requests, NEW a \in Admins, NEW b \in Admins, NEW op \in mix,
               RemoveAdmin(r, a, b, op)
        PROVE  AdminsInv'
    <2> DEFINE q == [op |-> op, at |-> IF b \in super THEN "count" ELSE "act",
                     admin |-> b, seen |-> {}]
    <2>1. q \in Removals /\ q.seen = {}
      BY <1>2 DEF RemoveAdmin, Removals
    <2>2. req' = [req EXCEPT ![r] = q] /\ UNCHANGED super
      BY <1>2 DEF RemoveAdmin, Begin, adminVars
    <2> HIDE DEF q
    <2> QED BY <2>1, <2>2, AdminGoes DEF AdminsInv
  <1>3. ASSUME NEW r \in Requests, SetFlag(r)
        PROVE  AdminsInv'
    <2>1. req[r] \in Flags
      BY <1>3 DEF SetFlag, At, AdminsInv, Idle, Removals
    <2>2. super' \subseteq Admins
      BY <1>3, <2>1 DEF SetFlag, AdminsInv, Flags
    <2> QED BY <1>3, <2>2, AdminEnds DEF SetFlag
  <1>4. ASSUME NEW r \in Requests, CountActive(r)
        PROVE  AdminsInv'
    <2>1. UNCHANGED super /\ req[r] \in Removals /\ Active \subseteq Admins
      BY <1>4, Removing DEF CountActive, adminVars, Active, AdminsInv
    <2>2. CASE Done(r)
      BY <2>1, <2>2, AdminEnds DEF AdminsInv
    <2>3. CASE /\ Enough(Cardinality(Active))
               /\ req' = [req EXCEPT ![r].at = "act", ![r].seen = Active]
      <3> DEFINE q == [req[r] EXCEPT !.at = "act", !.seen = Active]
      <3>1. q \in Removals /\ q.seen = Active
        BY <2>1 DEF Removals
      <3>2. req' = [req EXCEPT ![r] = q]
        BY <2>3
      <3> HIDE DEF q
      <3> QED BY <2>1, <2>3, <3>1, <3>2, AdminGoes DEF AdminsInv
    <2> QED BY <1>4, <2>2, <2>3 DEF CountActive
  <1>5. ASSUME NEW r \in Requests, SuspendAdmin(r)
        PROVE  AdminsInv'
    <2>1. UNCHANGED super /\ req[r] \in Removals
      BY <1>5, Removing DEF SuspendAdmin, At
    <2>2. CASE Done(r)
      BY <2>1, <2>2, AdminEnds DEF AdminsInv
    <2>3. CASE GoTo(r, "revoke")
      <3> DEFINE q == [req[r] EXCEPT !.at = "revoke"]
      <3>1. q \in Removals /\ q.at = "revoke"
        BY <2>1 DEF Removals
      <3>2. req' = [req EXCEPT ![r] = q]
        BY <2>3 DEF GoTo
      <3> HIDE DEF q
      <3> QED BY <2>1, <3>1, <3>2, AdminGoes DEF AdminsInv
    <2> QED BY <1>5, <2>2, <2>3 DEF SuspendAdmin
  <1>6. ASSUME NEW r \in Requests,
               RevokeAdmin(r) \/ DeleteAdmin(r) \/ (Abandon(r) /\ UNCHANGED adminVars)
        PROVE  AdminsInv'
    <2>1. Done(r) /\ super' \subseteq Admins
      BY <1>6 DEF RevokeAdmin, DeleteAdmin, Abandon, adminVars, AdminsInv
    <2> QED BY <2>1, AdminEnds
  <1>7. ASSUME UNCHANGED <<req, super>>
        PROVE  AdminsInv'
    BY <1>7 DEF AdminsInv, Counted
  <1>8. ASSUME NEW a \in Admins, AdminSelects(a) \/ UnsuspendAdmin(a)
        PROVE  AdminsInv'
    BY <1>7, <1>8 DEF AdminSelects, UnsuspendAdmin
  <1> QED BY <1>1, <1>2, <1>3, <1>4, <1>5, <1>6, <1>7, <1>8 DEF AdminsNext, adminVars

(* Taking one away leaves another, where there were enough.                *)
LEMMA OneStays ==
  ASSUME NEW S, NEW x, Enough(Cardinality(S))
  PROVE  S \ {x} # {}
  <1>1. SUFFICES ASSUME S \ {x} = {} PROVE FALSE
    OBVIOUS
  <1>2. CASE S = {}
    BY <1>2, FS_EmptySet DEF Enough
  <1>3. CASE S = {x}
    BY <1>3, FS_Singleton DEF Enough
  <1> QED BY <1>1, <1>2, <1>3

(* The last active super admin goes by a demotion, or by a removal that    *)
(* had counted others or nobody (auth/admin.go:533, :631); in particular   *)
(* never by removals that run one after the other.                         *)
THEOREM LastAdminStays == AdminsSpec => LastAdminLostOnlyBy
  <1>1. ASSUME AdminsInv, [AdminsNext]_<<mix, req, adminVars>>
        PROVE  [Active # {} /\ Active' = {} =>
                  \E r \in Requests :
                    /\ Moves(r)
                    /\ \/ req[r].op = "flag"
                       \/ req[r].at = "act" /\ req[r].seen # Active]_<<mix, req, adminVars>>
    <2>1. SUFFICES ASSUME Active # {}, Active' = {}
                   PROVE  \E r \in Requests :
                            /\ Moves(r)
                            /\ \/ req[r].op = "flag"
                               \/ req[r].at = "act" /\ req[r].seen # Active
      OBVIOUS
    <2>2. ASSUME NEW r \in Requests, SetFlag(r)
          PROVE  Moves(r) /\ req[r].op = "flag"
      BY <1>1, <2>2 DEF SetFlag, At, Done, Moves, AdminsInv, Idle
    <2>3. ASSUME NEW r \in Requests, SuspendAdmin(r) \/ DeleteAdmin(r)
          PROVE  Moves(r) /\ req[r].at = "act" /\ req[r].seen # Active
      <3>1. req[r] \in Removals /\ req[r].at = "act" /\ req[r].op \in {"suspend", "delete"}
        BY <1>1, <2>3, Removing DEF SuspendAdmin, DeleteAdmin, At
      <3>2. Moves(r)
        <4>1. req'[r] = Idle \/ req'[r] = [req[r] EXCEPT !.at = "revoke"]
          BY <1>1, <2>3 DEF SuspendAdmin, DeleteAdmin, Done, GoTo, AdminsInv
        <4>2. Idle.at = "none" /\ [req[r] EXCEPT !.at = "revoke"].at = "revoke"
          BY <3>1 DEF Idle, Removals
        <4>3. req[r] # Idle /\ req'[r] # req[r]
          BY <3>1, <4>1, <4>2
        <4> QED BY <4>3 DEF Moves
      <3>3. Active \ {req[r].admin} \subseteq Active'
        BY <2>3 DEF SuspendAdmin, DeleteAdmin, Active
      <3>4. ASSUME req[r].seen = Active PROVE FALSE
        <4>1. Enough(Cardinality(Active))
          BY <1>1, <2>1, <3>1, <3>4 DEF AdminsInv, Counted
        <4>2. Active \ {req[r].admin} # {}
          BY <4>1, OneStays
        <4> QED BY <2>1, <3>3, <4>2
      <3> QED BY <3>1, <3>2, <3>4
    <2>4. CASE \A r \in Requests : ~SetFlag(r) /\ ~SuspendAdmin(r) /\ ~DeleteAdmin(r)
      <3>1. super' = super /\ suspended' \subseteq suspended
        BY <1>1, <2>4
        DEF AdminsNext, AdminSetSuperAdmin, RemoveAdmin, CountActive, RevokeAdmin, Abandon,
            AdminSelects, UnsuspendAdmin, adminVars
      <3> QED BY <2>1, <3>1 DEF Active
    <2> QED BY <2>2, <2>3, <2>4
  <1> QED BY <1>1, AdminsBegin, AdminsStays, PTL DEF AdminsSpec, LastAdminLostOnlyBy

-----------------------------------------------------------------------------
(* The sub-organisations: their requests.                                  *)
Drops ==
  [op : {"drop"}, at : {"move", "cascade"}, org : Orgs, user : {"none"}, to : SUBSET Orgs]
Assigns ==
  [op : {"assign"}, at : {"remove", "add", "scope"}, org : Orgs, user : Members]
Binds == [op : {"bind"}, at : {"bind"}, org : Orgs \cup {Unscoped}, user : Members]
OrgRequests == {Idle} \cup Drops \cup Assigns \cup Binds

(* A request concerns a member: their own, or a deletion.                  *)
Concerns(q, u) == q # Idle /\ q.user \in {u, "none"}

(* What a request on its way relies on, for a member whose requests never  *)
(* overlapped or stopped.                                                  *)
InOrder(q, u) ==
  /\ q.op = "drop" /\ q.at = "cascade" /\ q.org \in rows[u] => q.to \subseteq rows[u] \ {q.org}
  /\ q.op = "assign" /\ q.at = "add" /\ q.user = u => rows[u] = {}
  /\ q.op = "assign" /\ q.at = "scope" /\ q.user = u => q.org \in rows[u]
  /\ q.op = "bind" /\ q.user = u => q.org \in rows[u] \cup {Unscoped}

Scoped(u) ==
  scope[u] # Unscoped /\ rows[u] # {} /\ ~Busy(u) => scope[u] \in rows[u]

Apart(u) ==
  \A r, q \in Requests : Concerns(req[r], u) /\ Concerns(req[q], u) => r = q

Unmixed(u) ==
  Apart(u) /\ Scoped(u) /\ \A r \in Requests : InOrder(req[r], u)

OrgTypes == req \in [Requests -> OrgRequests] /\ OrgsOK

OrgsInv == OrgTypes /\ \A u \in Members \ mixed : Unmixed(u)

LEMMA OrgsBegin ==
  ASSUME HandlersInit, OrgsInit
  PROVE  OrgsInv
  <1>1. PICK d \in Orgs :
          /\ name = [o \in Orgs |-> IF o = d THEN "Default" ELSE "none"]
          /\ rows = [u \in Members |-> {d}]
          /\ scope = [u \in Members |-> d]
          /\ mixed = {}
    BY DEF OrgsInit
  <1>2. req = [r \in Requests |-> Idle]
    BY DEF HandlersInit
  <1>3. d \in Existing
    BY <1>1 DEF Existing, Names
  <1>4. OrgTypes
    BY <1>1, <1>2, <1>3 DEF OrgTypes, OrgsOK, OrgRequests, Names
  <1>5. ASSUME NEW u \in Members PROVE Unmixed(u)
    BY <1>1, <1>2 DEF Unmixed, Apart, Scoped, InOrder, Concerns, Idle
  <1> QED BY <1>4, <1>5 DEF OrgsInv

(* One request moves: who is unmixed afterwards was so before.             *)
Move(r, q) ==
  /\ req' = [req EXCEPT ![r] = q]
  /\ mixed \subseteq mixed'
  /\ \A u \in Members \ mixed' : Apart(u)'

LEMMA Moving ==
  ASSUME OrgsInv, NEW r \in Requests, NEW q \in OrgRequests, Move(r, q), OrgsOK',
         \A u \in Members \ mixed' :
           Unmixed(u) /\ Apart(u)' =>
             /\ Scoped(u)' /\ InOrder(q, u)'
             /\ Concerns(req[r], u) \/ Concerns(q, u) \/ rows'[u] = rows[u]
  PROVE  OrgsInv'
  <1>1. /\ req' \in [Requests -> OrgRequests] /\ req'[r] = q
        /\ \A x \in Requests \ {r} : req'[x] = req[x]
    BY DEF OrgsInv, OrgTypes, Move
  <1>2. ASSUME NEW u \in Members \ mixed' PROVE Unmixed(u)'
    <2>1. Unmixed(u) /\ Apart(u) /\ Apart(u)'
      BY <1>2 DEF OrgsInv, Move, Unmixed
    <2>2. /\ Scoped(u)' /\ InOrder(q, u)'
          /\ Concerns(req[r], u) \/ Concerns(q, u) \/ rows'[u] = rows[u]
      BY <2>1
    <2>3. ASSUME NEW x \in Requests \ {r} PROVE InOrder(req[x], u)'
      <3>1. req'[x] = req[x] /\ req[x] \in OrgRequests /\ InOrder(req[x], u)
        BY <1>1, <2>1 DEF OrgsInv, OrgTypes, Unmixed
      <3>2. CASE rows'[u] = rows[u]
        BY <3>1, <3>2 DEF InOrder
      <3>3. CASE Concerns(req[r], u) \/ Concerns(q, u)
        <4>1. ~Concerns(req[x], u)
          BY <1>1, <2>1, <3>1, <3>3 DEF Apart, Concerns
        <4> QED BY <3>1, <4>1 DEF OrgRequests, Drops, Assigns, Binds, Idle, Concerns, InOrder
      <3> QED BY <2>2, <3>2, <3>3
    <2> QED BY <1>1, <2>1, <2>2, <2>3 DEF Unmixed
  <1> QED BY <1>1, <1>2 DEF OrgsInv, OrgTypes

(* A step of one of the handlers notes whom requests concern at once.      *)
LEMMA Noted ==
  ASSUME OrgsInv, NEW r \in Requests, NEW q \in OrgRequests, req' = [req EXCEPT ![r] = q],
         mixed' = mixed \cup {u \in Members : Overlap(u)'}
  PROVE  Move(r, q)
  <1>1. req' \in [Requests -> OrgRequests]
    BY DEF OrgsInv, OrgTypes
  <1>2. ASSUME NEW u \in Members \ mixed', NEW x \in Requests, NEW y \in Requests,
               Concerns(req'[x], u), Concerns(req'[y], u), x # y
        PROVE  FALSE
    BY <1>2 DEF Overlap, Concerns
  <1> QED BY <1>2 DEF Move, Apart

Notes == mixed' = mixed \cup {u \in Members : Overlap(u)'}

LEMMA OrgStands ==
  ASSUME OrgsInv, UNCHANGED <<req, rows, scope>>, mixed \subseteq mixed', OrgsOK'
  PROVE  OrgsInv'
  BY DEF OrgsInv, OrgTypes, Unmixed, Apart, Scoped, InOrder, Busy

LEMMA CreateOrgStep ==
  ASSUME OrgsInv, Notes, NEW o \in Orgs, NEW n \in Names, CreateOrg(o, n) \/ RenameOrg(o, n)
  PROVE  OrgsInv'
  <1>1. UNCHANGED <<req, rows, scope>> /\ mixed \subseteq mixed' /\ OrgsOK
    BY DEF CreateOrg, RenameOrg, Notes, OrgsInv, OrgTypes
  <1>2. name' = [name EXCEPT ![o] = n] /\ name' \in [Orgs -> Names \cup {"none", "deleted"}]
    BY <1>1 DEF CreateOrg, RenameOrg, OrgsOK
  <1>3. Existing \subseteq Existing'
    BY <1>1, <1>2 DEF Existing, OrgsOK
  <1>4. OrgsOK'
    BY <1>1, <1>2, <1>3 DEF OrgsOK
  <1> QED BY <1>1, <1>4, OrgStands

(* A request begins that relies on nothing but what it has just read.      *)
LEMMA OrgBegins ==
  ASSUME OrgsInv, Notes, NEW r \in Requests, NEW q \in OrgRequests, Begin(r, q),
         UNCHANGED orgVars, q.at \in {"move", "remove", "bind"},
         \A u \in Members : q.op = "bind" /\ q.user = u => q.org \in rows[u] \cup {Unscoped}
  PROVE  OrgsInv'
  <1>1. UNCHANGED <<name, rows, scope>> /\ req[r] = Idle /\ req' = [req EXCEPT ![r] = q]
    BY DEF orgVars, Begin
  <1>2. Move(r, q) /\ OrgsOK'
    BY <1>1, Noted DEF Notes, OrgsInv, OrgTypes, OrgsOK, Existing
  <1>3. req \in [Requests -> OrgRequests]
    BY DEF OrgsInv, OrgTypes
  <1>4. ASSUME NEW u \in Members, Unmixed(u)
        PROVE  Scoped(u)' /\ InOrder(q, u)'
    <2>1. Busy(u) => Busy(u)'
      BY <1>1, <1>3 DEF Busy, Idle
    <2>2. Scoped(u)'
      BY <1>1, <1>4, <2>1 DEF Unmixed, Scoped
    <2> QED BY <1>1, <2>2 DEF InOrder
  <1> QED BY <1>1, <1>2, <1>4, Moving

LEMMA DeleteOrgStep ==
  ASSUME OrgsInv, Notes, NEW r \in Requests, NEW o \in Orgs, DeleteOrg(r, o)
  PROVE  OrgsInv'
  <1> DEFINE q == [op |-> "drop", at |-> "move", org |-> o, user |-> "none", to |-> {}]
  <1>1. q \in OrgRequests /\ q.at = "move" /\ q.op # "bind"
    BY DEF OrgRequests, Drops
  <1>2. Begin(r, q) /\ UNCHANGED orgVars
    BY DEF DeleteOrg
  <1> HIDE DEF q
  <1> QED BY <1>1, <1>2, OrgBegins

LEMMA SetUserSubOrgStep ==
  ASSUME OrgsInv, Notes, NEW r \in Requests, NEW o \in Orgs, NEW u \in Members,
         SetUserSubOrg(r, u, o)
  PROVE  OrgsInv'
  <1> DEFINE q == [op |-> "assign", at |-> "remove", org |-> o, user |-> u]
  <1>1. q \in OrgRequests /\ q.at = "remove" /\ q.op # "bind"
    BY DEF OrgRequests, Assigns
  <1>2. Begin(r, q) /\ UNCHANGED orgVars
    BY DEF SetUserSubOrg
  <1> HIDE DEF q
  <1> QED BY <1>1, <1>2, OrgBegins

LEMMA ReadScopeStep ==
  ASSUME OrgsInv, Notes, NEW r \in Requests, NEW u \in Members, ReadScope(r, u)
  PROVE  OrgsInv'
  <1>1. PICK o \in IF rows[u] = {} THEN {Unscoped} ELSE rows[u] :
          Begin(r, [op |-> "bind", at |-> "bind", user |-> u, org |-> o])
    BY DEF ReadScope
  <1> DEFINE q == [op |-> "bind", at |-> "bind", user |-> u, org |-> o]
  <1>2. o \in Orgs \cup {Unscoped} /\ o \in rows[u] \cup {Unscoped}
    BY <1>1 DEF OrgsInv, OrgTypes, OrgsOK, Existing
  <1>3. q \in OrgRequests /\ q.at = "bind" /\ q.user = u /\ q.org = o
    BY <1>2 DEF OrgRequests, Binds
  <1>4. Begin(r, q) /\ UNCHANGED orgVars
    BY <1>1 DEF ReadScope
  <1> HIDE DEF q
  <1> QED BY <1>2, <1>3, <1>4, OrgBegins

LEMMA OrgShapes ==
  ASSUME OrgsInv, NEW r \in Requests
  PROVE  /\ req[r].op = "drop" => req[r] \in Drops
         /\ req[r].op = "assign" => req[r] \in Assigns
         /\ req[r].op = "bind" => req[r] \in Binds
  BY DEF OrgsInv, OrgTypes, OrgRequests, Drops, Assigns, Binds, Idle

LEMMA MoveMembersStep ==
  ASSUME OrgsInv, Notes, NEW r \in Requests, MoveMembers(r)
  PROVE  OrgsInv'
  <1>1. req[r] \in Drops /\ OrgsOK
    BY OrgShapes DEF MoveMembers, At, OrgsInv, OrgTypes
  <1> DEFINE p == [req[r] EXCEPT !.at = "cascade", !.to = Defaults \ {req[r].org}]
  <1>2. /\ p \in Drops /\ p.op = "drop"
        /\ p.to = Defaults \ {req[r].org} /\ p.org = req[r].org
    BY <1>1 DEF Drops, Defaults, Existing
  <1>3. PICK q \in Drops : /\ q = p
                          /\ q.op = "drop" /\ q.to = Defaults \ {q.org} /\ q.org = req[r].org
    BY <1>2
  <1>4. /\ req' = [req EXCEPT ![r] = q] /\ UNCHANGED <<name, scope>>
        /\ rows' = [u \in Members |->
                      IF req[r].org \in rows[u] THEN rows[u] \cup Defaults ELSE rows[u]]
    BY <1>3 DEF MoveMembers
  <1>5. q \in OrgRequests /\ Defaults \subseteq Existing /\ Existing' = Existing
    BY <1>3, <1>4 DEF OrgRequests, Defaults, Existing
  <1>6. OrgsOK'
    BY <1>1, <1>4, <1>5 DEF OrgsOK
  <1>7. ASSUME NEW u \in Members, Unmixed(u)
        PROVE  Scoped(u)' /\ InOrder(q, u)' /\ Concerns(req[r], u)
    <2>1. rows[u] \subseteq rows'[u] /\ (rows'[u] # {} => rows[u] # {}) /\ scope'[u] = scope[u]
      BY <1>4
    <2>2. Concerns(req[r], u)
      BY <1>1 DEF Drops, Concerns, Idle
    <2>3. Busy(u) => Busy(u)'
      BY <1>1, <1>4 DEF Busy, Drops, OrgsInv, OrgTypes
    <2>4. Scoped(u)'
      BY <1>7, <2>1, <2>3 DEF Unmixed, Scoped
    <2>5. q.org \in rows'[u] => q.to \subseteq rows'[u] \ {q.org}
      <3>1. CASE req[r].org \in rows[u]
        BY <1>3, <1>4, <3>1
      <3>2. CASE req[r].org \notin rows[u]
        BY <1>3, <1>4, <3>2
      <3> QED BY <3>1, <3>2
    <2> QED BY <1>3, <2>2, <2>4, <2>5 DEF InOrder
  <1>8. Move(r, q)
    BY <1>4, <1>5, Noted DEF Notes
  <1> QED BY <1>5, <1>6, <1>7, <1>8, Moving

LEMMA DropOrgStep ==
  ASSUME OrgsInv, Notes, NEW r \in Requests, DropOrg(r)
  PROVE  OrgsInv'
  <1> DEFINE o == req[r].org
  <1>1. req[r] \in Drops /\ OrgsOK
    BY OrgShapes DEF DropOrg, At, OrgsInv, OrgTypes
  <1>2. /\ req' = [req EXCEPT ![r] = Idle]
        /\ name' = [name EXCEPT ![o] = "deleted"]
        /\ rows' = [u \in Members |-> rows[u] \ {o}]
        /\ scope' = [u \in Members |-> IF scope[u] = o THEN Unscoped ELSE scope[u]]
    BY DEF DropOrg, Done
  <1>3. o \in Orgs /\ Idle \in OrgRequests
    BY <1>1 DEF Drops, OrgRequests
  <1> HIDE DEF o
  <1>4. OrgsOK' 
    <2>1. name' \in [Orgs -> Names \cup {"none", "deleted"}]
      BY <1>1, <1>2 DEF OrgsOK
    <2>2. Existing' = Existing \ {o}
      BY <1>1, <1>2, <1>3 DEF Existing, OrgsOK, Names
    <2>3. rows' \in [Members -> SUBSET Existing']
      BY <1>1, <1>2, <2>2 DEF OrgsOK
    <2>4. scope' \in [Members -> Existing' \cup {Unscoped}]
      BY <1>1, <1>2, <2>2 DEF OrgsOK
    <2> QED BY <2>1, <2>3, <2>4 DEF OrgsOK
  <1>5. ASSUME NEW u \in Members, Unmixed(u)
        PROVE  Scoped(u)' /\ InOrder(Idle, u)' /\ Concerns(req[r], u)
    <2>1. Concerns(req[r], u)
      BY <1>1 DEF Drops, Concerns, Idle
    <2>2. Busy(u) => Busy(u)'
      BY <1>1, <1>2 DEF Busy, Drops, OrgsInv, OrgTypes
    <2>3. Scoped(u)'
      BY <1>2, <1>5, <2>2 DEF Unmixed, Scoped
    <2> QED BY <2>1, <2>3 DEF InOrder, Idle
  <1>6. Move(r, Idle)
    BY <1>2, <1>3, Noted DEF Notes
  <1> QED BY <1>3, <1>4, <1>5, <1>6, Moving

(* The steps of a request of one member, when it goes on and when it ends. *)
LEMMA OwnStep ==
  ASSUME OrgsInv, Notes, NEW r \in Requests, req[r] \in Assigns \cup Binds,
         NEW q \in OrgRequests, req' = [req EXCEPT ![r] = q], name' = name,
         q = Idle \/ (q \in Assigns /\ q.user = req[r].user),
         NEW m \in Members, m = req[r].user,
         NEW in \in SUBSET Existing, rows' = [rows EXCEPT ![m] = in],
         NEW at \in Existing \cup {Unscoped}, scope' = [scope EXCEPT ![m] = at],
         Unmixed(m) => InOrder(q, m)' /\ (q = Idle => in = {} \/ at \in in \cup {Unscoped})
  PROVE  OrgsInv'
  <1>1. OrgsOK /\ req \in [Requests -> OrgRequests]
    BY DEF OrgsInv, OrgTypes
  <1>2. Existing' = Existing
    BY DEF Existing
  <1>3. OrgsOK'
    BY <1>1, <1>2 DEF OrgsOK
  <1>4. ASSUME NEW u \in Members, Unmixed(u)
        PROVE  Scoped(u)' /\ InOrder(q, u)' /\ (Concerns(req[r], u) \/ rows'[u] = rows[u])
    <2>1. CASE u = m
      <3>1. Concerns(req[r], u)
        BY <2>1 DEF Concerns, Assigns, Binds, Idle
      <3>2. q # Idle => Busy(u)'
        BY <1>1, <2>1 DEF Busy, Assigns
      <3>3. Scoped(u)'
        BY <1>1, <1>4, <2>1, <3>2 DEF Scoped, OrgsOK
      <3> QED BY <1>4, <2>1, <3>1, <3>3
    <2>2. CASE u # m
      <3>1. rows'[u] = rows[u] /\ scope'[u] = scope[u]
        BY <1>1, <2>2 DEF OrgsOK
      <3>2. Busy(u) => Busy(u)'
        BY <1>1, <2>2 DEF Busy
      <3>3. Scoped(u)'
        BY <1>4, <3>1, <3>2 DEF Unmixed, Scoped
      <3>4. q = Idle \/ q.user # u
        BY <2>2
      <3>5. InOrder(q, u)'
        BY <3>4 DEF InOrder, Idle, Assigns
      <3> QED BY <3>1, <3>3, <3>5
    <2> QED BY <2>1, <2>2
  <1>5. Move(r, q)
    BY Noted DEF Notes
  <1> QED BY <1>3, <1>4, <1>5, Moving

LEMMA Onwards ==
  ASSUME NEW r \in Requests, req[r] \in Assigns, NEW s \in {"add", "scope"}, GoTo(r, s)
  PROVE  \E q \in Assigns :
           /\ req' = [req EXCEPT ![r] = q]
           /\ q.op = "assign" /\ q.at = s /\ q.org = req[r].org /\ q.user = req[r].user
  <1> DEFINE p == [req[r] EXCEPT !.at = s]
  <1>1. p \in Assigns /\ p.op = "assign" /\ p.at = s /\ p.org = req[r].org /\ p.user = req[r].user
    BY DEF Assigns
  <1>2. req' = [req EXCEPT ![r] = p]
    BY DEF GoTo
  <1> QED BY <1>1, <1>2

LEMMA RemoveFromOrgsStep ==
  ASSUME OrgsInv, Notes, NEW r \in Requests, RemoveFromOrgs(r)
  PROVE  OrgsInv'
  <1>1. req[r] \in Assigns /\ OrgsOK
    BY OrgShapes DEF RemoveFromOrgs, At, OrgsInv, OrgTypes
  <1>2. PICK q \in Assigns :
          /\ req' = [req EXCEPT ![r] = q]
          /\ q.op = "assign" /\ q.at = "add" /\ q.org = req[r].org /\ q.user = req[r].user
    BY <1>1, Onwards DEF RemoveFromOrgs
  <1>3. PICK m \in Members : m = req[r].user
    BY <1>1 DEF Assigns
  <1>4. PICK at \in Existing \cup {Unscoped} : at = scope[m]
    BY <1>1 DEF OrgsOK
  <1>5. PICK in \in SUBSET Existing : in = {}
    OBVIOUS
  <1>6. /\ name' = name /\ rows' = [rows EXCEPT ![m] = in]
        /\ scope' = [scope EXCEPT ![m] = at]
    BY <1>5, <1>1, <1>3, <1>4 DEF RemoveFromOrgs, OrgsOK
  <1>7. InOrder(q, m)' /\ q \in OrgRequests /\ q # Idle
    BY <1>5, <1>1, <1>2, <1>6 DEF InOrder, OrgRequests, OrgsOK, Idle
  <1> QED BY <1>5, <1>1, <1>2, <1>3, <1>4, <1>6, <1>7, OwnStep

LEMMA AddToOrgStep ==
  ASSUME OrgsInv, Notes, NEW r \in Requests, AddToOrg(r)
  PROVE  OrgsInv'
  <1>1. req[r] \in Assigns /\ OrgsOK /\ req[r].at = "add"
    BY OrgShapes DEF AddToOrg, At, OrgsInv, OrgTypes
  <1>2. PICK m \in Members : m = req[r].user
    BY <1>1 DEF Assigns
  <1>3. PICK at \in Existing \cup {Unscoped} : at = scope[m]
    BY <1>1 DEF OrgsOK
  <1>4. name' = name /\ scope' = [scope EXCEPT ![m] = at]
    BY <1>1, <1>3 DEF AddToOrg, OrgsOK
  <1>5. PICK o \in Orgs : o = req[r].org
    BY <1>1 DEF Assigns
  <1>6. CASE o \in Existing
    <2>1. GoTo(r, "scope") /\ rows' = [rows EXCEPT ![m] = rows[m] \cup {o}]
      BY <1>2, <1>5, <1>6 DEF AddToOrg
    <2>2. PICK q \in Assigns :
            /\ req' = [req EXCEPT ![r] = q]
            /\ q.op = "assign" /\ q.at = "scope" /\ q.org = req[r].org /\ q.user = req[r].user
      BY <1>1, <2>1, Onwards
    <2>3. PICK in \in SUBSET Existing : in = rows[m] \cup {o}
      BY <1>1, <1>6 DEF OrgsOK
    <2>4. rows' = [rows EXCEPT ![m] = in]
      BY <2>1, <2>3
    <2>5. InOrder(q, m)' /\ q \in OrgRequests /\ q # Idle
      BY <1>1, <1>2, <1>5, <2>2, <2>3, <2>4 DEF InOrder, OrgRequests, OrgsOK, Idle
    <2> QED BY <1>1, <1>2, <1>3, <1>4, <2>2, <2>4, <2>5, OwnStep
  <1>7. CASE o \notin Existing
    <2>1. req' = [req EXCEPT ![r] = Idle] /\ rows' = rows
      BY <1>5, <1>7 DEF AddToOrg, Done
    <2>2. PICK in \in SUBSET Existing : in = rows[m]
      BY <1>1 DEF OrgsOK
    <2>3. rows' = [rows EXCEPT ![m] = in]
      BY <1>1, <2>1, <2>2 DEF OrgsOK
    <2>4. Unmixed(m) => in = {}
      BY <1>1, <1>2, <2>2 DEF Unmixed, InOrder, Assigns
    <2>5. InOrder(Idle, m)' /\ Idle \in OrgRequests
      BY DEF InOrder, OrgRequests, Idle
    <2> QED BY <1>1, <1>2, <1>3, <1>4, <2>1, <2>3, <2>4, <2>5, OwnStep
  <1> QED BY <1>6, <1>7

(* The two steps that set the scope of a session.                          *)
LEMMA ScopeStep ==
  ASSUME OrgsInv, Notes, NEW r \in Requests, UpdateSubOrg(r) \/ BindScope(r)
  PROVE  OrgsInv'
  <1>1. /\ req[r] \in Assigns \cup Binds /\ OrgsOK
        /\ req[r] \in Assigns => req[r].at = "scope"
    BY OrgShapes DEF UpdateSubOrg, BindScope, At, OrgsInv, OrgTypes, Assigns, Binds
  <1>2. PICK m \in Members : m = req[r].user
    BY <1>1 DEF Assigns, Binds
  <1>3. PICK o \in Orgs \cup {Unscoped} : o = req[r].org
    BY <1>1 DEF Assigns, Binds
  <1>4. PICK in \in SUBSET Existing : in = rows[m]
    BY <1>1 DEF OrgsOK
  <1>5. rows' = [rows EXCEPT ![m] = in] /\ name' = name /\ req' = [req EXCEPT ![r] = Idle]
    BY <1>1, <1>4 DEF UpdateSubOrg, BindScope, OrgsOK, Done
  <1>6. Unmixed(m) => o \in in \cup {Unscoped}
    BY <1>1, <1>2, <1>3, <1>4 DEF Unmixed, InOrder, Assigns, Binds
  <1>7. PICK at \in Existing \cup {Unscoped} :
          /\ scope' = [scope EXCEPT ![m] = at]
          /\ Unmixed(m) => at = o \/ in = {}
    <2>1. CASE o \in Existing \/ (BindScope(r) /\ o = Unscoped)
      BY <1>2, <1>3, <2>1 DEF UpdateSubOrg, BindScope
    <2>2. CASE o \notin Existing /\ ~(BindScope(r) /\ o = Unscoped)
      <3>1. scope' = [scope EXCEPT ![m] = scope[m]] /\ scope[m] \in Existing \cup {Unscoped}
        BY <1>1, <1>3, <2>2 DEF UpdateSubOrg, BindScope, OrgsOK
      <3>2. Unmixed(m) => FALSE
        <4>1. SUFFICES ASSUME Unmixed(m) PROVE FALSE
          OBVIOUS
        <4>2. o \notin in /\ UpdateSubOrg(r)
          BY <1>6, <2>2, <4>1
        <4> QED BY <1>1, <1>2, <1>3, <1>4, <4>1, <4>2, OrgShapes
                DEF UpdateSubOrg, At, Unmixed, InOrder, Assigns
      <3> QED BY <3>1, <3>2
    <2> QED BY <2>1, <2>2
  <1>8. InOrder(Idle, m)' /\ Idle \in OrgRequests
    BY DEF InOrder, OrgRequests, Idle
  <1>9. Unmixed(m) => in = {} \/ at \in in \cup {Unscoped}
    BY <1>6, <1>7
  <1> QED BY <1>1, <1>2, <1>5, <1>7, <1>8, <1>9, OwnStep

LEMMA OrgAbandonStep ==
  ASSUME OrgsInv, NEW r \in Requests, Abandon(r), UNCHANGED orgVars,
         mixed' = mixed \cup (Members \cap {req[r].user})
  PROVE  OrgsInv'
  <1>1. OrgsOK /\ req \in [Requests -> OrgRequests]
    BY DEF OrgsInv, OrgTypes
  <1>2. /\ req' = [req EXCEPT ![r] = Idle] /\ UNCHANGED <<name, rows, scope>>
        /\ req[r] # Idle
    BY DEF Abandon, Done, orgVars
  <1>3. OrgsOK'
    BY <1>1, <1>2 DEF OrgsOK, Existing
  <1>4. Idle \in OrgRequests /\ \A x \in Requests : req'[x] = req[x] \/ req'[x] = Idle
    BY <1>1, <1>2 DEF OrgRequests
  <1>5. Move(r, Idle)
    BY <1>2, <1>4 DEF Move, Apart, Concerns, OrgsInv, Unmixed
  <1>6. ASSUME NEW u \in Members \ mixed', Unmixed(u)
        PROVE  Scoped(u)' /\ InOrder(Idle, u)' /\ rows'[u] = rows[u]
    <2>1. Busy(u) => Busy(u)'
      BY <1>1, <1>2, <1>6 DEF Busy
    <2> QED BY <1>2, <1>6, <2>1 DEF Unmixed, Scoped, InOrder, Idle
  <1> QED BY <1>3, <1>4, <1>5, <1>6, Moving

LEMMA OrgsStays ==
  ASSUME OrgsInv, [OrgsNext]_<<mix, req, orgVars, mixed>>
  PROVE  OrgsInv'
  <1>1. CASE UNCHANGED <<mix, req, orgVars, mixed>>
    BY <1>1 DEF orgVars, OrgsInv, OrgTypes, OrgsOK, Existing, Unmixed, Apart, Scoped, InOrder, Busy
  <1>2. CASE OrgsStep /\ Notes
    BY <1>2, CreateOrgStep, DeleteOrgStep, MoveMembersStep, DropOrgStep, SetUserSubOrgStep,
       RemoveFromOrgsStep, AddToOrgStep, ReadScopeStep, ScopeStep DEF OrgsStep
  <1> QED BY <1>1, <1>2, OrgAbandonStep DEF OrgsNext, Notes

LEMMA OrgsScoped ==
  ASSUME OrgsInv
  PROVE  OrgsOK /\ ScopeFollows
  BY DEF OrgsInv, OrgTypes, ScopeFollows, Unmixed, Scoped


(* Whatever is assigned, renamed or deleted, a session is not scoped to a  *)
(* sub-organisation its member has left, while no requests for the member  *)
(* overlapped or stopped half way (session/store.go:228).                  *)
THEOREM ScopesFollow == OrgsSpec => []ScopeFollows
  <1>1. HandlersInit /\ OrgsInit => OrgsInv
    BY OrgsBegin
  <1>2. OrgsInv /\ [OrgsNext]_<<mix, req, orgVars, mixed>> => OrgsInv'
    BY OrgsStays
  <1>3. OrgsInv => ScopeFollows
    BY OrgsScoped
  <1> QED BY <1>1, <1>2, <1>3, PTL DEF OrgsSpec

(* How a member comes to be in no sub-organisation.                        *)
UnplacedBy(u) ==
  ~Unplaced(u) /\ Unplaced(u)' =>
    \E r \in Requests :
      /\ Moves(r)
      /\ \/ req[r].at # "cascade" /\ req[r].user = u /\ UNCHANGED rows
         \/ req[r].at = "cascade" /\ (u \in mixed \/ req[r].to = {})

LEMMA StillPlaced ==
  ASSUME NEW u \in Members, rows[u] # {} => rows'[u] # {}, Busy(u) => Busy(u)'
  PROVE  UnplacedBy(u)
  BY DEF UnplacedBy, Unplaced

LEMMA UnplacedStep ==
  ASSUME OrgsInv, OrgsNext, NEW u \in Members
  PROVE  UnplacedBy(u)
  <1>1. OrgsOK /\ req \in [Requests -> OrgRequests]
    BY DEF OrgsInv, OrgTypes
  (* Nothing but the request of a member, or a deletion, makes a difference. *)
  <1>2. ASSUME NEW r \in Requests, req[r] = Idle, UNCHANGED rows,
               \A x \in Requests \ {r} : req'[x] = req[x]
        PROVE  UnplacedBy(u)
    <2>1. Busy(u) => Busy(u)'
      BY <1>2 DEF Busy, Idle
    <2> QED BY <1>2, <2>1, StillPlaced
  <1>3. ASSUME NEW r \in Requests, NEW q \in OrgRequests, req' = [req EXCEPT ![r] = q],
               q.op = req[r].op, q.user = req[r].user, q.op # "none",
               rows[u] # {} => rows'[u] # {} \/ (q.op \in {"assign", "bind"} /\ q.user = u)
        PROVE  UnplacedBy(u)
    <2>1. Busy(u) => Busy(u)'
      BY <1>1, <1>3 DEF Busy
    <2>2. q.op \in {"assign", "bind"} /\ q.user = u => Busy(u)'
      BY <1>1, <1>3 DEF Busy
    <2> QED BY <1>3, <2>1, <2>2 DEF UnplacedBy, Unplaced
  <1>4. ASSUME NEW r \in Requests, Done(r), UNCHANGED rows, req[r] # Idle,
               req[r].op = "drop" \/ req[r].at # "cascade"
        PROVE  UnplacedBy(u)
    <2>1. req' = [req EXCEPT ![r] = Idle] /\ Moves(r)
      BY <1>1, <1>4 DEF Done, Moves
    <2>2. CASE req[r].op \in {"assign", "bind"} /\ req[r].user = u
      BY <1>4, <2>1, <2>2 DEF UnplacedBy
    <2>3. CASE ~(req[r].op \in {"assign", "bind"} /\ req[r].user = u)
      <3>1. Busy(u) => Busy(u)'
        BY <1>1, <2>1, <2>3 DEF Busy
      <3> QED BY <1>4, <3>1, StillPlaced
    <2> QED BY <2>2, <2>3
  <1>5. ASSUME NEW o \in Orgs, NEW n \in Names, CreateOrg(o, n) \/ RenameOrg(o, n)
        PROVE  UnplacedBy(u)
    BY <1>5, StillPlaced DEF CreateOrg, RenameOrg, Busy
  <1>6. ASSUME NEW r \in Requests,
               \/ \E o \in Orgs : DeleteOrg(r, o) \/ \E m \in Members : SetUserSubOrg(r, m, o)
               \/ \E m \in Members : ReadScope(r, m)
        PROVE  UnplacedBy(u)
    <2>1. UNCHANGED rows /\ \E q : Begin(r, q)
      BY <1>6 DEF DeleteOrg, SetUserSubOrg, ReadScope, orgVars
    <2>2. req[r] = Idle /\ \A x \in Requests \ {r} : req'[x] = req[x]
      BY <1>1, <2>1 DEF Begin
    <2> QED BY <1>2, <2>1, <2>2
  <1>7. ASSUME NEW r \in Requests, MoveMembers(r)
        PROVE  UnplacedBy(u)
    <2> DEFINE p == [req[r] EXCEPT !.at = "cascade", !.to = Defaults \ {req[r].org}]
    <2>1. req[r] \in Drops
      BY <1>7, OrgShapes DEF MoveMembers, At
    <2>2. p \in Drops /\ p.op = req[r].op /\ p.user = req[r].user /\ req' = [req EXCEPT ![r] = p]
      BY <1>7, <2>1 DEF MoveMembers, Drops, Defaults, Existing
    <2> HIDE DEF p
    <2>3. PICK q \in OrgRequests : q = p
      BY <2>2 DEF OrgRequests
    <2>4. rows[u] # {} => rows'[u] # {}
      BY <1>7 DEF MoveMembers
    <2> QED BY <1>3, <2>1, <2>2, <2>3, <2>4 DEF Drops
  <1>8. ASSUME NEW r \in Requests, NEW s \in {"add", "scope"}, req[r] \in Assigns, GoTo(r, s),
               rows[u] # {} => rows'[u] # {} \/ req[r].user = u
        PROVE  UnplacedBy(u)
    <2>1. PICK q \in Assigns :
            /\ req' = [req EXCEPT ![r] = q]
            /\ q.op = "assign" /\ q.at = s /\ q.org = req[r].org /\ q.user = req[r].user
      BY <1>8, Onwards
    <2> QED BY <1>3, <1>8, <2>1 DEF OrgRequests, Assigns
  <1>9. ASSUME NEW r \in Requests, RemoveFromOrgs(r) \/ AddToOrg(r)
        PROVE  UnplacedBy(u)
    <2>1. req[r] \in Assigns
      BY <1>9, OrgShapes DEF RemoveFromOrgs, AddToOrg, At
    <2>2. CASE RemoveFromOrgs(r)
      BY <1>1, <1>8, <2>1, <2>2 DEF RemoveFromOrgs, OrgsOK
    <2>3. CASE AddToOrg(r) /\ req[r].org \in Existing
      <3>1. rows[u] # {} => rows'[u] # {}
        BY <1>1, <2>3 DEF AddToOrg, OrgsOK
      <3>2. GoTo(r, "scope")
        BY <2>3 DEF AddToOrg
      <3> QED BY <1>8, <2>1, <3>1, <3>2
    <2>4. CASE AddToOrg(r) /\ req[r].org \notin Existing
      BY <1>4, <2>1, <2>4 DEF AddToOrg, At, Idle
    <2> QED BY <1>9, <2>2, <2>3, <2>4
  <1>10. ASSUME NEW r \in Requests,
                UpdateSubOrg(r) \/ BindScope(r) \/ (Abandon(r) /\ UNCHANGED orgVars)
         PROVE  UnplacedBy(u)
    <2>1. Done(r) /\ UNCHANGED rows /\ req[r] # Idle
      BY <1>10 DEF UpdateSubOrg, BindScope, Abandon, orgVars, At, Idle
    <2>2. req[r].op = "drop" \/ req[r].at # "cascade"
      BY <1>1 DEF OrgRequests, Drops, Assigns, Binds, Idle
    <2> QED BY <1>4, <2>1, <2>2
  <1>11. ASSUME NEW r \in Requests, DropOrg(r)
         PROVE  UnplacedBy(u)
    <2>1. req[r] \in Drops /\ req[r].at = "cascade" /\ req[r].op = "drop"
      BY <1>11, OrgShapes DEF DropOrg, At
    <2>2. req' = [req EXCEPT ![r] = Idle] /\ rows'[u] = rows[u] \ {req[r].org} /\ Moves(r)
      BY <1>1, <1>11, <2>1 DEF DropOrg, Done, Drops, Idle, Moves
    <2>3. Busy(u) => Busy(u)'
      BY <1>1, <2>1, <2>2 DEF Busy
    <2>4. CASE u \in mixed \/ req[r].to = {}
      BY <2>1, <2>2, <2>4 DEF UnplacedBy
    <2>5. CASE u \notin mixed /\ req[r].to # {}
      <3>1. req[r].org \in rows[u] => req[r].to \subseteq rows[u] \ {req[r].org}
        BY <2>1, <2>5 DEF OrgsInv, Unmixed, InOrder
      <3>2. rows[u] # {} => rows'[u] # {}
        BY <2>2, <2>5, <3>1
      <3> QED BY <2>3, <3>2, StillPlaced
    <2> QED BY <2>4, <2>5
  <1> QED BY <1>5, <1>6, <1>7, <1>9, <1>10, <1>11 DEF OrgsNext, OrgsStep

(* A member ends in no sub-organisation only by an assignment that stopped *)
(* or whose target was gone, or by a deletion that overlapped another      *)
(* request for the member or found no default (suborg/store.go:140).       *)
THEOREM PlacedUnless == OrgsSpec => UnplacedOnlyBy
  <1>1. HandlersInit /\ OrgsInit => OrgsInv
    BY OrgsBegin
  <1>2. OrgsInv /\ [OrgsNext]_<<mix, req, orgVars, mixed>> => OrgsInv'
    BY OrgsStays
  <1>3. ASSUME OrgsInv, [OrgsNext]_<<mix, req, orgVars, mixed>>
        PROVE  [\A u \in Members : ~Unplaced(u) /\ Unplaced(u)' =>
                  \E r \in Requests :
                    /\ Moves(r)
                    /\ \/ req[r].at # "cascade" /\ req[r].user = u /\ UNCHANGED rows
                       \/ req[r].at = "cascade" /\ (u \in mixed \/ req[r].to = {})]_<<mix, req, orgVars>>
    BY <1>3, UnplacedStep DEF UnplacedBy
  <1> QED BY <1>1, <1>2, <1>3, PTL DEF OrgsSpec, UnplacedOnlyBy

-----------------------------------------------------------------------------
(* Types of the super admins.                                              *)
LEMMA AdminsTyped ==
  ASSUME AdminsInv, AdminsOK, [AdminsNext]_<<mix, req, adminVars>>
  PROVE  AdminsOK'
  <1>1. ASSUME NEW r \in Requests, SetFlag(r) PROVE AdminsOK'
    <2>1. req[r] \in Flags
      BY <1>1 DEF SetFlag, At, AdminsInv, Idle, Removals
    <2> QED BY <1>1, <2>1 DEF SetFlag, AdminsOK, Flags
  <1>2. ASSUME NEW r \in Requests, SuspendAdmin(r) \/ RevokeAdmin(r) \/ DeleteAdmin(r)
        PROVE  AdminsOK'
    <2>1. req[r].admin \in Admins
      BY <1>2, Removing DEF SuspendAdmin, RevokeAdmin, DeleteAdmin, At, Removals
    <2> QED BY <1>2, <2>1 DEF SuspendAdmin, RevokeAdmin, DeleteAdmin, AdminsOK
  <1>3. ASSUME NEW a \in Admins, AdminSelects(a) \/ UnsuspendAdmin(a) PROVE AdminsOK'
    BY <1>3 DEF AdminSelects, UnsuspendAdmin, AdminsOK, Active
  <1>4. CASE UNCHANGED adminVars
    BY <1>4 DEF adminVars, AdminsOK
  <1> QED BY <1>1, <1>2, <1>3, <1>4
          DEF AdminsNext, AdminSetSuperAdmin, RemoveAdmin, CountActive

(* No operation changes the set of those that are used.                    *)
LEMMA PeopleSameMix ==
  ASSUME PeopleNext PROVE mix' = mix
  BY DEF PeopleNext, Invite, CompleteSSO, AdminAddIdentityToTenant, TenantRemoveMember,
         CreateIdentity, AddIdentityToTenant, PlaceMember, FindIdentity, Unlink, CountRemaining,
         PurgeIdentity, Abandon, AdminCreateIdentity, SetPersonSuperAdmin, AdminDeleteIdentity

LEMMA AdminsSameMix ==
  ASSUME AdminsNext PROVE mix' = mix
  BY DEF AdminsNext, AdminSetSuperAdmin, RemoveAdmin, SetFlag, CountActive, SuspendAdmin,
         RevokeAdmin, DeleteAdmin, Abandon, AdminSelects, UnsuspendAdmin

LEMMA OrgsSameMix ==
  ASSUME OrgsNext PROVE mix' = mix
  BY DEF OrgsNext, OrgsStep, CreateOrg, RenameOrg, DeleteOrg, SetUserSubOrg, MoveMembers,
         DropOrg, RemoveFromOrgs, AddToOrg, UpdateSubOrg, ReadScope, BindScope, Abandon

(* What is used is in order; what is not used stays as it was.             *)
OneUsed ==
  /\ TypeOK
  /\ InPeople => PeopleInv
  /\ InAdmins => AdminsInv
  /\ InOrgs => OrgsInv

LEMMA OneAtATime ==
  ASSUME mix \in Operations
  PROVE  ~(InPeople /\ InAdmins) /\ ~(InPeople /\ InOrgs) /\ ~(InAdmins /\ InOrgs)
  BY DEF Operations, PeopleOps, InPeople, InAdmins, InOrgs

(* Every reference of the three parts is to a row that is there, whichever *)
(* of them a behaviour uses.                                               *)
THEOREM PeopleTypes ==
  ASSUME Mixes \subseteq Operations
  PROVE  Spec => []TypeOK
  <1>1. Init => OneUsed
    <2>1. SUFFICES ASSUME Init PROVE OneUsed
      OBVIOUS
    <2>2. PeopleInv /\ AdminsInv /\ OrgsInv
      BY <2>1, PeopleBegins, AdminsBegin, OrgsBegin DEF Init
    <2>3. AdminsOK
      BY <2>1 DEF Init, AdminsInit, AdminsOK
    <2>4. mix \in Mixes
      BY <2>1 DEF Init, HandlersInit
    <2> QED BY <2>2, <2>3, <2>4 DEF OneUsed, TypeOK, PeopleInv, PeopleTables, OrgsInv, OrgTypes
  <1>2. OneUsed /\ [Next]_vars => OneUsed'
    <2>1. SUFFICES ASSUME OneUsed, [Next]_vars PROVE OneUsed'
      OBVIOUS
    <2>2. mix' = mix
      BY <2>1, PeopleSameMix, AdminsSameMix, OrgsSameMix DEF Next, vars
    <2>3. /\ mix \in Operations /\ mix' \in Mixes
          /\ InPeople' = InPeople /\ InAdmins' = InAdmins /\ InOrgs' = InOrgs
      BY <2>1, <2>2 DEF OneUsed, TypeOK, InPeople, InAdmins, InOrgs
    <2>4. CASE InPeople /\ PeopleNext /\ UNCHANGED <<adminVars, orgVars, mixed>>
      <3>1. PeopleInv'
        BY <2>1, <2>4, PeopleStays DEF OneUsed
      <3>2. AdminsOK' /\ OrgsOK'
        BY <2>1, <2>4 DEF OneUsed, TypeOK, AdminsOK, adminVars, OrgsOK, Existing, orgVars
      <3> QED BY <2>3, <2>4, <3>1, <3>2, OneAtATime
              DEF OneUsed, TypeOK, PeopleInv, PeopleTables
    <2>5. CASE InAdmins /\ AdminsNext /\ UNCHANGED <<peopleVars, orgVars, mixed>>
      <3>1. AdminsInv' /\ AdminsOK'
        BY <2>1, <2>5, AdminsStays, AdminsTyped DEF OneUsed, TypeOK
      <3>2. PeopleOK' /\ OrgsOK'
        BY <2>1, <2>5 DEF OneUsed, TypeOK, PeopleOK, peopleVars, OrgsOK, Existing, orgVars
      <3> QED BY <2>3, <2>5, <3>1, <3>2, OneAtATime DEF OneUsed, TypeOK
    <2>6. CASE InOrgs /\ OrgsNext /\ UNCHANGED <<peopleVars, adminVars>>
      <3>1. OrgsInv'
        BY <2>1, <2>6, OrgsStays DEF OneUsed
      <3>2. PeopleOK' /\ AdminsOK'
        BY <2>1, <2>6 DEF OneUsed, TypeOK, PeopleOK, peopleVars, AdminsOK, adminVars
      <3> QED BY <2>3, <2>6, <3>1, <3>2, OneAtATime DEF OneUsed, TypeOK, OrgsInv, OrgTypes
    <2>7. CASE UNCHANGED vars
      <3>1. TypeOK'
        BY <2>1, <2>7 DEF OneUsed, TypeOK, PeopleOK, peopleVars, AdminsOK, adminVars,
                          OrgsOK, Existing, orgVars, vars
      <3>2. (PeopleInv => PeopleInv') /\ (AdminsInv => AdminsInv') /\ (OrgsInv => OrgsInv')
        BY <2>7, PeopleStays, AdminsStays, OrgsStays DEF vars
      <3> QED BY <2>1, <2>3, <3>1, <3>2 DEF OneUsed
    <2> QED BY <2>1, <2>4, <2>5, <2>6, <2>7 DEF Next
  <1>3. OneUsed => TypeOK
    BY DEF OneUsed
  <1> QED BY <1>1, <1>2, <1>3, PTL DEF Spec

-----------------------------------------------------------------------------
(* A behaviour is one of the part it uses, and the others stay as they     *)
(* began.                                                                  *)
LEMMA PartUsed ==
  ASSUME mix \in Operations, [Next]_vars
  PROVE  /\ mix' = mix
         /\ IF InPeople THEN [PeopleNext]_<<mix, req, peopleVars>> ELSE UNCHANGED peopleVars
         /\ IF InAdmins THEN [AdminsNext]_<<mix, req, adminVars>> ELSE UNCHANGED adminVars
         /\ IF InOrgs THEN [OrgsNext]_<<mix, req, orgVars, mixed>>
                      ELSE UNCHANGED <<orgVars, mixed>>
  <1>1. CASE UNCHANGED vars
    BY <1>1 DEF vars
  <1>2. CASE Next
    BY <1>2, OneAtATime, PeopleSameMix, AdminsSameMix, OrgsSameMix DEF Next
  <1> QED BY <1>1, <1>2

LEMMA PersonInPeople ==
  ASSUME Mixes \subseteq Operations
  PROVE  Spec => MembershipLostOnlyBy /\ PhantomLeftOnlyBy
  <1>1. Init => HandlersInit /\ PeopleInit /\ mix \in Operations
    BY DEF Init, HandlersInit
  <1>2. mix \in Operations /\ InPeople /\ [Next]_vars =>
          /\ (mix \in Operations)' /\ InPeople'
          /\ [PeopleNext]_<<mix, req, peopleVars>>
    BY PartUsed DEF InPeople
  <1>3. mix \in Operations /\ ~InPeople /\ PeopleInit /\ [Next]_vars =>
          /\ (mix \in Operations)' /\ ~InPeople' /\ PeopleInit'
          /\ UNCHANGED peopleVars
    BY PartUsed DEF InPeople, peopleVars, PeopleInit
  <1>4. PeopleInit /\ UNCHANGED peopleVars =>
          [\A t \in Tenants :
               users[t] # 0 /\ users'[t] # users[t] =>
                 \/ "erase" \in mix /\ UNCHANGED req
                 \/ \E r \in Requests :
                      /\ Moves(r)
                      /\ \/ req[r].at = "unlink" /\ req[r].tenant = t
                         \/ req[r].at = "purge" /\ t \in joined[r]]_<<mix, req, peopleVars>>
    BY DEF peopleVars
  <1>5. PeopleInit /\ UNCHANGED peopleVars =>
          [~Phantom /\ Phantom' =>
               \/ mix \cap {"create", "flag"} # {} /\ UNCHANGED req
               \/ \E r \in Requests : /\ Moves(r) /\ req'[r] = Idle
                                      /\ UNCHANGED <<ident, users>>]_<<mix, req, peopleVars>>
    BY DEF peopleVars, PeopleInit, Phantom
  <1> QED BY <1>1, <1>2, <1>3, <1>4, <1>5, MembersStay, NoPhantomLeft, PTL
          DEF Spec, PeopleSpec, MembershipLostOnlyBy, PhantomLeftOnlyBy

LEMMA AdminsInPeople ==
  ASSUME Mixes \subseteq Operations
  PROVE  Spec => LastAdminLostOnlyBy
  <1>1. Init => HandlersInit /\ AdminsInit /\ mix \in Operations
    BY DEF Init, HandlersInit
  <1>2. mix \in Operations /\ InAdmins /\ [Next]_vars =>
          /\ (mix \in Operations)' /\ InAdmins'
          /\ [AdminsNext]_<<mix, req, adminVars>>
    BY PartUsed DEF InAdmins
  <1>3. mix \in Operations /\ ~InAdmins /\ [Next]_vars =>
          (mix \in Operations)' /\ ~InAdmins' /\ UNCHANGED adminVars
    BY PartUsed DEF InAdmins
  <1>4. UNCHANGED adminVars =>
          [Active # {} /\ Active' = {} =>
               \E r \in Requests :
                 /\ Moves(r)
                 /\ \/ req[r].op = "flag"
                    \/ req[r].at = "act" /\ req[r].seen # Active]_<<mix, req, adminVars>>
    BY DEF adminVars, Active
  <1> QED BY <1>1, <1>2, <1>3, <1>4, LastAdminStays, PTL
          DEF Spec, AdminsSpec, LastAdminLostOnlyBy

LEMMA OrgsInPeople ==
  ASSUME Mixes \subseteq Operations
  PROVE  Spec => []ScopeFollows /\ UnplacedOnlyBy
  <1> DEFINE Placed == \A u \in Members : rows[u] # {} /\ scope[u] \in rows[u]
  <1>1. Init => HandlersInit /\ OrgsInit /\ Placed /\ mix \in Operations
    BY DEF Init, HandlersInit, OrgsInit
  <1>2. mix \in Operations /\ InOrgs /\ [Next]_vars =>
          /\ (mix \in Operations)' /\ InOrgs'
          /\ [OrgsNext]_<<mix, req, orgVars, mixed>>
    BY PartUsed DEF InOrgs
  <1>3. mix \in Operations /\ ~InOrgs /\ Placed /\ [Next]_vars =>
          /\ (mix \in Operations)' /\ ~InOrgs' /\ Placed'
          /\ UNCHANGED orgVars
    BY PartUsed DEF InOrgs, orgVars
  <1>4. Placed => ScopeFollows
    BY DEF ScopeFollows
  <1>5. Placed /\ UNCHANGED orgVars =>
          [\A u \in Members : ~Unplaced(u) /\ Unplaced(u)' =>
               \E r \in Requests :
                 /\ Moves(r)
                 /\ \/ req[r].at # "cascade" /\ req[r].user = u /\ UNCHANGED rows
                    \/ req[r].at = "cascade" /\ (u \in mixed \/ req[r].to = {})]_<<mix, req, orgVars>>
    BY DEF orgVars, Unplaced
  <1> QED BY <1>1, <1>2, <1>3, <1>4, <1>5, ScopesFollow, PlacedUnless, PTL
          DEF Spec, OrgsSpec, UnplacedOnlyBy

(* Whichever of the three a behaviour uses, memberships, identities, the   *)
(* last super admin and the places in sub-organisations are lost, and the  *)
(* cached scope parts from them, only for the reasons named.               *)
THEOREM PeoplePromises ==
  ASSUME Mixes \subseteq Operations
  PROVE  Spec => /\ []ScopeFollows
                 /\ MembershipLostOnlyBy /\ PhantomLeftOnlyBy
                 /\ LastAdminLostOnlyBy /\ UnplacedOnlyBy
  BY PersonInPeople, AdminsInPeople, OrgsInPeople, PTL
=============================================================================
