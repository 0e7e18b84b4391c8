-------------------------- MODULE Membership_proofs --------------------------
(***************************************************************************)
(* What the schema keeps true of users, members and assignees for any      *)
(* number of concurrent requests, and what the checks in the handlers keep *)
(* true where requests do not overlap.                                     *)
(***************************************************************************)
EXTENDS Membership, FiniteSetTheorems, TLAPS

\* An update of a user writes back an account that existed.
ReadAccountLive ==
  \A r \in Requests : req[r].pc = "read" /\ req[r].call.op = "updateUser" =>
    req[r].account \in Live

UInv == TypeOK /\ OnlyUsers /\ ReadAccountLive

\* A request's record has the fields of the step it is at.
LEMMA AllowedShape ==
  ASSUME TypeOK, NEW r \in Requests, req[r].pc = "allowed"
  PROVE  req[r].call \in Calls
<1>1. req[r] \in Request
  BY DEF TypeOK
<1> QED
  BY <1>1 DEF Request, Idle

LEMMA ReadShape ==
  ASSUME TypeOK, NEW r \in Requests, req[r].pc = "read"
  PROVE  /\ req[r].call \in Calls
         /\ req[r].account \in NoOne \cup Live
         /\ req[r].more \in BOOLEAN
         /\ req[r].tasks \subseteq Tasks
         /\ req[r].users \subseteq Users
<1>1. req[r] \in Request
  BY DEF TypeOK
<1> QED
  BY <1>1 DEF Request, Idle

LEMMA CallShape ==
  ASSUME NEW c \in Calls
  PROVE  /\ c.user \in Users
         /\ c.op = "createUser" => c.to \in Live
         /\ c.op = "updateUser" => c.to \in Live \cup {"keep"}
         /\ c.op \in {"addMember", "setRole"} => c.to \in Roles
         /\ c.op \in {"deleteUser", "removeMember"} => c.to = "-"
         /\ c.op \in {"assign", "spawn"} => c.task \in Tasks
BY DEF Calls

-----------------------------------------------------------------------------
LEMMA UInit == Init => UInv
<1> SUFFICES ASSUME Init PROVE UInv
  OBVIOUS
<1>1. TypeOK
  BY DEF Init, TypeOK, Request, Idle, NoOne, Live
<1>2. OnlyUsers
  BY DEF Init, OnlyUsers, Members, NoOne, Live
<1>3. ReadAccountLive
  BY DEF Init, ReadAccountLive, Idle
<1> QED
  BY <1>1, <1>2, <1>3 DEF UInv

\* Authorising, reading and refusing change no table.
LEMMA UTurns ==
  ASSUME UInv, NEW r \in Requests,
         \/ \E by \in Users, c \in Calls : Authorize(r, by, c)
         \/ Read(r)
         \/ Refuse(r)
  PROVE  UInv'
<1>1. TypeOK'
  <2>1. CASE \E by \in Users, c \in Calls : Authorize(r, by, c)
    BY <2>1 DEF UInv, TypeOK, Authorize, Request, tables
  <2>2. CASE Read(r)
    <3>1. /\ req[r].call \in Calls
          /\ req[r].call.user \in Users
          /\ req[r].call.op = "spawn" => req[r].call.task \in Tasks
      BY <2>2, AllowedShape, CallShape DEF Read, UInv
    <3>2. req'[r] \in Request
      BY <2>2, <3>1 DEF UInv, TypeOK, Read, Request, NoOne, Live
    <3> QED
      BY <2>2, <3>2 DEF UInv, TypeOK, Read, tables
  <2>3. CASE Refuse(r)
    BY <2>3 DEF UInv, TypeOK, Refuse, Request, Idle, tables
  <2> QED
    BY <2>1, <2>2, <2>3
<1>2. OnlyUsers'
  BY DEF UInv, OnlyUsers, Authorize, Read, Refuse, tables
<1>3. ReadAccountLive'
  <2> USE DEF UInv, TypeOK, ReadAccountLive
  <2>1. CASE \E by \in Users, c \in Calls : Authorize(r, by, c)
    BY <2>1 DEF Authorize, tables
  <2>2. CASE Read(r)
    <3>1. req[r].call.op = "updateUser" => account[req[r].call.user] \in Live
      BY <2>2 DEF Read, Found, tables
    <3>2. /\ req'[r].call = req[r].call
          /\ req[r].call.op = "updateUser" =>
               req'[r].account = account[req[r].call.user]
      BY <2>2 DEF Read
    <3>3. \A s \in Requests : s # r => req'[s] = req[s]
      BY <2>2 DEF Read
    <3> QED
      BY <3>1, <3>2, <3>3
  <2>3. CASE Refuse(r)
    BY <2>3 DEF Refuse, Idle, tables
  <2> QED
    BY <2>1, <2>2, <2>3
<1> QED
  BY <1>1, <1>2, <1>3 DEF UInv

LEMMA UWrite ==
  ASSUME UInv, NEW r \in Requests, Write(r)
  PROVE  UInv'
<1> DEFINE q == req[r]
           c == q.call
<1>0. /\ q.pc = "read"
      /\ req' = [req EXCEPT ![r] = Idle]
  BY DEF Write
<1>1. /\ c \in Calls
      /\ q.users \subseteq Users
      /\ c.user \in Users
  BY <1>0, ReadShape, CallShape DEF UInv
<1>2. /\ req' \in [Requests -> Request]
      /\ overlap' \in BOOLEAN
  BY <1>0 DEF UInv, TypeOK, Request, Write
<1>3. ReadAccountLive'
  BY <1>0 DEF UInv, TypeOK, ReadAccountLive, Idle
<1> DEFINE Tables == /\ account' \in [Users -> NoOne \cup Live]
                     /\ role' \in [Users -> Roles \cup {NoRole}]
                     /\ assigned' \in [Tasks -> SUBSET Users]
<1>4. Tables /\ OnlyUsers'
  <2> USE DEF UInv, TypeOK, OnlyUsers
  <2>1. CASE c.op = "createUser" /\ CreateUser(c)
    BY <1>1, <2>1, CallShape DEF CreateUser, NoOne
  <2>2. CASE c.op = "updateUser" /\ UpdateUser(c, q.account)
    <3>1. NewAccount(c, q.account) \in Live
      BY <1>0, <1>1, <2>2, CallShape DEF NewAccount, ReadAccountLive
    <3> QED
      BY <1>1, <2>2, <3>1 DEF UpdateUser, NoOne, Live
  <2>3. CASE c.op = "deleteUser" /\ DeleteUser(c)
    BY <1>1, <2>3 DEF DeleteUser, Unassigned, NoOne
  <2>4. CASE c.op = "addMember" /\ CreateSpaceMember(c)
    BY <1>1, <2>4, CallShape DEF CreateSpaceMember, NoOne, Live
  <2>5. CASE c.op = "setRole" /\ UpdateSpaceMemberRole(c, q.more)
    BY <1>1, <2>5, CallShape DEF UpdateSpaceMemberRole
  <2>6. CASE c.op = "removeMember" /\ DeleteSpaceMember(c, q.more, q.tasks)
    BY <1>1, <2>6 DEF DeleteSpaceMember, WithoutMember
  <2>7. CASE c.op = "assign" /\ SetTaskAssignees(c)
    BY <1>1, <2>7, CallShape DEF SetTaskAssignees, NoOne, Live
  <2>8. CASE c.op = "spawn" /\ SpawnTaskFromTemplate(c, q.users)
    BY <1>1, <2>8 DEF SpawnTaskFromTemplate, NoOne, Live
  <2> QED
    BY <2>1, <2>2, <2>3, <2>4, <2>5, <2>6, <2>7, <2>8 DEF Write
<1> QED
  BY <1>2, <1>3, <1>4 DEF UInv, TypeOK

LEMMA UNext == UInv /\ [Next]_vars => UInv'
<1> SUFFICES ASSUME UInv, [Next]_vars PROVE UInv'
  OBVIOUS
<1>1. CASE Next
  BY <1>1, UTurns, UWrite DEF Next
<1>2. CASE UNCHANGED vars
  BY <1>2 DEF UInv, TypeOK, OnlyUsers, ReadAccountLive, vars, tables
<1> QED
  BY <1>1, <1>2

\* Every variable keeps its type, for any users, tasks and number of requests.
THEOREM MembershipTypeCorrect == Spec => []TypeOK
<1>1. UInv => TypeOK
  BY DEF UInv
<1> QED
  BY <1>1, UInit, UNext, PTL DEF Spec

\* However many requests run at once, a deleted user is no member and has no
\* task: what the schema's foreign keys and cascades guarantee by themselves.
THEOREM OnlyUsersAlways == Spec => []OnlyUsers
<1>1. UInv => OnlyUsers
  BY DEF UInv
<1> QED
  BY <1>1, UInit, UNext, PTL DEF Spec
-----------------------------------------------------------------------------
(***************************************************************************)
(* Where requests do not overlap, what a request has read is still so when *)
(* it writes, and its checks are enough.                                   *)
(***************************************************************************)
OneAtATime == \A r, s \in Requests :
  req[r].pc # "idle" /\ req[s].pc # "idle" => r = s

ReadIsCurrent ==
  \A r \in Requests : req[r].pc = "read" =>
    LET c == req[r].call
    IN  /\ c.op \in {"updateUser", "deleteUser"} => SparesLastOwner(c)
        /\ c.op = "updateUser" => req[r].account = account[c.user]
        /\ c.op \in {"setRole", "removeMember"} =>
             (req[r].more <=> MoreThanOne(Admins))
        /\ c.op = "assign" => role[c.user] # NoRole
        /\ c.op = "removeMember" =>
             req[r].tasks = {t \in Tasks : c.user \in assigned[t]}
        /\ c.op = "spawn" => req[r].users = assigned[c.task]

CInv == UInv /\ (~ overlap => OneAtATime /\ ReadIsCurrent)

\* Once requests have overlapped, they have.
LEMMA OverlapStays ==
  ASSUME TypeOK, [Next]_vars, ~ overlap'
  PROVE  ~ overlap
<1>1. ASSUME NEW r \in Requests, Write(r) PROVE ~ overlap
  BY <1>1 DEF Write
<1> QED
  BY <1>1 DEF Next, Authorize, Read, Refuse, vars

LEMMA CurrentNext ==
  ASSUME CInv, [Next]_vars, ~ overlap'
  PROVE  OneAtATime' /\ ReadIsCurrent'
<1>0. UInv /\ OneAtATime /\ ReadIsCurrent /\ ~ overlap
  BY OverlapStays DEF CInv, UInv
<1> USE <1>0
<1>1. ASSUME NEW r \in Requests, NEW by \in Users, NEW c \in Calls,
             Authorize(r, by, c)
      PROVE  OneAtATime' /\ ReadIsCurrent'
  <2>1. \A s \in Requests : s # r => req'[s].pc = "idle"
    BY <1>1 DEF UInv, TypeOK, Authorize
  <2>2. req'[r].pc = "allowed"
    BY <1>1 DEF UInv, TypeOK, Authorize
  <2> QED
    BY <2>1, <2>2 DEF OneAtATime, ReadIsCurrent
<1>2. ASSUME NEW r \in Requests, Read(r)
      PROVE  OneAtATime' /\ ReadIsCurrent'
  <2> DEFINE c == req[r].call
  <2>1. /\ c \in Calls
        /\ c.user \in Users
        /\ c.op \in {"assign", "spawn"} => c.task \in Tasks
    BY <1>2, AllowedShape, CallShape DEF Read, UInv
  <2>2. /\ c.op \in {"updateUser", "deleteUser"} => SparesLastOwner(c)
        /\ c.op = "assign" => role[c.user] # NoRole
    BY <1>2 DEF Read, Found
  <2>3. /\ req'[r].call = c
        /\ c.op = "updateUser" => req'[r].account = account[c.user]
        /\ c.op \in {"setRole", "removeMember"} =>
             (req'[r].more <=> MoreThanOne(Admins))
        /\ c.op = "removeMember" =>
             req'[r].tasks = {t \in Tasks : c.user \in assigned[t]}
    BY <1>2 DEF UInv, TypeOK, Read
  <2>4. c.op = "spawn" => req'[r].users = assigned[c.task]
    <3>1. req'[r].users = {u \in Users : c.op = "spawn" /\ u \in assigned[c.task]}
      BY <1>2 DEF UInv, TypeOK, Read
    <3>2. c.op = "spawn" => assigned[c.task] \subseteq Users
      BY <2>1 DEF UInv, TypeOK
    <3> QED
      BY <3>1, <3>2
  <2>5. UNCHANGED <<account, role, assigned>>
    BY <1>2 DEF Read, tables
  <2>6. \A s \in Requests : s # r => req'[s].pc = "idle"
    BY <1>2 DEF UInv, TypeOK, Read, OneAtATime
  <2>7. ReadIsCurrent'
    BY <2>2, <2>3, <2>4, <2>5, <2>6 DEF ReadIsCurrent, SparesLastOwner,
                                        MoreThanOne, Owners, Admins
  <2> QED
    BY <2>6, <2>7 DEF OneAtATime
<1>3. ASSUME NEW r \in Requests, Write(r) \/ Refuse(r)
      PROVE  OneAtATime' /\ ReadIsCurrent'
  <2>1. /\ req' = [req EXCEPT ![r] = Idle]
        /\ req[r].pc # "idle"
    BY <1>3 DEF Write, Refuse
  <2>2. \A s \in Requests : req'[s].pc = "idle"
    BY <2>1 DEF UInv, TypeOK, OneAtATime, Idle
  <2> QED
    BY <2>2 DEF OneAtATime, ReadIsCurrent
<1>4. CASE UNCHANGED vars
  BY <1>4 DEF OneAtATime, ReadIsCurrent, SparesLastOwner, MoreThanOne, Owners,
              Admins, vars, tables
<1> QED
  BY <1>1, <1>2, <1>3, <1>4 DEF Next

LEMMA CInit == Init => CInv
BY UInit DEF CInv, OneAtATime, ReadIsCurrent, Init, Idle

LEMMA CNext == CInv /\ [Next]_vars => CInv'
BY UNext, CurrentNext DEF CInv

\* Of more than one there is another.
LEMMA Another ==
  ASSUME NEW S \in SUBSET Users, MoreThanOne(S), NEW u
  PROVE  \E v \in S : v # u
<1>1. SUFFICES ASSUME S \subseteq {u} PROVE FALSE
  OBVIOUS
<1>2. /\ IsFiniteSet({u})
      /\ Cardinality({u}) = 1
  BY FS_Singleton
<1>3. /\ IsFiniteSet(S)
      /\ Cardinality(S) <= 1
      /\ Cardinality(S) \in Nat
  BY <1>1, <1>2, FS_Subset, FS_CardinalityType
<1> QED
  BY <1>3 DEF MoreThanOne

-----------------------------------------------------------------------------
LEMMA OwnerLeftNext ==
  ASSUME CInv, OwnerLeft, [Next]_vars, ~ overlap
  PROVE  OwnerLeft'
<1>0. account \in [Users -> NoOne \cup Live]
  BY DEF CInv, UInv, TypeOK
<1>1. ASSUME NEW r \in Requests, Write(r) PROVE OwnerLeft'
  <2> DEFINE c == req[r].call
  <2>1. /\ c \in Calls
        /\ c.user \in Users
        /\ req[r].pc = "read"
    BY <1>1, ReadShape, CallShape DEF Write, CInv, UInv
  <2>2. CASE \E to : account' = [account EXCEPT ![c.user] = to] /\ SparesLastOwner(c)
                     /\ ~ (c.op = "updateUser" /\ c.to # "user")
    <3>1. \E v \in Owners : v # c.user
      <4>1. CASE account[c.user] # "owner"
        BY <4>1 DEF OwnerLeft, Owners
      <4>2. CASE MoreThanOne(Owners)
        BY <4>2, Another DEF Owners
      <4> QED
        BY <2>2, <4>1, <4>2 DEF SparesLastOwner
    <3> QED
      BY <1>0, <2>2, <3>1 DEF OwnerLeft, Owners
  <2>3. CASE c.op = "createUser" /\ CreateUser(c)
    BY <1>0, <2>1, <2>3 DEF CreateUser, OwnerLeft, Owners
  <2>4. CASE c.op = "updateUser" /\ UpdateUser(c, req[r].account) /\ c.to # "user"
    <3>1. NewAccount(c, req[r].account) \in {"owner", account[c.user]}
      BY <2>1, <2>4, CallShape DEF NewAccount, CInv, ReadIsCurrent, Live
    <3> QED
      BY <1>0, <2>1, <2>4, <3>1 DEF UpdateUser, OwnerLeft, Owners
  <2>5. CASE UNCHANGED account
    BY <2>5 DEF OwnerLeft, Owners
  <2>6. CASE \/ c.op = "updateUser" /\ UpdateUser(c, req[r].account) /\ c.to = "user"
             \/ c.op = "deleteUser" /\ DeleteUser(c)
    <3>1. SparesLastOwner(c)
      BY <2>1, <2>6 DEF CInv, ReadIsCurrent
    <3> QED
      BY <2>2, <2>6, <3>1 DEF UpdateUser, DeleteUser
  <2> QED
    BY <1>1, <2>3, <2>4, <2>5, <2>6
    DEF Write, CreateSpaceMember, UpdateSpaceMemberRole, DeleteSpaceMember,
        SetTaskAssignees, SpawnTaskFromTemplate
<1>2. CASE UNCHANGED account
  BY <1>2 DEF OwnerLeft, Owners
<1> QED
  BY <1>1, <1>2 DEF Next, Authorize, Read, Refuse, vars, tables

\* As long as requests do not overlap, the server keeps an owner: counting
\* the owners before a demotion or a deletion is enough.
THEOREM OwnerLeftWithoutOverlap == Spec => []OwnerLeftInTurn
<1>1. Init => OwnerLeftInTurn
  BY DEF Init, OwnerLeft, OwnerLeftInTurn
<1>2. CInv /\ OwnerLeftInTurn /\ [Next]_vars => OwnerLeftInTurn'
  BY OverlapStays, OwnerLeftNext DEF OwnerLeftInTurn, CInv, UInv
<1> QED
  BY <1>1, <1>2, CInit, CNext, PTL DEF Spec

-----------------------------------------------------------------------------
LEMMA AdminKeptNext ==
  ASSUME CInv, [Next]_vars, ~ overlap
  PROVE  AdminStays
<1> SUFFICES ASSUME Admins # {}, \A u \in Users : account'[u] = account[u]
             PROVE  Admins' # {}
  BY DEF AdminStays
<1>0. /\ role \in [Users -> Roles \cup {NoRole}]
      /\ account \in [Users -> NoOne \cup Live]
  BY DEF CInv, UInv, TypeOK
<1>1. ASSUME NEW r \in Requests, Write(r) PROVE Admins' # {}
  <2> DEFINE c == req[r].call
  <2>1. /\ c \in Calls
        /\ c.user \in Users
        /\ req[r].pc = "read"
    BY <1>1, ReadShape, CallShape DEF Write, CInv, UInv
  <2>2. CASE \/ c.op = "setRole" /\ UpdateSpaceMemberRole(c, req[r].more)
             \/ c.op = "removeMember"
                /\ DeleteSpaceMember(c, req[r].more, req[r].tasks)
    <3>1. LeavesAdmin(c, MoreThanOne(Admins))
      BY <2>1, <2>2 DEF CInv, ReadIsCurrent, UpdateSpaceMemberRole,
                        DeleteSpaceMember, LeavesAdmin
    <3>2. \E to : role' = [role EXCEPT ![c.user] = to]
                  /\ (c.to = "admin" => to = "admin")
      BY <2>1, <2>2, CallShape DEF UpdateSpaceMemberRole, DeleteSpaceMember
    <3>3. CASE c.to = "admin"
      BY <1>0, <2>1, <3>2, <3>3 DEF Admins
    <3>4. CASE \E v \in Admins : v # c.user
      BY <1>0, <2>1, <3>2, <3>4 DEF Admins
    <3>5. CASE role[c.user] # "admin"
      BY <3>4, <3>5 DEF Admins
    <3>6. CASE MoreThanOne(Admins)
      BY <3>4, <3>6, Another DEF Admins
    <3> QED
      BY <3>1, <3>3, <3>5, <3>6 DEF LeavesAdmin
  <2>3. CASE c.op = "addMember" /\ CreateSpaceMember(c)
    BY <1>0, <2>1, <2>3 DEF CreateSpaceMember, Admins, NoRole
  <2>4. CASE c.op = "deleteUser" /\ DeleteUser(c)
    BY <1>0, <2>1, <2>4 DEF DeleteUser, Live
  <2>5. CASE UNCHANGED role
    BY <2>5 DEF Admins
  <2> QED
    BY <1>1, <2>2, <2>3, <2>4, <2>5
    DEF Write, CreateUser, UpdateUser, SetTaskAssignees, SpawnTaskFromTemplate
<1>2. CASE UNCHANGED role
  BY <1>2 DEF Admins
<1> QED
  BY <1>1, <1>2 DEF Next, Authorize, Read, Refuse, vars, tables

\* As long as requests do not overlap, changes of members keep an admin.
THEOREM AdminKeptWithoutOverlap == Spec => AdminKeptInTurn
<1>1. CInv /\ [Next]_vars => (~ overlap' => AdminStays)
  BY OverlapStays, AdminKeptNext DEF CInv, UInv
<1> QED
  BY <1>1, CInit, CNext, PTL DEF Spec, AdminKeptInTurn

-----------------------------------------------------------------------------
LEMMA StatusAskedNext ==
  ASSUME CInv, [Next]_vars, ~ overlap
  PROVE  StatusAsked
<1> SUFFICES ASSUME NEW u \in Users, account[u] \in Live,
                    account'[u] \in Live, account'[u] # account[u]
             PROVE  \E r \in Requests :
                      /\ req[r].pc = "read" /\ req'[r].pc = "idle"
                      /\ req[r].call.op = "updateUser"
                      /\ req[r].call.user = u
                      /\ req[r].call.to = account'[u]
  BY DEF StatusAsked
<1>0. account \in [Users -> NoOne \cup Live]
  BY DEF CInv, UInv, TypeOK
<1>1. PICK r \in Requests : Write(r)
  BY DEF Next, Authorize, Read, Refuse, vars, tables
<1> DEFINE c == req[r].call
<1>2. /\ req[r].pc = "read"
      /\ req'[r].pc = "idle"
      /\ c \in Calls
      /\ c.user \in Users
  BY <1>1, ReadShape, CallShape DEF Write, Idle, CInv, UInv, TypeOK
<1>3. CASE c.op = "updateUser" /\ UpdateUser(c, req[r].account)
  BY <1>0, <1>2, <1>3 DEF UpdateUser, NewAccount, CInv, ReadIsCurrent
<1>4. CASE c.op = "createUser" /\ CreateUser(c)
  BY <1>0, <1>2, <1>4 DEF CreateUser, Live
<1>5. CASE c.op = "deleteUser" /\ DeleteUser(c)
  BY <1>0, <1>2, <1>5 DEF DeleteUser, Live
<1>6. CASE UNCHANGED account
  BY <1>6
<1> QED
  BY <1>1, <1>3, <1>4, <1>5, <1>6
  DEF Write, CreateSpaceMember, UpdateSpaceMemberRole, DeleteSpaceMember,
      SetTaskAssignees, SpawnTaskFromTemplate

\* As long as requests do not overlap, owner status changes on request only.
THEOREM StatusAskedWithoutOverlap == Spec => StatusAskedInTurn
<1>1. CInv /\ [Next]_vars => (~ overlap' => StatusAsked)
  BY OverlapStays, StatusAskedNext DEF CInv, UInv
<1> QED
  BY <1>1, CInit, CNext, PTL DEF Spec, StatusAskedInTurn

-----------------------------------------------------------------------------
LEMMA AssigneesNext ==
  ASSUME CInv, AssigneesAreMembers, [Next]_vars, ~ overlap
  PROVE  AssigneesAreMembers'
<1>0. /\ role \in [Users -> Roles \cup {NoRole}]
      /\ assigned \in [Tasks -> SUBSET Users]
  BY DEF CInv, UInv, TypeOK
<1>1. ASSUME NEW r \in Requests, Write(r) PROVE AssigneesAreMembers'
  <2> USE DEF AssigneesAreMembers, Members
  <2> DEFINE c == req[r].call
  <2>1. /\ c \in Calls
        /\ c.user \in Users
        /\ c.op \in {"assign", "spawn"} => c.task \in Tasks
        /\ req[r].pc = "read"
    BY <1>1, ReadShape, CallShape DEF Write, CInv, UInv
  <2>2. CASE c.op = "deleteUser" /\ DeleteUser(c)
    BY <1>0, <2>1, <2>2 DEF DeleteUser, Unassigned
  <2>3. CASE c.op = "addMember" /\ CreateSpaceMember(c)
    BY <1>0, <2>1, <2>3, CallShape DEF CreateSpaceMember, Roles, NoRole
  <2>4. CASE c.op = "setRole" /\ UpdateSpaceMemberRole(c, req[r].more)
    BY <1>0, <2>1, <2>4, CallShape DEF UpdateSpaceMemberRole, Roles, NoRole
  <2>5. CASE c.op = "removeMember" /\ DeleteSpaceMember(c, req[r].more, req[r].tasks)
    <3>1. \A t \in Tasks : assigned'[t] = assigned[t] \ {c.user}
      BY <2>1, <2>5 DEF CInv, ReadIsCurrent, DeleteSpaceMember, WithoutMember
    <3> QED
      BY <1>0, <2>1, <2>5, <3>1 DEF DeleteSpaceMember
  <2>6. CASE c.op = "assign" /\ SetTaskAssignees(c)
    BY <1>0, <2>1, <2>6 DEF SetTaskAssignees, CInv, ReadIsCurrent
  <2>7. CASE c.op = "spawn" /\ SpawnTaskFromTemplate(c, req[r].users)
    <3>1. req[r].users \subseteq Members
      BY <2>1, <2>7 DEF CInv, ReadIsCurrent
    <3> QED
      BY <1>0, <2>7, <3>1 DEF SpawnTaskFromTemplate
  <2>8. CASE UNCHANGED <<role, assigned>>
    BY <2>8
  <2> QED
    BY <1>1, <2>2, <2>3, <2>4, <2>5, <2>6, <2>7, <2>8
    DEF Write, CreateUser, UpdateUser
<1>2. CASE UNCHANGED <<role, assigned>>
  BY <1>2 DEF AssigneesAreMembers, Members
<1> QED
  BY <1>1, <1>2 DEF Next, Authorize, Read, Refuse, vars, tables

\* As long as requests do not overlap, tasks are assigned to members only.
THEOREM AssigneesWithoutOverlap == Spec => []AssigneesInTurn
<1>1. Init => AssigneesInTurn
  BY DEF Init, AssigneesAreMembers, AssigneesInTurn
<1>2. CInv /\ AssigneesInTurn /\ [Next]_vars => AssigneesInTurn'
  BY OverlapStays, AssigneesNext DEF AssigneesInTurn, CInv, UInv
<1> QED
  BY <1>1, <1>2, CInit, CNext, PTL DEF Spec

-----------------------------------------------------------------------------
(***************************************************************************)
(* The refinement of Roster.                                               *)
(***************************************************************************)
InTurn == ~ overlap => OwnerLeft /\ AssigneesAreMembers

\* The guards that depend on overlap, for any step.
LEMMA Remains ==
  ASSUME CInv, InTurn, [Next]_vars
  PROVE  /\ RO!OwnerRemains
         /\ (\A u \in Users : account'[u] = account[u]) => RO!AdminRemains
<1>1. RO!OwnerRemains
  BY OwnerLeftNext DEF InTurn, OwnerLeft, RO!OwnerRemains, RO!Owners, Owners
<1>2. ASSUME \A u \in Users : account'[u] = account[u] PROVE RO!AdminRemains
  BY <1>2, AdminKeptNext DEF AdminStays, RO!AdminRemains, RO!Admins, Admins
<1> QED
  BY <1>1, <1>2

\* Every write is one action of Roster.
LEMMA WriteIsOneStep ==
  ASSUME CInv, InTurn, NEW r \in Requests, Write(r)
  PROVE  RO!Next
<1> DEFINE c == req[r].call
<1>0. /\ account \in [Users -> NoOne \cup Live]
      /\ role \in [Users -> Roles \cup {NoRole}]
      /\ assigned \in [Tasks -> SUBSET Users]
      /\ OnlyUsers
  BY DEF CInv, UInv, TypeOK
<1>1. /\ c \in Calls /\ c.user \in Users
      /\ req[r].pc = "read" /\ req[r].account \in NoOne \cup Live
      /\ req[r].tasks \subseteq Tasks /\ req[r].users \subseteq Users
      /\ UNCHANGED overlap
  BY ReadShape, CallShape DEF Write, CInv, UInv
<1>2. /\ RO!OwnerRemains
      /\ (\A u \in Users : account'[u] = account[u]) => RO!AdminRemains
  <2>1. [Next]_vars
    BY DEF Next
  <2> QED
    BY <2>1, Remains
<1>3. RO!Known = {u \in Users : account[u] \in Live}
  BY DEF RO!Known, Live
<1>4. RO!Members = Members
  BY DEF RO!Members, Members, NoRole
<1>5. CASE c.op = "createUser" /\ CreateUser(c)
  <2>1. RO!Enrol(c.user)
    BY <1>1, <1>5, CallShape DEF CreateUser, RO!Enrol, Live
  <2> QED
    BY <1>1, <2>1 DEF RO!Next
<1>6. CASE c.op = "updateUser" /\ UpdateUser(c, req[r].account)
  <2>1. NewAccount(c, req[r].account) \in Live
    BY <1>1, <1>6, CallShape DEF CInv, UInv, ReadAccountLive, NewAccount
  <2>2. RO!SetOwner(c.user)
    BY <1>1, <1>2, <1>3, <1>6, <2>1 DEF UpdateUser, RO!SetOwner, Live
  <2> QED
    BY <1>1, <2>2 DEF RO!Next
<1>7. CASE c.op = "deleteUser" /\ DeleteUser(c)
  <2>1. RO!Remove(c.user)
    BY <1>1, <1>2, <1>3, <1>7 DEF DeleteUser, Unassigned, NoRole, RO!Remove
  <2> QED
    BY <1>1, <2>1 DEF RO!Next
<1>8. CASE \/ c.op = "addMember" /\ CreateSpaceMember(c)
           \/ c.op = "setRole" /\ UpdateSpaceMemberRole(c, req[r].more)
  <2>1. c.user \in RO!Known
    BY <1>0, <1>1, <1>3, <1>8 DEF CreateSpaceMember, UpdateSpaceMemberRole,
                                  OnlyUsers
  <2>2. c.to \in {"viewer", "member", "admin"}
    BY <1>1, <1>8, CallShape DEF Roles
  <2>3. RO!SetRole(c.user)
    BY <1>1, <1>2, <1>8, <2>1, <2>2
       DEF CreateSpaceMember, UpdateSpaceMemberRole, RO!SetRole
  <2> QED
    BY <1>1, <2>3 DEF RO!Next
<1>9. CASE c.op = "removeMember" /\ DeleteSpaceMember(c, req[r].more, req[r].tasks)
  <2> DEFINE stays == IF overlap THEN Tasks \ req[r].tasks ELSE {}
  <2>1. /\ c.user \in RO!Members
        /\ role' = [role EXCEPT ![c.user] = "none"]
        /\ UNCHANGED account
    BY <1>1, <1>4, <1>9 DEF DeleteSpaceMember, Members, NoRole
  <2>2. assigned' = [t \in Tasks |-> IF t \in stays THEN assigned[t]
                                                  ELSE assigned[t] \ {c.user}]
    <3>1. assigned' = [t \in Tasks |-> IF t \in req[r].tasks
                                       THEN assigned[t] \ {c.user} ELSE assigned[t]]
      BY <1>9 DEF DeleteSpaceMember, WithoutMember
    <3>2. CASE overlap
      BY <3>1, <3>2
    <3>3. CASE ~ overlap
      <4>1. req[r].tasks = {t \in Tasks : c.user \in assigned[t]}
        BY <1>1, <1>9, <3>3 DEF CInv, ReadIsCurrent
      <4> QED
        BY <1>0, <3>1, <3>3, <4>1
    <3> QED
      BY <3>2, <3>3
  <2>3. stays \in SUBSET Tasks /\ (stays = {} \/ overlap)
    OBVIOUS
  <2> HIDE DEF stays
  <2>4. RO!Leave(c.user)
    BY <1>1, <1>2, <2>1, <2>2, <2>3 DEF RO!Leave
  <2> QED
    BY <1>1, <2>4 DEF RO!Next
<1>10. CASE c.op = "assign" /\ SetTaskAssignees(c)
  <2>1. c.task \in Tasks
    BY <1>1, <1>10, CallShape
  <2>2. {c.user} \in SUBSET RO!Known /\ ({c.user} \subseteq Members \/ overlap)
    BY <1>1, <1>3, <1>10 DEF SetTaskAssignees, CInv, ReadIsCurrent, Members
  <2>3. RO!Assign(c.task)
    BY <1>1, <1>4, <1>10, <2>2 DEF SetTaskAssignees, RO!Assign
  <2> QED
    BY <2>1, <2>3 DEF RO!Next
<1>11. CASE c.op = "spawn" /\ SpawnTaskFromTemplate(c, req[r].users)
  <2>1. PICK t \in Tasks : assigned' = [assigned EXCEPT ![t] = req[r].users]
    BY <1>11 DEF SpawnTaskFromTemplate
  <2>2. req[r].users \in SUBSET RO!Known
    BY <1>1, <1>3, <1>11 DEF SpawnTaskFromTemplate
  <2>3. req[r].users \subseteq Members \/ overlap
    <3>1. c.task \in Tasks
      BY <1>1, <1>11, CallShape
    <3> QED
      BY <1>1, <1>11, <3>1 DEF CInv, ReadIsCurrent, InTurn, AssigneesAreMembers
  <2>4. RO!Assign(t)
    BY <1>1, <1>4, <1>11, <2>1, <2>2, <2>3 DEF SpawnTaskFromTemplate, RO!Assign
  <2> QED
    BY <2>4 DEF RO!Next
<1> QED
  BY <1>5, <1>6, <1>7, <1>8, <1>9, <1>10, <1>11 DEF Write

\* The requests on users, members and assignments implement Roster: what a
\* request reads, decides and writes in several statements is one step on one
\* user or one task, with every promise kept in turn; overlapping requests
\* lose the promises about owners, admins and assignees and no more.
THEOREM ImplementsRoster == Spec => RosterKept
<1>1. Init => RO!Init
  <2> SUFFICES ASSUME Init PROVE RO!Init
    OBVIOUS
  <2>1. Owners = RO!Owners /\ Admins = RO!Admins /\ Members = RO!Members
        /\ RO!Known = {u \in Users : account[u] \in Live}
    BY DEF Owners, RO!Owners, Admins, RO!Admins, Members, RO!Members, NoRole,
           RO!Known, Live
  <2> QED
    BY <2>1 DEF Init, RO!Init, Members
<1>2. Init => InTurn
  BY DEF Init, InTurn, OwnerLeft, AssigneesAreMembers
<1>3. CInv /\ InTurn /\ [Next]_vars => InTurn'
  BY OverlapStays, OwnerLeftNext, AssigneesNext DEF InTurn, CInv, UInv
<1>4. CInv /\ InTurn /\ [Next]_vars
        => [RO!Next]_<<account, role, assigned, overlap>>
  <2> SUFFICES ASSUME CInv, InTurn, [Next]_vars
               PROVE  \/ RO!Next
                      \/ UNCHANGED <<account, role, assigned, overlap>>
    OBVIOUS
  <2>1. CASE \E r \in Requests : Write(r)
    BY <2>1, WriteIsOneStep
  <2>2. CASE \E r \in Requests, by \in Users, c \in Calls : Authorize(r, by, c)
    <3>1. UNCHANGED <<account, role, assigned>> /\ (overlap' \/ overlap' = overlap)
      <4>1. overlap \in BOOLEAN
        BY DEF CInv, UInv, TypeOK
      <4> QED
        BY <2>2, <4>1 DEF Authorize, tables
    <3> QED
      BY <3>1 DEF RO!Next, RO!Overlap
  <2>3. CASE \/ \E r \in Requests : Read(r) \/ Refuse(r)
             \/ UNCHANGED vars
    BY <2>3 DEF Read, Refuse, vars, tables
  <2> QED
    BY <2>1, <2>2, <2>3 DEF Next
<1> QED
  BY <1>1, <1>2, <1>3, <1>4, CInit, CNext, PTL DEF Spec, RosterKept, RO!Spec
=============================================================================
