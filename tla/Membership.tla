----------------------------- MODULE Membership -----------------------------
(***************************************************************************)
(* The users of a server, the members of one space and the users its tasks *)
(* are assigned to (as assignees or in a rotation pool), and the requests  *)
(* that change them.                                                       *)
(*                                                                         *)
(* A request is authorised before its transaction starts; the transaction  *)
(* reads, decides, writes and commits at READ COMMITTED.  The rows it      *)
(* writes are locked until the commit, the rows it only reads are not: what*)
(* it read and counted may be out of date when it writes.                  *)
(***************************************************************************)
EXTENDS Integers, FiniteSets

CONSTANTS
  Users,     \* user ids, handed out or not
  Tasks,     \* tasks of the space
  Requests,  \* concurrent requests, and the cron that spawns tasks
  Ops        \* what they do

AllOps == {"createUser", "updateUser", "deleteUser",
           "addMember", "setRole", "removeMember", "assign", "spawn"}

ASSUME MembershipAssumption ==
  /\ IsFiniteSet(Users)
  /\ Ops \subseteq AllOps

Roles    == {"viewer", "member", "admin"}
NoRole   == "none"
Live     == {"user", "owner"}
NoOne    == {"none", "deleted"}   \* not created yet; gone

VARIABLES
  account,   \* per user id: its row in users, with is_owner
  role,      \* per user: the row in space_members
  assigned,  \* per task: its assignees and rotation pool
  req,
  overlap    \* history: have two requests ever been in progress at once?

tables == <<account, role, assigned>>
vars   == <<tables, req, overlap>>

(***************************************************************************)
(* What a request asks for.                                                *)
(***************************************************************************)
NoTask == "-"
Calls ==
  { c \in [op : Ops, user : Users, to : Live \cup Roles \cup {"keep", "-"},
           task : Tasks \cup {NoTask}] :
      \/ c.op = "createUser" /\ c.to \in Live /\ c.task = NoTask
      \/ c.op = "updateUser" /\ c.to \in Live \cup {"keep"} /\ c.task = NoTask
      \/ c.op \in {"deleteUser", "removeMember"} /\ c.to = "-" /\ c.task = NoTask
      \/ c.op \in {"addMember", "setRole"} /\ c.to \in Roles /\ c.task = NoTask
      \/ c.op \in {"assign", "spawn"} /\ c.to = "-" /\ c.task \in Tasks }

\* A request and what it has read, where it uses it: the target's account,
\* whether there is more than one admin, the target's tasks, a task's users.
Idle == [pc |-> "idle"]
Request ==
  {Idle} \cup [pc : {"allowed"}, call : Calls]
    \cup [pc : {"read"}, call : Calls, account : NoOne \cup Live,
          more : BOOLEAN, tasks : SUBSET Tasks, users : SUBSET Users]

TypeOK ==
  /\ account \in [Users -> NoOne \cup Live]
  /\ role \in [Users -> Roles \cup {NoRole}]
  /\ assigned \in [Tasks -> SUBSET Users]
  /\ req \in [Requests -> Request]
  /\ overlap \in BOOLEAN

Owners  == {u \in Users : account[u] = "owner"}
Admins  == {u \in Users : role[u] = "admin"}
Members == {u \in Users : role[u] # NoRole}

Init ==
  /\ account \in [Users -> {"none", "user", "owner"}]
  /\ role \in [Users -> Roles \cup {NoRole}]
  /\ \A u \in Members : account[u] \in Live
  /\ Owners # {} /\ Admins # {}
  /\ assigned = [t \in Tasks |-> {}]
  /\ req = [r \in Requests |-> Idle]
  /\ overlap = FALSE

-----------------------------------------------------------------------------
\* requireOwner, requireSpaceRole and the checks of UsersUpdate and
\* UsersDelete.  A spawn is the cron's.
Allowed(by, c) ==
  \/ c.op = "spawn"
  \/ account[by] = "owner"
  \/ account[by] = "user" /\
       \/ c.op \in {"addMember", "setRole", "removeMember"} /\ role[by] = "admin"
       \/ c.op = "assign" /\ role[by] \in {"member", "admin"}
       \/ c.op = "updateUser" /\ by = c.user /\ c.to = "keep"
       \/ c.op = "deleteUser" /\ by = c.user

Authorize(r, by, c) ==
  /\ req[r].pc = "idle"
  /\ Allowed(by, c)
  /\ req' = [req EXCEPT ![r] = [pc |-> "allowed", call |-> c]]
  /\ overlap' = (overlap \/ \E s \in Requests : req[s].pc # "idle")
  /\ UNCHANGED tables

\* CountOwners, and the subquery of the two statements on space_members.
MoreThanOne(S) == Cardinality(S) > 1

\* What has to be there for the request to go on.
Found(c) ==
  CASE c.op = "createUser" -> TRUE
    [] c.op \in {"updateUser", "deleteUser", "addMember"} ->
         account[c.user] \in Live
    [] c.op \in {"setRole", "removeMember"} -> role[c.user] # NoRole
    [] c.op = "assign" -> role[c.user] # NoRole
    [] c.op = "spawn" -> TRUE

\* Mutant: a deletion is let through uncounted.
SparesAny(c) == c.op = "updateUser" => c.to # "user" \/ MoreThanOne(Owners)

\* The last owner is neither demoted nor deleted.
SparesLastOwner(c) ==
  \/ account[c.user] # "owner"
  \/ c.op = "updateUser" /\ c.to # "user"
  \/ MoreThanOne(Owners)

Read(r) ==
  /\ req[r].pc = "allowed"
  /\ LET c == req[r].call
     IN /\ Found(c)
        /\ c.op \in {"updateUser", "deleteUser"} => SparesLastOwner(c)
        /\ req' = [req EXCEPT ![r] =
             [pc |-> "read", call |-> c,
              account |-> IF c.op = "updateUser" THEN account[c.user] ELSE "none",
              more |-> c.op \in {"setRole", "removeMember"} /\ MoreThanOne(Admins),
              tasks |-> {t \in Tasks : c.op = "removeMember"
                                       /\ c.user \in assigned[t]},
              users |-> {u \in Users : c.op = "spawn"
                                       /\ u \in assigned[c.task]}]]
  /\ UNCHANGED <<tables, overlap>>

-----------------------------------------------------------------------------
(***************************************************************************)
(* Writing and committing.  A write waits for the row's lock and then sees *)
(* the committed row, but the count and the reads are those made before.   *)
(***************************************************************************)
CreateUser(c) ==
  /\ account[c.user] = "none"
  /\ account' = [account EXCEPT ![c.user] = c.to]
  /\ UNCHANGED <<role, assigned>>

\* Mutant: a request that does not mention isOwner clears it.
OwnerUnlessAsked(c, before) == IF c.to = "keep" THEN "user" ELSE c.to

NewAccount(c, before) == IF c.to = "keep" THEN before ELSE c.to

UpdateUser(c, before) ==
  /\ account[c.user] \in Live
  /\ account' = [account EXCEPT ![c.user] = NewAccount(c, before)]
  /\ UNCHANGED <<role, assigned>>

\* Mutant: the user's assignments are not deleted with the user.
KeepAssigned(u) == assigned

Unassigned(u) == [t \in Tasks |-> assigned[t] \ {u}]

\* ON DELETE CASCADE.
DeleteUser(c) ==
  /\ account[c.user] \in Live
  /\ account' = [account EXCEPT ![c.user] = "deleted"]
  /\ role' = [role EXCEPT ![c.user] = NoRole]
  /\ assigned' = Unassigned(c.user)

CreateSpaceMember(c) ==
  /\ account[c.user] \in Live
  /\ role[c.user] = NoRole
  /\ role' = [role EXCEPT ![c.user] = c.to]
  /\ UNCHANGED <<account, assigned>>

\* Mutant: the guard of the statements is dropped.
LeavesAnyone(c, more) == TRUE

\* The WHERE of UpdateSpaceMemberRole and DeleteSpaceMember.
LeavesAdmin(c, more) == c.to = "admin" \/ role[c.user] # "admin" \/ more

UpdateSpaceMemberRole(c, more) ==
  /\ role[c.user] # NoRole
  /\ LeavesAdmin(c, more)
  /\ role' = [role EXCEPT ![c.user] = c.to]
  /\ UNCHANGED <<account, assigned>>

\* Mutant: a removed member's tasks are left as they are.
KeepTasks(c, tasks) == assigned

\* DeleteTaskAssigneesBySpaceAndUser and DeleteRotationPoolBySpaceAndUser
\* delete the rows they see.
WithoutMember(c, tasks) ==
  [t \in Tasks |-> IF t \in tasks THEN assigned[t] \ {c.user} ELSE assigned[t]]

DeleteSpaceMember(c, more, tasks) ==
  /\ role[c.user] # NoRole
  /\ LeavesAdmin(c, more)
  /\ role' = [role EXCEPT ![c.user] = NoRole]
  /\ assigned' = WithoutMember(c, tasks)
  /\ UNCHANGED account

\* setTaskAssignees: the task's rows are replaced by one user's.
SetTaskAssignees(c) ==
  /\ account[c.user] \in Live
  /\ assigned' = [assigned EXCEPT ![c.task] = {c.user}]
  /\ UNCHANGED <<account, role>>

\* SpawnTaskFromTemplate: a task new to the space gets the users read from
\* its source.
SpawnTaskFromTemplate(c, users) ==
  /\ \A u \in users : account[u] \in Live
  /\ \E t \in Tasks : assigned[t] = {}
                      /\ assigned' = [assigned EXCEPT ![t] = users]
  /\ UNCHANGED <<account, role>>

Write(r) ==
  /\ req[r].pc = "read"
  /\ LET q == req[r]
         c == q.call
     IN \/ c.op = "createUser"   /\ CreateUser(c)
        \/ c.op = "updateUser"   /\ UpdateUser(c, q.account)
        \/ c.op = "deleteUser"   /\ DeleteUser(c)
        \/ c.op = "addMember"    /\ CreateSpaceMember(c)
        \/ c.op = "setRole"      /\ UpdateSpaceMemberRole(c, q.more)
        \/ c.op = "removeMember" /\ DeleteSpaceMember(c, q.more, q.tasks)
        \/ c.op = "assign"       /\ SetTaskAssignees(c)
        \/ c.op = "spawn"        /\ SpawnTaskFromTemplate(c, q.users)
  /\ req' = [req EXCEPT ![r] = Idle]
  /\ UNCHANGED overlap

\* Refused by a check, a constraint or the database, or cut off by a crash.
Refuse(r) ==
  /\ req[r].pc # "idle"
  /\ req' = [req EXCEPT ![r] = Idle]
  /\ UNCHANGED <<tables, overlap>>

Next ==
  \/ \E r \in Requests, by \in Users, c \in Calls : Authorize(r, by, c)
  \/ \E r \in Requests : Read(r) \/ Write(r) \/ Refuse(r)

Spec == Init /\ [][Next]_vars
-----------------------------------------------------------------------------
(***************************************************************************)
(* Properties.                                                             *)
(***************************************************************************)

\* The server keeps an owner: demotions and deletions of users never remove
\* the last one.
OwnerLeft == Owners # {}

\* Tasks are assigned to members only, through removals, deletions,
\* assignments and spawned tasks.
AssigneesAreMembers == \A t \in Tasks : assigned[t] \subseteq Members

\* Changes of members never remove the space's last admin.  (Deleting a
\* user may.)
AdminStays ==
  Admins # {} /\ (\A u \in Users : account'[u] = account[u]) => Admins' # {}
AdminKept == [][AdminStays]_vars

\* A user becomes or ceases to be an owner only by a request that says so.
StatusAsked ==
  \A u \in Users :
    account[u] \in Live /\ account'[u] \in Live /\ account'[u] # account[u]
      => \E r \in Requests :
           /\ req[r].pc = "read" /\ req'[r].pc = "idle"
           /\ req[r].call.op = "updateUser"
           /\ req[r].call.user = u
           /\ req[r].call.to = account'[u]

\* The checks in the handlers are enough as long as requests come one after
\* the other: until two requests overlap, none of the four above fails.
OwnerLeftInTurn   == ~ overlap => OwnerLeft
AssigneesInTurn   == ~ overlap => AssigneesAreMembers
AdminKeptInTurn   == [][~ overlap' => AdminStays]_vars
StatusAskedInTurn == [][~ overlap' => StatusAsked]_vars

\* The requests together keep the promises of Roster: each is one step on one
\* user or one task, in turn with the whole promise, overlapping with less.
RO == INSTANCE Roster
RosterKept == RO!Spec

\* Only users that exist are members or assigned, whatever is deleted while
\* other requests add them.
OnlyUsers ==
  \A u \in Users : account[u] \in NoOne =>
    role[u] = NoRole /\ \A t \in Tasks : u \notin assigned[t]
=============================================================================
