------------------------------- MODULE Roster -------------------------------
(***************************************************************************)
(* What the requests on users, members and assignments promise together.   *)
(*                                                                         *)
(* A step concerns one user or one task.  Whoever leaves takes all their   *)
(* assignments along, only members are assigned, and the last owner and    *)
(* the last admin stay (but for an admin whose account is deleted).  Once  *)
(* two requests have overlapped less is promised: still one user or one    *)
(* task at a time, and still nobody who does not exist.                    *)
(***************************************************************************)
CONSTANTS Users, Tasks

VARIABLES
  account,   \* per user: "none", "user", "owner" or "deleted"
  role,      \* per user: "none", "viewer", "member" or "admin"
  assigned,  \* per task: a set of users
  overlap    \* have two requests ever been in progress at once?

Known   == {u \in Users : account[u] \in {"user", "owner"}}
Owners  == {u \in Users : account[u] = "owner"}
Members == {u \in Users : role[u] # "none"}
Admins  == {u \in Users : role[u] = "admin"}

OwnerRemains == overlap \/ Owners' # {}
AdminRemains == overlap \/ (Admins # {} => Admins' # {})

Init ==
  /\ Owners # {} /\ Admins # {}
  /\ Members \subseteq Known
  /\ \A t \in Tasks : assigned[t] \subseteq Members
  /\ ~ overlap

Enrol(u) ==
  /\ account[u] = "none"
  /\ \E to \in {"user", "owner"} : account' = [account EXCEPT ![u] = to]
  /\ UNCHANGED <<role, assigned, overlap>>

SetOwner(u) ==
  /\ u \in Known
  /\ \E to \in {"user", "owner"} : account' = [account EXCEPT ![u] = to]
  /\ OwnerRemains
  /\ UNCHANGED <<role, assigned, overlap>>

Remove(u) ==
  /\ u \in Known
  /\ account' = [account EXCEPT ![u] = "deleted"]
  /\ role' = [role EXCEPT ![u] = "none"]
  /\ assigned' = [t \in Tasks |-> assigned[t] \ {u}]
  /\ OwnerRemains
  /\ UNCHANGED overlap

SetRole(u) ==
  /\ u \in Known
  /\ \E to \in {"viewer", "member", "admin"} : role' = [role EXCEPT ![u] = to]
  /\ AdminRemains
  /\ UNCHANGED <<account, assigned, overlap>>

Leave(u) ==
  /\ u \in Members
  /\ role' = [role EXCEPT ![u] = "none"]
  /\ \E stays \in SUBSET Tasks :
       /\ stays = {} \/ overlap
       /\ assigned' = [t \in Tasks |-> IF t \in stays THEN assigned[t]
                                                      ELSE assigned[t] \ {u}]
  /\ AdminRemains
  /\ UNCHANGED <<account, overlap>>

Assign(t) ==
  /\ \E who \in SUBSET Known :
       /\ who \subseteq Members \/ overlap
       /\ assigned' = [assigned EXCEPT ![t] = who]
  /\ UNCHANGED <<account, role, overlap>>

Overlap ==
  /\ overlap'
  /\ UNCHANGED <<account, role, assigned>>

Next ==
  \/ \E u \in Users : Enrol(u) \/ SetOwner(u) \/ Remove(u) \/ SetRole(u) \/ Leave(u)
  \/ \E t \in Tasks : Assign(t)
  \/ Overlap

Spec == Init /\ [][Next]_<<account, role, assigned, overlap>>
=============================================================================
