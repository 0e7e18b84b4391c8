---------------------- MODULE CompletionTriggers_proofs ----------------------
(***************************************************************************)
(* Theorems about CompletionTriggers, for any tasks, relations and number  *)
(* of concurrent requests: the type invariant, OwnsWhatItWrites,           *)
(* CompletedOnce, and that every PATCH is one step of Dependencies.        *)
(*                                                                         *)
(* The invariant says what an open PATCH may rely on.  Mine: the rows it   *)
(* read or is about to write are locked by it, and nobody changes a locked *)
(* row.  Listed and Handled: what it resets was a target, and of type      *)
(* on_dependency, unless it moved; and every target there is has been      *)
(* dealt with, or is still to be, unless it moved.                         *)
(***************************************************************************)
EXTENDS CompletionTriggers, TLAPS

Waiting(r) == req[r].pc = "lock"

\* What a request has chosen, and what it has not yet.
Chosen(r) ==
  /\ Waiting(r) \/ Past(r) => req[r].task \in Tasks /\ req[r].ask \in Asks
  /\ req[r].pc \in {"reset", "wait"} => req[r].target \in Tasks
  /\ req[r].pc \in {"lock", "list"} => req[r].left = {} /\ req[r].resets = {}
  /\ req[r].pc \in {"lock", "list", "targets"} => req[r].target = None

Mine(r) == Past(r) =>
  /\ locks[req[r].task] = r
  /\ req[r].existing \in Row
  /\ tasks[req[r].task] = req[r].existing
  /\ \A x \in req[r].resets :
       locks[x] = r /\ tasks[x] # NoTask /\ tasks[x].status # "initial"

\* The targets a request took up.
TakenUp(r) == req[r].resets \cup ({req[r].target} \cap Tasks)

Listed(r) == Past(r) =>
  /\ \A x \in req[r].left \cup TakenUp(r) :
       Completing(r) /\ x \in Targets(req[r].task) \cup moved[r]
  /\ \A x \in TakenUp(r) \ moved[r] : tasks[x] # NoTask /\ Dependent(tasks[x])

Handled(r) == Past(r) /\ req[r].pc # "list" /\ Completing(r) =>
  \A x \in Targets(req[r].task) \ (req[r].left \cup TakenUp(r) \cup moved[r]) :
    tasks[x] = NoTask \/ ~ Dependent(tasks[x]) \/ tasks[x].status = "initial"

LocksOpen == \A t \in Tasks : locks[t] # None => Past(locks[t])

Relies(r) == Chosen(r) /\ Mine(r) /\ Listed(r) /\ Handled(r)

TInv == TypeOK /\ LocksOpen /\ \A r \in Requests : Relies(r)

-----------------------------------------------------------------------------
(***************************************************************************)
(* What the statements write.                                              *)
(***************************************************************************)
LEMMA PatchedType ==
  ASSUME NEW row \in Row, NEW ask \in Asks
  PROVE  Patched(row, ask) \in Row
<1>1. ask \in Ask /\ row.assignee \in Members /\ row.type \in Types
      /\ row.status \in Statuses
  BY TriggersAssumption DEF Row
<1>2. AdvanceRotation(row.assignee) \in Members
  <2>1. row.assignee \in Int /\ PoolSize \in Nat \ {0}
    BY <1>1, TriggersAssumption DEF Members
  <2> QED BY <2>1 DEF AdvanceRotation, Members
<1>3. Given(ask.status, row.status) \in Statuses
  BY <1>1 DEF Given, Ask
<1>4. Given(ask.type, row.type) \in Types
  BY <1>1 DEF Given, Ask
<1>5. Given(ask.assignee, IF Recurs(row, ask) THEN AdvanceRotation(row.assignee)
                          ELSE row.assignee) \in Members
  BY <1>1, <1>2 DEF Given, Ask
<1> QED BY <1>3, <1>4, <1>5 DEF Patched, Row, Statuses

LEMMA ResetType ==
  ASSUME NEW row \in Row
  PROVE  /\ ResetTaskToInitial(row) \in Row
         /\ ResetTaskToInitial(row).status = "initial"
         /\ row.status = "initial" => ResetTaskToInitial(row) = row
BY DEF ResetTaskToInitial, Row, Statuses

LEMMA NoneIsNone ==
  /\ None \notin Tasks /\ None \notin Requests
  /\ NoTask \notin Row
BY TriggersAssumption

-----------------------------------------------------------------------------
(***************************************************************************)
(* The invariant.  A request that takes no step keeps what it relies on.   *)
(***************************************************************************)

\* Nothing it looks at has changed, but for rows that are locked by nobody
\* or moved.
LEMMA OthersRely ==
  ASSUME TInv, NEW s \in Requests,
         req'[s] = req[s],
         \A x \in Tasks : locks[x] = s => locks'[x] = s /\ tasks'[x] = tasks[x],
         moved[s] \subseteq moved'[s],
         Past(s) => \A x \in Tasks \ moved'[s] :
           /\ tasks'[x] = tasks[x]
           /\ (<<req[s].task, x>> \in triggers' <=> <<req[s].task, x>> \in triggers)
  PROVE  Relies(s)'
<1>1. Relies(s) /\ TypeOK
  BY DEF TInv
<1>2. Chosen(s)'
  BY <1>1 DEF Relies, Chosen, Past, Waiting
<1>3. Past(s)' = Past(s) /\ Completing(s)' = Completing(s)
      /\ TakenUp(s)' = TakenUp(s)
  BY DEF Past, Completing, TakenUp
<1>4. TakenUp(s) \subseteq Tasks /\ req[s].left \subseteq Tasks
      /\ req[s].resets \subseteq Tasks
  BY <1>1 DEF TakenUp, TypeOK, Request
<1>5. Mine(s)'
  <2> SUFFICES ASSUME Past(s) PROVE Mine(s)'
    BY <1>3 DEF Mine
  <2>1. req[s].task \in Tasks /\ Mine(s)
    BY <1>1 DEF Relies, Chosen
  <2>2. locks'[req[s].task] = s /\ tasks'[req[s].task] = req[s].existing
    BY <2>1 DEF Mine
  <2>3. \A x \in req[s].resets : locks'[x] = s /\ tasks'[x] = tasks[x]
    BY <1>4, <2>1 DEF Mine
  <2> QED BY <2>1, <2>2, <2>3 DEF Mine
<1>6. ASSUME Past(s), NEW x \in Tasks \ moved'[s]
      PROVE  x \in Targets(req[s].task)' <=> x \in Targets(req[s].task)
  BY <1>6 DEF Targets
<1>7. Listed(s)'
  <2> SUFFICES ASSUME Past(s) PROVE Listed(s)'
    BY <1>3 DEF Listed
  <2>1. Listed(s)
    BY <1>1 DEF Relies
  <2>2. ASSUME NEW x \in req[s].left \cup TakenUp(s)
        PROVE  Completing(s) /\ x \in Targets(req[s].task)' \cup moved'[s]
    BY <1>4, <1>6, <2>1 DEF Listed
  <2>3. ASSUME NEW x \in TakenUp(s) \ moved'[s]
        PROVE  tasks'[x] # NoTask /\ Dependent(tasks'[x])
    <3>1. x \notin moved[s] /\ tasks'[x] = tasks[x]
      BY <1>4
    <3> QED BY <2>1, <3>1 DEF Listed
  <2> QED BY <1>3, <2>2, <2>3 DEF Listed, Targets
<1>8. Handled(s)'
  <2> SUFFICES ASSUME Past(s), req[s].pc # "list", Completing(s),
                      NEW x \in Targets(req[s].task)'
                                \ (req[s].left \cup TakenUp(s) \cup moved'[s])
               PROVE  tasks'[x] = NoTask \/ ~ Dependent(tasks'[x])
                      \/ tasks'[x].status = "initial"
    BY <1>3 DEF Handled, Targets
  <2>1. x \in Tasks /\ x \in Targets(req[s].task) /\ x \notin moved[s]
        /\ tasks'[x] = tasks[x]
    BY <1>6 DEF Targets
  <2> QED BY <1>1, <2>1 DEF Relies, Handled
<1> QED BY <1>2, <1>5, <1>7, <1>8 DEF Relies

\* A step that only moves request r on, and may lock rows that were free.
LEMMA OneMoves ==
  ASSUME TInv, NEW r \in Requests, TypeOK', Relies(r)',
         UNCHANGED <<tasks, triggers, moved>>,
         \A s \in Requests \ {r} : req'[s] = req[s],
         \A t \in Tasks : locks'[t] \in {locks[t], r}
                          /\ (locks'[t] # locks[t] => Free(r, t)),
         \A t \in Tasks : locks'[t] = r => Past(r)'
  PROVE  TInv'
<1>1. ASSUME NEW s \in Requests, s # r
      PROVE  Relies(s)'
  <2>1. \A x \in Tasks : locks[x] = s => locks'[x] = s
    BY <1>1, NoneIsNone DEF Free
  <2> QED BY <1>1, <2>1, OthersRely
<1>2. LocksOpen'
  <2> SUFFICES ASSUME NEW t \in Tasks, locks'[t] # None
               PROVE  req'[locks'[t]].pc \in {"list", "targets", "reset", "wait"}
    BY DEF LocksOpen, Past
  <2>1. CASE locks'[t] = r
    BY <2>1 DEF Past
  <2>2. CASE locks'[t] # r
    <3>1. locks'[t] = locks[t] /\ locks[t] \in Requests /\ Past(locks[t])
      BY <2>2, NoneIsNone DEF TInv, TypeOK, LocksOpen
    <3> QED BY <2>2, <3>1 DEF Past
  <2> QED BY <2>1, <2>2
<1> QED BY <1>1, <1>2 DEF TInv

-----------------------------------------------------------------------------
(***************************************************************************)
(* The statements of one PATCH.                                            *)
(***************************************************************************)

\* A request is a record of its fields, and EXCEPT keeps it one.
LEMMA RequestShape ==
  ASSUME TInv, NEW r \in Requests
  PROVE  /\ req[r] \in Request
         /\ req[r].left \subseteq Tasks /\ req[r].resets \subseteq Tasks
         /\ req[r].target \in Tasks \cup {None}
         /\ req[r].ask \in Asks \cup {None} /\ req[r].task \in Tasks \cup {None}
BY DEF TInv, TypeOK, Request

LEMMA InitHolds == Init => TInv
<1> SUFFICES ASSUME Init PROVE TInv
  OBVIOUS
<1>1. TypeOK
  BY TriggersAssumption DEF Init, TypeOK, Idle, Request
<1>2. \A r \in Requests : req[r] = Idle /\ ~ Past(r)
  BY DEF Init, Idle, Past
<1>3. \A r \in Requests : Relies(r)
  BY <1>2 DEF Relies, Chosen, Mine, Listed, Handled, Idle, Waiting, Past
<1>4. LocksOpen
  BY DEF Init, LocksOpen
<1> QED BY <1>1, <1>3, <1>4 DEF TInv

LEMMA StartStep ==
  ASSUME TInv, NEW r \in Requests, NEW t \in Tasks, NEW ask \in Asks,
         Start(r, t, ask)
  PROVE  TInv'
<1> DEFINE new == [Idle EXCEPT !.pc = "lock", !.task = t, !.ask = ask]
<1>1. new \in Request
  BY DEF Idle, Request
<1>2. TypeOK'
  BY <1>1 DEF TInv, TypeOK, Start
<1>3. req'[r] = new
  BY DEF Start, TInv, TypeOK
<1>4. ~ Past(r)'
  BY <1>3 DEF Past, Idle
<1>5. Relies(r)'
  BY <1>3, <1>4 DEF Relies, Chosen, Mine, Listed, Handled, Idle, Waiting
<1>6. \A x \in Tasks : locks[x] # r
  BY NoneIsNone DEF TInv, LocksOpen, Past, Start
<1> QED BY <1>2, <1>5, <1>6, OneMoves DEF Start, TInv, TypeOK

LEMMA LockStep ==
  ASSUME TInv, NEW r \in Requests, Lock(r)
  PROVE  TInv'
<1> DEFINE t == req[r].task
<1>1. t \in Tasks /\ req[r].ask \in Asks /\ Chosen(r) /\ tasks[t] \in Row
  BY DEF Lock, TInv, Relies, Chosen, Waiting, TypeOK
<1>2. req'[r] = [req[r] EXCEPT !.pc = "list", !.existing = tasks[t]]
      /\ req'[r] \in Request
  BY <1>1, RequestShape, ZenonT(30) DEF Lock, TInv, TypeOK, Request
<1>3. TypeOK'
  BY <1>1, <1>2 DEF TInv, TypeOK, Lock
<1>4. /\ req'[r].pc = "list" /\ req'[r].task = t /\ req'[r].ask = req[r].ask
      /\ req'[r].existing = tasks[t] /\ req'[r].left = {}
      /\ req'[r].resets = {} /\ req'[r].target = None
  <2>1. req[r].left = {} /\ req[r].resets = {} /\ req[r].target = None
    BY <1>1 DEF Lock, Chosen
  <2>2. req[r] \in Request
    BY RequestShape
  <2> QED BY <1>2, <2>1, <2>2 DEF Request
<1>5. Past(r)' /\ TakenUp(r)' = {}
  BY <1>4, NoneIsNone DEF Past, TakenUp
<1>6. locks'[t] = r /\ tasks' = tasks
  BY <1>1 DEF Lock, TInv, TypeOK
<1>7. Relies(r)'
  BY <1>1, <1>4, <1>5, <1>6 DEF Relies, Chosen, Mine, Listed, Handled, Waiting
<1> QED BY <1>3, <1>5, <1>7, OneMoves DEF Lock, TInv, TypeOK

LEMMA ListStep ==
  ASSUME TInv, NEW r \in Requests, ListTargets(r)
  PROVE  TInv'
<1> DEFINE new == IF Completing(r) THEN Targets(req[r].task) ELSE {}
<1>1. req'[r] = [req[r] EXCEPT !.pc = "targets", !.left = new]
      /\ req'[r] \in Request
  BY RequestShape, ZenonT(30) DEF ListTargets, TInv, TypeOK, Request, Targets
<1>2. TypeOK'
  BY <1>1 DEF TInv, TypeOK, ListTargets
<1>3. Past(r) /\ Relies(r)
  BY DEF Past, ListTargets, TInv
<1>4. /\ req'[r].pc = "targets" /\ req'[r].task = req[r].task
      /\ req'[r].ask = req[r].ask /\ req'[r].existing = req[r].existing
      /\ req'[r].left = new
      /\ req'[r].resets = {} /\ req'[r].target = None
  <2>1. req[r].resets = {} /\ req[r].target = None
    BY <1>3 DEF ListTargets, Relies, Chosen
  <2>2. req[r] \in Request
    BY RequestShape
  <2> QED BY <1>1, <2>1, <2>2 DEF Request
<1>5. Past(r)' /\ TakenUp(r)' = {} /\ Completing(r)' = Completing(r)
  BY <1>4, NoneIsNone DEF Past, TakenUp, Completing
<1>6. UNCHANGED <<tasks, triggers, locks, moved>>
  BY DEF ListTargets
<1>7. Targets(req[r].task)' = Targets(req'[r].task)
  BY <1>4, <1>6 DEF Targets
<1>8. Relies(r)'
  BY <1>3, <1>4, <1>5, <1>6 DEF Relies, Chosen, Mine, Listed, Handled, Waiting, Targets
<1> QED BY <1>2, <1>5, <1>6, <1>8, OneMoves DEF ListTargets, TInv, TypeOK

\* A target that is taken off what is left, or given up, is dealt with.
Settled(x) ==
  tasks[x] = NoTask \/ ~ Dependent(tasks[x]) \/ tasks[x].status = "initial"

\* The loop over the targets: none is forgotten, none is added.
LEMMA LoopStep ==
  ASSUME TInv, NEW r \in Requests, Past(r), req[r].pc # "list",
         NEW new \in Request, req' = [req EXCEPT ![r] = new],
         new.pc \in {"targets", "reset", "wait"},
         new.task = req[r].task, new.ask = req[r].ask,
         new.existing = req[r].existing,
         new.pc # "targets" => new.target \in Tasks,
         new.pc = "targets" => new.target = None,
         UNCHANGED <<tasks, triggers, moved, changes>>,
         locks' \in [Tasks -> Requests \cup {None}],
         \A t \in Tasks : locks'[t] \in {locks[t], r}
                          /\ (locks'[t] # locks[t] => Free(r, t)),
         \A x \in new.resets \ req[r].resets :
           locks'[x] = r /\ tasks[x] # NoTask /\ tasks[x].status # "initial",
         new.left \cup TakenUp(r)' \subseteq req[r].left \cup TakenUp(r),
         \A x \in TakenUp(r)' \ TakenUp(r) :
           tasks[x] # NoTask /\ Dependent(tasks[x]),
         \A x \in (req[r].left \cup TakenUp(r)) \ (new.left \cup TakenUp(r)') :
           Settled(x)
  PROVE  TInv'
<1>1. TypeOK'
  BY DEF TInv, TypeOK
<1>2. req'[r] = new /\ Relies(r)
  BY DEF TInv, TypeOK
<1>3. Past(r)' /\ Completing(r)' = Completing(r)
  BY <1>2 DEF Past, Completing
<1>4. \A x \in Tasks : locks[x] = r => locks'[x] = r
  OBVIOUS
<1>5. new.left \subseteq Tasks /\ new.resets \subseteq Tasks
      /\ req[r].task \in Tasks /\ req[r].ask \in Asks
  BY <1>2 DEF Request, Relies, Chosen
<1>6. Chosen(r)'
  BY <1>2, <1>5 DEF Chosen, Waiting
<1>7. Mine(r)'
  <2>1. Mine(r)
    BY <1>2 DEF Relies
  <2>2. \A x \in new.resets : locks'[x] = r /\ tasks[x] # NoTask
                               /\ tasks[x].status # "initial"
    <3> TAKE x \in new.resets
    <3> QED BY <1>4, <1>5, <2>1 DEF Mine
  <2> QED BY <1>2, <1>4, <1>5, <2>1, <2>2 DEF Mine
<1>8. Listed(r)'
  <2>1. Listed(r)
    BY <1>2 DEF Relies
  <2>2. \A x \in new.left \cup TakenUp(r)' :
          Completing(r) /\ x \in Targets(req[r].task) \cup moved[r]
    BY <2>1 DEF Listed
  <2>3. \A x \in TakenUp(r)' \ moved[r] : tasks[x] # NoTask /\ Dependent(tasks[x])
    BY <2>1 DEF Listed
  <2> QED BY <1>2, <1>3, <2>2, <2>3 DEF Listed, Targets
<1>9. Handled(r)'
  <2> SUFFICES ASSUME Completing(r), NEW x \in Targets(req[r].task),
                      x \notin new.left \cup TakenUp(r)' \cup moved[r]
               PROVE  Settled(x)
    BY <1>2, <1>3 DEF Handled, Targets, Settled
  <2>1. CASE x \in req[r].left \cup TakenUp(r)
    BY <2>1
  <2>2. CASE x \notin req[r].left \cup TakenUp(r)
    BY <1>2, <2>2 DEF Relies, Handled, Settled
  <2> QED BY <2>1, <2>2
<1>10. Relies(r)'
  BY <1>6, <1>7, <1>8, <1>9 DEF Relies
<1> QED BY <1>1, <1>2, <1>3, <1>10, OneMoves DEF TInv, TypeOK

LEMMA ReadStep ==
  ASSUME TInv, NEW r \in Requests, NEW x \in Tasks, ReadTarget(r, x)
  PROVE  TInv'
<1> DEFINE new == [req[r] EXCEPT !.left = @ \ {x},
                     !.pc     = IF Dependent(tasks[x]) THEN "reset" ELSE @,
                     !.target = IF Dependent(tasks[x]) THEN x ELSE @]
<1>1. req[r].pc = "targets" /\ x \in req[r].left /\ Past(r) /\ req[r].target = None
  BY DEF ReadTarget, Past, TInv, Relies, Chosen
<1>2. req[r] \in Request
  BY RequestShape
<1>3. /\ new \in Request /\ new.left = req[r].left \ {x}
      /\ new.pc = (IF Dependent(tasks[x]) THEN "reset" ELSE "targets")
      /\ new.target = (IF Dependent(tasks[x]) THEN x ELSE None)
      /\ new.task = req[r].task /\ new.ask = req[r].ask
      /\ new.existing = req[r].existing /\ new.resets = req[r].resets
  BY <1>1, <1>2, ZenonT(30) DEF Request
<1>4. req' = [req EXCEPT ![r] = new]
  BY DEF ReadTarget
<1> HIDE DEF new
<1>5. TakenUp(r) = req[r].resets
      /\ TakenUp(r)' = req[r].resets \cup (IF Dependent(tasks[x]) THEN {x} ELSE {})
  BY <1>1, <1>3, <1>4, NoneIsNone DEF TakenUp, TInv, TypeOK
<1>6. UNCHANGED <<tasks, triggers, locks, moved, changes>> /\ tasks[x] # NoTask
  BY DEF ReadTarget
<1> QED BY <1>1, <1>3, <1>4, <1>5, <1>6, LoopStep DEF Settled, TInv, TypeOK

LEMMA FindStep ==
  ASSUME TInv, NEW r \in Requests, FindTarget(r)
  PROVE  TInv'
<1> DEFINE x == req[r].target
           gone == tasks[x] = NoTask \/ tasks[x].status = "initial"
           new == IF gone THEN NextTarget(r) ELSE [req[r] EXCEPT !.pc = "wait"]
<1>1. req[r].pc = "reset" /\ x \in Tasks /\ Past(r)
  BY DEF FindTarget, Past, TInv, Relies, Chosen
<1>2. req[r] \in Request
  BY RequestShape
<1>3. /\ new \in Request /\ new.left = req[r].left
      /\ new.pc = (IF gone THEN "targets" ELSE "wait")
      /\ new.target = (IF gone THEN None ELSE x)
      /\ new.task = req[r].task /\ new.ask = req[r].ask
      /\ new.existing = req[r].existing /\ new.resets = req[r].resets
  BY <1>1, <1>2 DEF Request, NextTarget
<1>4. req' = [req EXCEPT ![r] = new]
  BY DEF FindTarget
<1> HIDE DEF new
<1>5. TakenUp(r) = req[r].resets \cup {x}
      /\ TakenUp(r)' = req[r].resets \cup (IF gone THEN {} ELSE {x})
  BY <1>1, <1>3, <1>4, NoneIsNone DEF TakenUp, TInv, TypeOK
<1>6. UNCHANGED <<tasks, triggers, locks, moved, changes>>
  BY DEF FindTarget
<1> QED BY <1>1, <1>3, <1>4, <1>5, <1>6, LoopStep DEF Settled, TInv, TypeOK

LEMMA ResetStep ==
  ASSUME TInv, NEW r \in Requests, ResetTarget(r)
  PROVE  TInv'
<1> DEFINE x == req[r].target
           gone == tasks[x] = NoTask \/ tasks[x].status = "initial"
           new == [NextTarget(r) EXCEPT !.resets = @ \cup (IF gone THEN {} ELSE {x})]
<1>1. req[r].pc = "wait" /\ x \in Tasks /\ Past(r) /\ Free(r, x)
  BY DEF ResetTarget, Past, TInv, Relies, Chosen
<1>2. req[r] \in Request
  BY RequestShape
<1>3. /\ new \in Request /\ new.left = req[r].left
      /\ new.pc = "targets" /\ new.target = None
      /\ new.task = req[r].task /\ new.ask = req[r].ask
      /\ new.existing = req[r].existing
      /\ new.resets = req[r].resets \cup (IF gone THEN {} ELSE {x})
  BY <1>1, <1>2 DEF Request, NextTarget
<1>4. req' = [req EXCEPT ![r] = new]
  BY DEF ResetTarget
<1> HIDE DEF new
<1>5. TakenUp(r) = req[r].resets \cup {x} /\ TakenUp(r)' = new.resets
  BY <1>1, <1>3, <1>4, NoneIsNone DEF TakenUp, TInv, TypeOK
<1>6. UNCHANGED <<tasks, triggers, moved, changes>>
      /\ locks' = IF tasks[x] = NoTask THEN locks ELSE [locks EXCEPT ![x] = r]
  BY DEF ResetTarget
<1>7. locks \in [Tasks -> Requests \cup {None}]
  BY DEF TInv, TypeOK
<1>8. /\ locks' \in [Tasks -> Requests \cup {None}]
      /\ \A t \in Tasks : locks'[t] \in {locks[t], r}
                           /\ (locks'[t] # locks[t] => Free(r, t))
      /\ tasks[x] # NoTask => locks'[x] = r
  BY <1>1, <1>6, <1>7
<1>9. \A y \in new.resets \ req[r].resets :
        locks'[y] = r /\ tasks[y] # NoTask /\ tasks[y].status # "initial"
  BY <1>3, <1>8
<1>10. \A y \in (req[r].left \cup TakenUp(r)) \ (new.left \cup TakenUp(r)') :
         Settled(y)
  BY <1>3, <1>5 DEF Settled
<1>11. /\ new.left \cup TakenUp(r)' \subseteq req[r].left \cup TakenUp(r)
       /\ TakenUp(r)' \ TakenUp(r) = {}
  BY <1>3, <1>5
<1>12. req[r].pc # "list" /\ new.pc \in {"targets", "reset", "wait"}
       /\ (new.pc # "targets" => new.target \in Tasks)
  BY <1>1, <1>3
<1> QED BY <1>1, <1>3, <1>4, <1>6, <1>8, <1>9, <1>10, <1>11, <1>12, LoopStep

-----------------------------------------------------------------------------
(***************************************************************************)
(* The end of a PATCH, and the other requests.                             *)
(***************************************************************************)

\* A request that has ended holds no lock and relies on nothing.
LEMMA EndedRelies ==
  ASSUME TInv, NEW r \in Requests, NEW answer \in {"done", "failed"},
         req' = [req EXCEPT ![r] = Ended(answer)], locks' = ReleaseLocks(r)
  PROVE  /\ req' \in [Requests -> Request]
         /\ locks' \in [Tasks -> Requests \cup {None}]
         /\ Relies(r)' /\ LocksOpen'
         /\ \A s \in Requests \ {r} :
              /\ req'[s] = req[s]
              /\ \A x \in Tasks : locks[x] = s => locks'[x] = s
<1>1. Ended(answer) \in Request
  BY DEF Ended, Idle, Request
<1>2. req'[r] = Ended(answer) /\ req' \in [Requests -> Request]
  BY <1>1 DEF TInv, TypeOK
<1>3. Relies(r)'
  BY <1>2 DEF Relies, Chosen, Mine, Listed, Handled, Waiting, Past, Ended, Idle
<1>4. locks' \in [Tasks -> Requests \cup {None}]
  BY DEF TInv, TypeOK, ReleaseLocks
<1>5. ASSUME NEW t \in Tasks, locks'[t] # None
      PROVE  req'[locks'[t]].pc \in {"list", "targets", "reset", "wait"}
  <2>1. locks'[t] = locks[t] /\ locks[t] # r /\ locks[t] \in Requests
    BY <1>5 DEF ReleaseLocks, TInv, TypeOK
  <2>2. Past(locks[t])
    BY <1>5, <2>1 DEF TInv, LocksOpen
  <2> QED BY <2>1, <2>2 DEF Past, TInv, TypeOK
<1>6. LocksOpen'
  BY <1>5 DEF LocksOpen, Past
<1> QED BY <1>2, <1>3, <1>4, <1>6 DEF ReleaseLocks, TInv, TypeOK

LEMMA RollbackStep ==
  ASSUME TInv, NEW r \in Requests, Rollback(r)
  PROVE  TInv'
<1>1. req' = [req EXCEPT ![r] = Ended("failed")] /\ locks' = ReleaseLocks(r)
      /\ UNCHANGED <<tasks, triggers, moved, changes>>
  BY DEF Rollback
<1>2. TypeOK'
  BY <1>1, EndedRelies DEF TInv, TypeOK
<1>3. ASSUME NEW s \in Requests, s # r
      PROVE  Relies(s)'
  BY <1>1, <1>3, EndedRelies, OthersRely
<1> QED BY <1>1, <1>2, <1>3, EndedRelies DEF TInv

LEMMA CommitStep ==
  ASSUME TInv, NEW r \in Requests, Commit(r)
  PROVE  TInv'
<1> DEFINE t == req[r].task
           R == req[r].resets
<1>1. Past(r) /\ t \in Tasks /\ req[r].ask \in Asks /\ R \subseteq Tasks /\ Mine(r)
  BY RequestShape DEF Commit, Past, TInv, Relies, Chosen
<1>2. req' = [req EXCEPT ![r] = Ended("done")] /\ locks' = ReleaseLocks(r)
      /\ moved' = Moves(r, {t} \cup R) /\ UNCHANGED <<triggers, changes>>
  BY DEF Commit
<1>3. tasks' = [x \in Tasks |-> IF x = t THEN Patched(req[r].existing, req[r].ask)
                     ELSE IF x \in R THEN ResetTaskToInitial(tasks[x])
                     ELSE tasks[x]]
  BY DEF Commit
<1>4. tasks' \in [Tasks -> Row \cup {NoTask}]
  <2>1. Patched(req[r].existing, req[r].ask) \in Row
    BY <1>1, PatchedType DEF Mine
  <2>2. \A x \in R : ResetTaskToInitial(tasks[x]) \in Row
    BY <1>1, ResetType DEF Mine, TInv, TypeOK
  <2>3. \A x \in Tasks : tasks[x] \in Row \cup {NoTask}
    BY DEF TInv, TypeOK
  <2> HIDE DEF R
  <2> QED BY <1>3, <2>1, <2>2, <2>3
<1>5. moved' \in [Requests -> SUBSET Tasks]
      /\ (\A s \in Requests : moved[s] \subseteq moved'[s])
      /\ \A s \in Requests \ {r} : Past(s) => {t} \cup R \subseteq moved'[s]
  BY <1>1, <1>2 DEF Moves, TInv, TypeOK
<1>6. TypeOK'
  BY <1>2, <1>4, <1>5, EndedRelies DEF TInv, TypeOK
<1>7. ASSUME NEW s \in Requests, s # r
      PROVE  Relies(s)'
  <2>1. \A x \in Tasks : locks[x] = s => x # t /\ x \notin R
    BY <1>1, <1>7 DEF Mine
  <2>2. \A x \in Tasks \ ({t} \cup R) : tasks'[x] = tasks[x]
    BY <1>3
  <2>3. \A x \in Tasks : locks[x] = s => locks'[x] = s /\ tasks'[x] = tasks[x]
    <3>1. \A x \in Tasks : locks[x] = s => locks'[x] = s
      BY <1>2, <1>7, EndedRelies
    <3> HIDE DEF R
    <3> QED BY <2>1, <2>2, <3>1
  <2>4. Past(s) => \A x \in Tasks \ moved'[s] : tasks'[x] = tasks[x]
    BY <1>5, <1>7, <2>2
  <2>5. triggers' = triggers /\ req'[s] = req[s]
    BY <1>2, <1>7, EndedRelies
  <2> QED BY <1>5, <2>3, <2>4, <2>5, OthersRely
<1> QED BY <1>2, <1>6, <1>7, EndedRelies DEF TInv

LEMMA CreateStep ==
  ASSUME TInv, NEW t \in Tasks, NEW x \in Tasks, CreateRelation(t, x)
  PROVE  TInv'
<1>1. TypeOK'
  BY TriggersAssumption DEF TInv, TypeOK, CreateRelation
<1>2. UNCHANGED <<tasks, locks, req, moved>> /\ triggers' = triggers \cup {<<t, x>>}
      /\ \A s \in Requests : Past(s) => req[s].task # t
  BY DEF CreateRelation, Referable
<1>3. ASSUME NEW s \in Requests
      PROVE  Relies(s)'
  BY <1>2, <1>3, OthersRely
<1>4. LocksOpen'
  BY <1>2 DEF TInv, LocksOpen, Past
<1> QED BY <1>1, <1>3, <1>4 DEF TInv

LEMMA UnrelateStep ==
  ASSUME TInv, NEW t \in Tasks, NEW x \in Tasks, DeleteRelation(t, x)
  PROVE  TInv'
<1>1. UNCHANGED <<tasks, locks, req>> /\ triggers' = triggers \ {<<t, x>>}
      /\ moved' = [r \in Requests |-> IF Past(r) /\ req[r].task = t
                                     THEN moved[r] \cup {x} ELSE moved[r]]
      /\ changes' = changes + 1 /\ changes < MaxChanges
  BY DEF DeleteRelation
<1>2. TypeOK'
  BY <1>1, TriggersAssumption DEF TInv, TypeOK
<1>3. ASSUME NEW s \in Requests
      PROVE  Relies(s)'
  <2>1. moved[s] \subseteq moved'[s]
        /\ (Past(s) /\ req[s].task = t => x \in moved'[s])
    BY <1>1
  <2> QED BY <1>1, <2>1, OthersRely
<1>4. LocksOpen'
  BY <1>1 DEF TInv, LocksOpen, Past
<1> QED BY <1>2, <1>3, <1>4 DEF TInv

LEMMA DeleteStep ==
  ASSUME TInv, NEW t \in Tasks, DeleteTask(t)
  PROVE  TInv'
<1>1. UNCHANGED <<locks, req>> /\ triggers' = {p \in triggers : p[1] # t /\ p[2] # t}
      /\ tasks' = [tasks EXCEPT ![t] = NoTask] /\ locks[t] = None
      /\ moved' = Moves(None, {t}) /\ changes' = changes + 1 /\ changes < MaxChanges
  BY DEF DeleteTask
<1>2. moved' \in [Requests -> SUBSET Tasks]
      /\ (\A s \in Requests : moved[s] \subseteq moved'[s])
      /\ \A s \in Requests : Past(s) => t \in moved'[s]
  BY <1>1, NoneIsNone DEF Moves, TInv, TypeOK
<1>3. TypeOK'
  <2>1. tasks' \in [Tasks -> Row \cup {NoTask}] /\ triggers' \subseteq Tasks \X Tasks
    BY <1>1 DEF TInv, TypeOK
  <2>2. changes' \in 0 .. MaxChanges
    BY <1>1, TriggersAssumption DEF TInv, TypeOK
  <2> QED BY <1>1, <1>2, <2>1, <2>2 DEF TInv, TypeOK
<1>4. ASSUME NEW s \in Requests
      PROVE  Relies(s)'
  <2>1. \A x \in Tasks \ {t} : tasks'[x] = tasks[x]
    BY <1>1 DEF TInv, TypeOK
  <2>2. \A x \in Tasks : locks[x] = s => x # t
    BY <1>1, NoneIsNone
  <2>3. Past(s) => req[s].task # t
    BY <2>2, NoneIsNone DEF TInv, Relies, Mine, Chosen
  <2>4. Past(s) => \A x \in Tasks \ {t} :
          <<req[s].task, x>> \in triggers' <=> <<req[s].task, x>> \in triggers
    BY <1>1, <2>3
  <2> QED BY <1>1, <1>2, <2>1, <2>2, <2>4, OthersRely
<1>5. LocksOpen'
  BY <1>1 DEF TInv, LocksOpen, Past
<1> QED BY <1>3, <1>4, <1>5 DEF TInv

LEMMA NextHolds == TInv /\ [Next]_vars => TInv'
<1> SUFFICES ASSUME TInv, [Next]_vars PROVE TInv'
  OBVIOUS
<1>1. ASSUME NEW r \in Requests, Step(r) \/ Fail(r)
      PROVE  TInv'
  <2>1. CASE Lock(r) \/ ListTargets(r) \/ FindTarget(r) \/ ResetTarget(r)
    BY <2>1, LockStep, ListStep, FindStep, ResetStep
  <2>2. CASE \E x \in Tasks : ReadTarget(r, x)
    BY <2>2, ReadStep
  <2>3. CASE Commit(r)
    BY <2>3, CommitStep
  <2>4. CASE NotFound(r) \/ BreakDeadlock(r) \/ Fail(r)
    BY <2>4, RollbackStep DEF NotFound, BreakDeadlock, Fail
  <2> QED BY <1>1, <2>1, <2>2, <2>3, <2>4 DEF Step
<1>2. ASSUME NEW r \in Requests, NEW t \in Tasks, NEW ask \in Asks, Start(r, t, ask)
      PROVE  TInv'
  BY <1>2, StartStep
<1>3. ASSUME NEW t \in Tasks,
             DeleteTask(t) \/ \E x \in Tasks : CreateRelation(t, x) \/ DeleteRelation(t, x)
      PROVE  TInv'
  BY <1>3, DeleteStep, CreateStep, UnrelateStep
<1>4. CASE UNCHANGED vars
  <2>1. TypeOK'
    BY <1>4 DEF TInv, TypeOK, vars
  <2>2. \A s \in Requests : Relies(s)'
    BY <1>4, OthersRely DEF vars
  <2>3. LocksOpen'
    BY <1>4 DEF TInv, LocksOpen, Past, vars
  <2> QED BY <2>1, <2>2, <2>3 DEF TInv
<1> QED BY <1>1, <1>2, <1>3, <1>4 DEF Next

LEMMA TInvAlways == Spec => []TInv
BY InitHolds, NextHolds, PTL DEF Spec

-----------------------------------------------------------------------------
(***************************************************************************)
(* The theorems.                                                           *)
(***************************************************************************)

\* Every variable keeps its type: what a completion, a rotation and a reset
\* write are rows of the table.
THEOREM TriggersTypeCorrect == Spec => []TypeOK
<1>1. TInv => TypeOK
  BY DEF TInv
<1> QED BY <1>1, TInvAlways, PTL

\* What a PATCH read of its own task, and found to reset in others, is what it
\* commits over, however many transactions are open: nothing is lost.
THEOREM NothingLost == Spec => []OwnsWhatItWrites
<1>1. TInv => OwnsWhatItWrites
  BY DEF TInv, Relies, Mine, OwnsWhatItWrites
<1> QED BY <1>1, TInvAlways, PTL

\* A task is completed only from a status that is not a completion, and each
\* committed completion advances the rotation once, for any requests at once.
THEOREM NeverCompletedTwice == Spec => CompletedOnce
<1> DEFINE Once == \A r \in Requests :
       Commit(r) /\ Completing(r) =>
         LET t == req[r].task
         IN  /\ tasks[t].status # "completion"
             /\ Recurs(tasks[t], req[r].ask) /\ req[r].ask.assignee = None =>
                  tasks'[t].assignee = AdvanceRotation(tasks[t].assignee)
<1>1. TInv => Once
  <2> SUFFICES ASSUME TInv, NEW r \in Requests, Commit(r), Completing(r)
               PROVE  LET t == req[r].task
                      IN  /\ tasks[t].status # "completion"
                          /\ Recurs(tasks[t], req[r].ask) /\ req[r].ask.assignee = None =>
                               tasks'[t].assignee = AdvanceRotation(tasks[t].assignee)
    OBVIOUS
  <2>1. req[r].task \in Tasks /\ tasks[req[r].task] = req[r].existing
    BY DEF TInv, Relies, Chosen, Mine, Commit, Past
  <2>2. tasks[req[r].task].status # "completion"
    BY <2>1 DEF Completing, Completes
  <2>3. tasks'[req[r].task] = Patched(tasks[req[r].task], req[r].ask)
    BY <2>1 DEF Commit
  <2> QED BY <2>2, <2>3 DEF Patched, Given
<1>2. [][TInv => Once]_vars
  BY <1>1, PTL
<1> QED BY <1>1, TInvAlways, PTL DEF Spec, CompletedOnce

-----------------------------------------------------------------------------
(***************************************************************************)
(* Every PATCH is one step of Dependencies.                                *)
(***************************************************************************)
Answered == {r \in Requests : req[r].pc = "done"}

\* Steps before the commit show in nothing Dependencies speaks of.
LEMMA QuietStep ==
  ASSUME TInv, NEW r \in Requests, NEW new \in Request,
         req' = [req EXCEPT ![r] = new], new.pc # "done", req[r].pc # "done",
         UNCHANGED <<tasks, triggers>>
  PROVE  DP!Next
<1>1. Answered' = Answered
  BY DEF Answered, TInv, TypeOK
<1> QED BY <1>1 DEF DP!Next, DP!Elsewhere, Answered

LEMMA CommitRefines ==
  ASSUME TInv, NEW r \in Requests, Commit(r)
  PROVE  DP!Patch(r)
<1> DEFINE t == req[r].task
           p == [task |-> t, ask |-> req[r].ask, moved |-> moved[r]]
<1>1. Past(r) /\ t \in Tasks /\ Mine(r) /\ Listed(r) /\ Handled(r)
      /\ req[r].resets \subseteq Tasks /\ req[r].pc = "targets" /\ req[r].left = {}
  BY RequestShape DEF Commit, Past, TInv, Relies, Chosen, AllHandled
<1>2. tasks[t] = req[r].existing /\ tasks[t] \in Row /\ tasks[t] # NoTask
  BY <1>1, NoneIsNone DEF Mine
<1>3. TakenUp(r) = req[r].resets
  BY <1>1, NoneIsNone DEF TakenUp, TInv, Relies, Chosen
<1>4. Completing(r) = Completes(tasks[t], p.ask)
  BY <1>2 DEF Completing
<1>5. ASSUME NEW x \in Tasks
      PROVE  tasks'[x] \in DP!Outcomes(p, x)
  <2>1. CASE x = t
    BY <1>2, <2>1 DEF Commit, DP!Outcomes
  <2>2. CASE x # t /\ x \in req[r].resets
    <3>1. tasks'[x] = ResetTaskToInitial(tasks[x]) /\ tasks[x] # NoTask
      BY <1>1, <2>2 DEF Commit, Mine
    <3>2. Completing(r) /\ x \in Targets(t) \cup moved[r]
          /\ (x \notin moved[r] => Dependent(tasks[x]))
      BY <1>1, <1>3, <2>2 DEF Listed
    <3> QED BY <1>4, <2>2, <3>1, <3>2 DEF DP!Outcomes, DP!Targets, Targets
  <2>3. CASE x # t /\ x \notin req[r].resets
    <3>1. tasks'[x] = tasks[x]
      BY <2>3 DEF Commit
    <3>2. CASE Completing(r) /\ tasks[x] # NoTask /\ x \in Targets(t)
               /\ Dependent(tasks[x]) /\ x \notin moved[r]
      <4>1. tasks[x].status = "initial" /\ tasks[x] \in Row
        BY <1>1, <1>3, <2>3, <3>2 DEF Handled, TInv, TypeOK
      <4>2. tasks'[x] = ResetTaskToInitial(tasks[x])
        BY <3>1, <4>1, ResetType
      <4> QED BY <1>4, <2>3, <3>2, <4>2 DEF DP!Outcomes, DP!Targets, Targets
    <3>3. CASE ~ (Completing(r) /\ tasks[x] # NoTask /\ x \in Targets(t)
               /\ Dependent(tasks[x]) /\ x \notin moved[r])
      BY <1>4, <2>3, <3>1, <3>3 DEF DP!Outcomes, DP!Targets, Targets
    <3> QED BY <3>2, <3>3
  <2> QED BY <2>1, <2>2, <2>3
<1>6. DOMAIN tasks' = Tasks /\ triggers' = triggers
  BY DEF Commit
<1>7. req'[r].pc = "done" /\ ~ Past(r)' /\ Answered' = Answered \cup {r}
  BY DEF Commit, Ended, Idle, Past, Answered, TInv, TypeOK
<1> QED BY <1>1, <1>2, <1>5, <1>6, <1>7 DEF DP!Patch, Answered

LEMMA NextRefines == TInv /\ Next => DP!Next
<1> SUFFICES ASSUME TInv, Next PROVE DP!Next
  OBVIOUS
<1>1. ASSUME NEW r \in Requests, Rollback(r), req[r].pc # "done"
      PROVE  DP!Next
  <2>1. Ended("failed") \in Request /\ Ended("failed").pc = "failed"
    BY DEF Ended, Idle, Request
  <2> QED BY <1>1, <2>1, QuietStep DEF Rollback
<1>2. ASSUME NEW r \in Requests, Step(r) \/ Fail(r)
      PROVE  DP!Next
  <2>1. CASE Commit(r)
    BY <2>1, CommitRefines DEF DP!Next
  <2>2. CASE NotFound(r) \/ BreakDeadlock(r) \/ Fail(r)
    <3>1. Rollback(r)
      BY <2>2 DEF NotFound, BreakDeadlock, Fail
    <3>2. req[r].pc # "done"
      <4>1. CASE BreakDeadlock(r)
        <5>1. PICK s \in Requests : WaitsFor(r, s)
          BY <4>1 DEF BreakDeadlock, Circle
        <5> QED BY <5>1, NoneIsNone DEF WaitsFor, Wanted
      <4>2. CASE NotFound(r) \/ Fail(r)
        BY <4>2 DEF NotFound, Fail
      <4> QED BY <2>2, <4>1, <4>2
    <3> QED BY <1>1, <3>1, <3>2
  <2>3. CASE \/ Lock(r) \/ ListTargets(r) \/ FindTarget(r) \/ ResetTarget(r)
             \/ \E x \in Tasks : ReadTarget(r, x)
    <3>1. UNCHANGED <<tasks, triggers>> /\ req[r].pc # "done"
          /\ req'[r].pc # "done"
          /\ \A s \in Requests \ {r} : req'[s].pc = req[s].pc
      <4> req \in [Requests -> Request] /\ req[r] \in Request
        BY DEF TInv, TypeOK
      <4>1. CASE Lock(r) \/ ListTargets(r)
        BY <4>1 DEF Lock, ListTargets, Request
      <4>2. CASE FindTarget(r)
        BY <4>2 DEF FindTarget, NextTarget, Request
      <4>3. CASE ResetTarget(r)
        BY <4>3 DEF ResetTarget, NextTarget, Request
      <4>4. CASE \E x \in Tasks : ReadTarget(r, x)
        BY <4>4 DEF ReadTarget, Request
      <4> QED BY <2>3, <4>1, <4>2, <4>3, <4>4
    <3>2. Answered' = Answered
      BY <3>1 DEF Answered
    <3> QED BY <3>1, <3>2 DEF DP!Next, DP!Elsewhere, Answered
  <2> QED BY <1>2, <2>1, <2>2, <2>3 DEF Step
<1>3. ASSUME NEW r \in Requests, NEW t \in Tasks, NEW ask \in Asks, Start(r, t, ask)
      PROVE  DP!Next
  <2> DEFINE new == [Idle EXCEPT !.pc = "lock", !.task = t, !.ask = ask]
  <2>1. new \in Request /\ new.pc = "lock"
    BY DEF Idle, Request
  <2> HIDE DEF new
  <2>2. req' = [req EXCEPT ![r] = new] /\ req[r].pc # "done"
        /\ UNCHANGED <<tasks, triggers>>
    BY <1>3 DEF Start, new
  <2> QED BY <2>1, <2>2, QuietStep
<1>4. ASSUME NEW t \in Tasks, DeleteTask(t)
      PROVE  DP!Next
  BY <1>4 DEF DeleteTask, DP!Next, DP!Delete, Answered
<1>5. ASSUME NEW t \in Tasks, NEW x \in Tasks,
             CreateRelation(t, x) \/ DeleteRelation(t, x)
      PROVE  DP!Next
  BY <1>5 DEF CreateRelation, DeleteRelation, DP!Next, DP!Relate
<1> QED BY <1>2, <1>3, <1>4, <1>5 DEF Next

-----------------------------------------------------------------------------
\* Each PATCH that succeeds completes its task and resets the tasks it triggers
\* in one step, and each that fails leaves no trace, for any tasks, relations
\* and number of requests; a task that moved meanwhile is excepted.
THEOREM EachPatchIsOneStep == Spec => PatchIsAtomic
<1>1. TInv /\ [Next]_vars => [DP!Next]_<<tasks, triggers,
        [r \in Requests |-> IF Past(r) THEN {[task |-> req[r].task, ask |-> req[r].ask,
                                             moved |-> moved[r]]} ELSE {}],
        {r \in Requests : req[r].pc = "done"}>>
  <2> SUFFICES ASSUME TInv, UNCHANGED vars
               PROVE  UNCHANGED <<tasks, triggers,
        [r \in Requests |-> IF Past(r) THEN {[task |-> req[r].task, ask |-> req[r].ask,
                                             moved |-> moved[r]]} ELSE {}],
        {r \in Requests : req[r].pc = "done"}>>
    BY NextRefines
  <2> QED BY DEF vars, Past
<1> QED BY <1>1, TInvAlways, PTL DEF Spec, PatchIsAtomic, DP!Spec
=============================================================================
