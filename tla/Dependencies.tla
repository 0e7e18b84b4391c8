---------------------------- MODULE Dependencies ----------------------------
(***************************************************************************)
(* What completing a task promises to the tasks it triggers.               *)
(*                                                                         *)
(* A PATCH is one step.  It changes its own task as asked, and when it     *)
(* completes it, it puts every on_dependency task triggered by it back to  *)
(* the initial status, and no other.  A task that others changed while the *)
(* PATCH was open (its row, or the relation that makes it a target) is     *)
(* excepted: it may be reset or not.                                       *)
(***************************************************************************)
CONSTANTS
  Tasks, NoTask,
  Requests,
  Dependent(_),     \* is the row of type on_dependency?
  Reset(_),         \* the row, back in the initial status
  Patched(_, _),    \* the row a PATCH leaves of the one it finds
  Completes(_, _)   \* does the PATCH complete the task?

VARIABLES
  rows,       \* per task: its row, or NoTask
  triggers,   \* the pairs <<source, target>>
  open,       \* per request: {}, or the PATCH it is about to make
  answered    \* the requests that succeeded

Targets(t) == {x \in Tasks : <<t, x>> \in triggers}

\* What the PATCH p may make of the row of task x.
Outcomes(p, x) ==
  LET touched == Completes(rows[p.task], p.ask) /\ rows[x] # NoTask
      due     == touched /\ x \in Targets(p.task) /\ Dependent(rows[x])
  IN  IF x = p.task THEN {Patched(rows[x], p.ask)}
      ELSE (IF due THEN {Reset(rows[x])} ELSE {rows[x]})
             \cup (IF touched /\ x \in p.moved
                   THEN {rows[x], Reset(rows[x])} ELSE {})

Patch(r) == \E p \in open[r] :
  /\ rows[p.task] # NoTask
  /\ \A x \in Tasks : rows'[x] \in Outcomes(p, x)
  /\ DOMAIN rows' = Tasks
  /\ open'[r] = {}
  /\ answered' = answered \cup {r}
  /\ triggers' = triggers

\* A request starts, goes on, or fails without a trace.
Elsewhere == UNCHANGED <<rows, triggers, answered>>

Relate == \E t, x \in Tasks :
  /\ triggers' \in {triggers \cup {<<t, x>>}, triggers \ {<<t, x>>}}
  /\ UNCHANGED <<rows, answered>>

Delete(t) ==
  /\ rows' = [rows EXCEPT ![t] = NoTask]
  /\ triggers' = {p \in triggers : p[1] # t /\ p[2] # t}
  /\ UNCHANGED answered

Next ==
  \/ \E r \in Requests : Patch(r)
  \/ Elsewhere
  \/ Relate
  \/ \E t \in Tasks : Delete(t)

Spec == [][Next]_<<rows, triggers, open, answered>>
=============================================================================
