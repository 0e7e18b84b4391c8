------------------------------- MODULE Series -------------------------------
(***************************************************************************)
(* What fixed_accumulating tasks promise, whoever continues them.          *)
(*                                                                         *)
(* A live task is the only one of its series, and a series goes on only    *)
(* from it: in one step that task ends and all that follow it are there,   *)
(* later days after earlier ones, each in the turn after the one before    *)
(* it, with the last one live if any is.  Nothing else adds a task to a    *)
(* series.  A task that has ended comes back to life only to begin a       *)
(* series of its own.                                                      *)
(***************************************************************************)
EXTENDS Integers, Sequences

CONSTANTS NoDay

VARIABLE
  rows   \* [series, live, day, who, pool] per id; ids count from 1

Old == DOMAIN rows
New == DOMAIN rows' \ DOMAIN rows

Kept(i) == rows'[i] = rows[i]

\* A series no task has been in.
Begins(i) == \A j \in Old : rows'[i].series # rows[j].series

\* Who has the turn after those of prev; without a pool everyone has it.
Follows(pool, prev, who) ==
  IF pool = <<>> THEN who = prev
  ELSE \E p \in DOMAIN pool :
         /\ who = {pool[p]}
         /\ IF \E q \in DOMAIN pool : pool[q] \in prev
            THEN pool[IF p = 1 THEN Len(pool) ELSE p - 1] \in prev
            ELSE p = 1

Init == DOMAIN rows = {}

Start ==
  /\ Old \subseteq DOMAIN rows'
  /\ \A i \in Old : Kept(i)
  /\ \E n \in New : New = {n} /\ Begins(n)

\* The day, the assignees and the pool may change, and the task may end.
Edit(i) ==
  /\ DOMAIN rows' = Old
  /\ \A j \in Old \ {i} : Kept(j)
  /\ rows'[i].series = rows[i].series
  /\ rows'[i].live => rows[i].live

Restart(i) ==
  /\ DOMAIN rows' = Old
  /\ \A j \in Old \ {i} : Kept(j)
  /\ ~ rows[i].live
  /\ Begins(i)

\* The task before j among those that follow i, and who had it.
Before(i, j) == IF j - 1 \in New THEN rows'[j - 1].who ELSE rows[i].who

\* The task that ends may be given to others at once, and so may its pool.
Continue(i) ==
  /\ Old \subseteq DOMAIN rows'
  /\ \A j \in Old \ {i} : Kept(j)
  /\ ~ rows'[i].live
  /\ IF rows[i].live THEN rows'[i].series = rows[i].series ELSE Begins(i)
  /\ \A j \in New :
       /\ rows'[j].series = rows'[i].series
       /\ rows'[j].pool = rows[i].pool
       /\ rows'[j].day # NoDay
       /\ Follows(rows[i].pool, Before(i, j), rows'[j].who)
       /\ rows'[j].live => \A k \in New : k <= j
       /\ j - 1 \in New => rows'[j - 1].day < rows'[j].day

Next == Start \/ \E i \in Old : Edit(i) \/ Restart(i) \/ Continue(i)

Spec == Init /\ [][Next]_rows
=============================================================================
