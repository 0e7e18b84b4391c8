------------------------------ MODULE LevelList ------------------------------
(***************************************************************************)
(* What the endpoints that replace the statuses, effort levels or priority *)
(* levels of a space promise: the table is always the list some request    *)
(* gave, row k at position k-1, and a request is taken whole or refused.   *)
(* Once requests overlap less is promised: a request leaves rows that were *)
(* there or that it asks for, and may lose some of either.                 *)
(***************************************************************************)
EXTENDS Integers, Sequences

CONSTANTS Lists, Requests

VARIABLES
  rows,     \* the table
  asked,    \* per request: {} or the one list it asks for
  overlap   \* have two requests ever been open at once?

RowsOf(list) == {[name |-> list[k].name, phase |-> list[k].phase,
                  position |-> k - 1] : k \in DOMAIN list}

Init ==
  /\ rows \in {RowsOf(l) : l \in Lists}
  /\ asked = [r \in Requests |-> {}]
  /\ overlap = FALSE

\* (One l of Lists, found in asked' so that TLC need not enumerate Lists.)
Ask(r) ==
  /\ asked[r] = {}
  /\ \E l \in asked'[r] : l \in Lists /\ asked' = [asked EXCEPT ![r] = {l}]
  /\ overlap' = (overlap \/ \E s \in Requests : asked[s] # {})
  /\ UNCHANGED rows

Put(r) ==
  /\ \E l \in asked[r] :
       IF overlap THEN rows' \subseteq rows \cup RowsOf(l) ELSE rows' = RowsOf(l)
  /\ asked' = [asked EXCEPT ![r] = {}]
  /\ UNCHANGED overlap

Refuse(r) ==
  /\ asked[r] # {}
  /\ asked' = [asked EXCEPT ![r] = {}]
  /\ UNCHANGED <<rows, overlap>>

Next == \E r \in Requests : Ask(r) \/ Put(r) \/ Refuse(r)

Spec == Init /\ [][Next]_<<rows, asked, overlap>>
=============================================================================
