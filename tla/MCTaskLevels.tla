---------------------------- MODULE MCTaskLevels ----------------------------
(***************************************************************************)
(* Small instances of TaskLevels.                                          *)
(***************************************************************************)
EXTENDS TaskLevels, TLC

CONSTANTS todo, alt, done

Requests_ == Permutations(Requests)

\* Every list of up to three items: the requests include invalid ones.
ShortLists == UNION {[1 .. n -> Item] : n \in 0 .. 3}

\* defaultStatuses.
TodoDone == <<[name |-> todo, phase |-> 0], [name |-> done, phase |-> 2]>>
=============================================================================
