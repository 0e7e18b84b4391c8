------------------------ MODULE MCCompletionTriggers ------------------------
(***************************************************************************)
(* A small instance of CompletionTriggers: t1 and t2 trigger each other,   *)
(* and t1 triggers t3.                                                     *)
(***************************************************************************)
EXTENDS CompletionTriggers, TLC

CONSTANTS t1, t2, t3

Open(type) == [status |-> "intermediate", type |-> type, assignee |-> 0]
ThreeTasks == t1 :> Open("recurring") @@ t2 :> Open("on_dependency")
                @@ t3 :> Open("on_dependency")

Ring == {<<t1, t2>>, <<t2, t1>>, <<t1, t3>>}

Done == [status |-> "completion", type |-> None, assignee |-> None,
         over |-> FALSE]
AllAsks == {Done, [Done EXCEPT !.type = "on_dependency"],
            [Done EXCEPT !.status = "intermediate"],
            [Done EXCEPT !.assignee = 0, !.over = TRUE],
            [Done EXCEPT !.status = None, !.type = "one_off"]}
=============================================================================
