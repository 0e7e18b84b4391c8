-------------------------- MODULE TaskLevels_proofs --------------------------
(***************************************************************************)
(* A space never has two initial statuses, and no task has a level that is *)
(* not in the table, for any names, lists, tasks and number of requests.   *)
(***************************************************************************)
EXTENDS TaskLevels, TLAPS

\* What makes AtMostOneInitial inductive: every PUT puts its initial status
\* in the first place, and places are unique.
InitialComesFirst ==
  Statuses => \A x \in levels : x.phase = Initial => x.position = 0

AskedIsValid ==
  \A r \in Requests : req[r].pc = "listed" => req[r].items \in ValidLists

IInv ==
  /\ TypeOK
  /\ AskedIsValid
  /\ UniquePositions(levels)
  /\ InitialComesFirst

-----------------------------------------------------------------------------
\* The item of category initial is the first of a valid list of statuses.
LEMMA FirstIsInitial ==
  ASSUME Statuses, NEW list \in ValidLists, NEW k \in DOMAIN list,
         list[k].phase = Initial
  PROVE  k = 1
<1>1. /\ list \in Seq(Item)
      /\ ValidStatuses(list)
  BY LevelsAssumption DEF ValidLists, Valid
<1>2. /\ DOMAIN list = 1 .. Len(list)
      /\ Len(list) \in Nat
      /\ \A i \in DOMAIN list : list[i] \in Item
  BY <1>1
<1>3. /\ k \in 1 .. Len(list)
      /\ 1 \in DOMAIN list
  BY <1>2
<1>4. CASE 1 < k
  <2>1. list[1].phase <= list[k].phase
    BY <1>1, <1>3, <1>4 DEF ValidStatuses, OrderedCategories
  <2>2. list[1].phase \in {0, 1, 2}
    BY <1>2, <1>3 DEF Item, Phases, Initial, Intermediate, Completion
  <2>3. list[1].phase = Initial
    BY <2>1, <2>2 DEF Initial
  <2> QED
    BY <1>1, <1>3, <2>3 DEF ValidStatuses
<1> QED
  BY <1>3, <1>4

\* The rows a list is written as are rows of the table.
LEMMA RowOfType ==
  ASSUME NEW list \in Lists, NEW k \in DOMAIN list
  PROVE  RowOf(list, k) \in Row
<1>1. list \in Seq(Item)
  BY LevelsAssumption
<1>2. /\ k \in Nat \ {0}
      /\ list[k] \in Item
  BY <1>1
<1> QED
  BY <1>2 DEF RowOf, Item, Row

\* What a PUT leaves: rows that were there, and rows of its own list.
LEMMA AfterRows ==
  ASSUME NEW r \in Requests, NEW x \in After(r)
  PROVE  \/ x \in levels
         \/ \E k \in DOMAIN req[r].items : x = RowOf(req[r].items, k)
  BY DEF After, Written

-----------------------------------------------------------------------------
LEMMA TypeInit == Init => TypeOK
<1> SUFFICES ASSUME Init PROVE TypeOK
  OBVIOUS
<1>1. levels \subseteq Row
  BY RowOfType, LevelsAssumption DEF Init
<1>2. task \in [Tasks -> Names \cup {None}]
  BY DEF Init
<1>3. /\ req \in [Requests -> [pc : {"idle", "listed"}, items : Lists \cup {<<>>},
                               listed : SUBSET Names]]
      /\ overlap \in BOOLEAN
  BY DEF Init, Idle
<1> QED
  BY <1>1, <1>2, <1>3 DEF TypeOK

LEMMA TypeNext == TypeOK /\ AskedIsValid /\ [Next]_vars => TypeOK'
<1> SUFFICES ASSUME TypeOK, AskedIsValid, [Next]_vars PROVE TypeOK'
  OBVIOUS
<1> USE DEF TypeOK
<1>1. LevelNames \subseteq Names
  BY DEF LevelNames, Row
<1>2. ASSUME NEW r \in Requests, Replace(r) PROVE TypeOK'
  <2>1. req[r].items \in Lists
    BY <1>2 DEF Replace, AskedIsValid, ValidLists
  <2>2. levels' \subseteq Row
    BY <1>2, <2>1, AfterRows, RowOfType DEF Replace
  <2>3. task' \in [Tasks -> Names \cup {None}]
    BY <1>2 DEF Replace, TasksAfter
  <2>4. req' \in [Requests -> [pc : {"idle", "listed"},
                               items : Lists \cup {<<>>}, listed : SUBSET Names]]
    BY <1>2 DEF Replace, Idle
  <2> QED
    BY <1>2, <2>2, <2>3, <2>4 DEF Replace
<1>3. ASSUME NEW r \in Requests, Fail(r) PROVE TypeOK'
  BY <1>3 DEF Fail, Idle
<1>4. ASSUME NEW r \in Requests, NEW items \in ValidLists, ListNames(r, items)
      PROVE TypeOK'
  BY <1>1, <1>4 DEF ListNames, ValidLists
<1>5. ASSUME NEW t \in Tasks, NEW name \in LevelNames \cup {None},
             SetLevel(t, name)
      PROVE TypeOK'
  BY <1>1, <1>5 DEF SetLevel
<1>6. CASE UNCHANGED vars
  BY <1>6 DEF vars
<1> QED
  BY <1>2, <1>3, <1>4, <1>5, <1>6 DEF Next

LEMMA IInvInit == Init => IInv
<1> SUFFICES ASSUME Init PROVE IInv
  OBVIOUS
<1>1. TypeOK
  BY TypeInit
<1>2. AskedIsValid
  BY DEF Init, AskedIsValid, Idle
<1>3. /\ Start \in ValidLists
      /\ \A k \in DOMAIN Start : k \in Nat
  BY LevelsAssumption DEF ValidLists
<1>4. UniquePositions(levels)
  BY <1>3 DEF Init, UniquePositions, RowOf
<1>5. InitialComesFirst
  BY <1>3, FirstIsInitial DEF Init, InitialComesFirst, RowOf
<1> QED
  BY <1>1, <1>2, <1>4, <1>5 DEF IInv

LEMMA IInvNext == IInv /\ [Next]_vars => IInv'
<1> SUFFICES ASSUME IInv, [Next]_vars PROVE IInv'
  OBVIOUS
<1>1. TypeOK'
  BY TypeNext DEF IInv
<1>2. ASSUME NEW r \in Requests, Replace(r) PROVE IInv'
  <2>1. AskedIsValid'
    BY <1>2 DEF IInv, TypeOK, AskedIsValid, Replace, Idle
  <2>2. UniquePositions(levels)'
    BY <1>2 DEF Replace, UniquePositions
  <2>3. InitialComesFirst'
    <3> SUFFICES ASSUME Statuses, NEW x \in After(r), x.phase = Initial
                 PROVE  x.position = 0
      BY <1>2 DEF InitialComesFirst, Replace
    <3>1. CASE x \in levels
      BY <3>1 DEF IInv, InitialComesFirst
    <3>2. ASSUME NEW k \in DOMAIN req[r].items, x = RowOf(req[r].items, k)
          PROVE  x.position = 0
      <4>1. /\ req[r].items \in ValidLists
            /\ req[r].items[k].phase = Initial
        BY <1>2, <3>2 DEF IInv, AskedIsValid, Replace, RowOf
      <4>2. k = 1
        BY <4>1, FirstIsInitial
      <4> QED
        BY <3>2, <4>2 DEF RowOf
    <3> QED
      BY <3>1, <3>2, AfterRows
  <2> QED
    BY <1>1, <2>1, <2>2, <2>3 DEF IInv
<1>3. ASSUME NEW r \in Requests, Fail(r) PROVE IInv'
  BY <1>1, <1>3 DEF IInv, TypeOK, AskedIsValid, UniquePositions,
                    InitialComesFirst, Fail, Idle
<1>4. ASSUME NEW r \in Requests, NEW items \in ValidLists, ListNames(r, items)
      PROVE IInv'
  BY <1>1, <1>4 DEF IInv, TypeOK, AskedIsValid, UniquePositions,
                    InitialComesFirst, ListNames
<1>5. ASSUME NEW t \in Tasks, NEW name \in LevelNames \cup {None},
             SetLevel(t, name)
      PROVE IInv'
  BY <1>1, <1>5 DEF IInv, AskedIsValid, UniquePositions, InitialComesFirst,
                    SetLevel
<1>6. CASE UNCHANGED vars
  BY <1>1, <1>6 DEF IInv, AskedIsValid, UniquePositions, InitialComesFirst, vars
<1> QED
  BY <1>2, <1>3, <1>4, <1>5, <1>6 DEF Next

\* Every variable keeps its type, for any level names, lists and number of PUTs.
THEOREM LevelsTypeCorrect == Spec => []TypeOK
<1>1. IInv => TypeOK
  BY DEF IInv
<1> QED
  BY <1>1, IInvInit, IInvNext, PTL DEF Spec

-----------------------------------------------------------------------------
\* A space never has two initial statuses: whatever lists any number of
\* concurrent PUTs give, the last writer's initial status takes position 0,
\* and the unique constraint on positions refuses a second one.
THEOREM NeverTwoInitial == Spec => []AtMostOneInitial
<1>1. IInv => AtMostOneInitial
  BY DEF IInv, InitialComesFirst, UniquePositions, AtMostOneInitial
<1> QED
  BY <1>1, IInvInit, IInvNext, PTL DEF Spec

-----------------------------------------------------------------------------
LEMMA KeepLevelNext ==
  TypeOK /\ TasksKeepLevel /\ [Next]_vars => TasksKeepLevel'
<1> SUFFICES ASSUME TypeOK, TasksKeepLevel, [Next]_vars,
                    NEW t \in Tasks, task'[t] # None
             PROVE  task'[t] \in LevelNames'
  BY DEF TasksKeepLevel
<1>1. ASSUME NEW r \in Requests, Replace(r) PROVE task'[t] \in LevelNames'
  <2>1. /\ task'[t] = task[t]
        /\ task[t] \notin ToRemove(r)
    BY <1>1 DEF TypeOK, Replace, TasksAfter, Used
  <2>2. PICK x \in levels : x.name = task[t]
    BY <2>1 DEF TasksKeepLevel, LevelNames
  <2>3. CASE x.name \in NamesIn(req[r].items)
    <3>1. PICK k \in DOMAIN req[r].items : req[r].items[k].name = x.name
      BY <2>3 DEF NamesIn
    <3>2. RowOf(req[r].items, k) \in After(r)
      BY <3>1 DEF After, Written, LevelNames
    <3> QED
      BY <1>1, <2>1, <2>2, <3>1, <3>2 DEF Replace, LevelNames, RowOf
  <2>4. CASE x.name \notin NamesIn(req[r].items)
    BY <1>1, <2>1, <2>2, <2>4 DEF Replace, After, LevelNames
  <2> QED
    BY <2>3, <2>4
<1>2. ASSUME NEW s \in Tasks, NEW name \in LevelNames \cup {None},
             SetLevel(s, name)
      PROVE  task'[t] \in LevelNames'
  BY <1>2 DEF TypeOK, SetLevel, TasksKeepLevel, LevelNames
<1>3. CASE UNCHANGED <<levels, task>>
  BY <1>3 DEF TasksKeepLevel, LevelNames
<1> QED
  BY <1>1, <1>2, <1>3 DEF Next, Fail, ListNames, vars

\* No task ever has a level that is not in the table, for any number of
\* concurrent PUT and task requests.
THEOREM NoDanglingLevel == Spec => []TasksKeepLevel
<1>1. Init => TasksKeepLevel
  BY DEF Init, TasksKeepLevel
<1>2. IInv => TypeOK
  BY DEF IInv
<1> QED
  BY <1>1, <1>2, IInvInit, IInvNext, KeepLevelNext, PTL DEF Spec
-----------------------------------------------------------------------------
(***************************************************************************)
(* TaskLevels implements LevelList.                                        *)
(***************************************************************************)
OneAtATime == \A r, s \in Requests :
  req[r].pc = "listed" /\ req[s].pc = "listed" => r = s

\* Nothing changes the names between the listing and the write.
ListedIsCurrent ==
  \A r \in Requests : req[r].pc = "listed" => req[r].listed = LevelNames

LInv == IInv /\ (~ overlap => OneAtATime /\ ListedIsCurrent)

LEMMA ListedNext ==
  ASSUME LInv, [Next]_vars, ~ overlap'
  PROVE  OneAtATime' /\ ListedIsCurrent'
<1> USE DEF LInv, IInv, TypeOK
<1>1. ASSUME NEW r \in Requests, Replace(r) \/ Fail(r)
      PROVE  OneAtATime' /\ ListedIsCurrent'
  <2>1. /\ ~ overlap
        /\ req[r].pc = "listed"
        /\ req' = [req EXCEPT ![r] = Idle]
    BY <1>1 DEF Replace, Fail
  <2>2. \A s \in Requests : req'[s].pc # "listed"
    BY <2>1 DEF OneAtATime, Idle
  <2> QED
    BY <2>2 DEF OneAtATime, ListedIsCurrent
<1>2. ASSUME NEW r \in Requests, NEW items \in ValidLists, ListNames(r, items)
      PROVE  OneAtATime' /\ ListedIsCurrent'
  <2>1. \A s \in Requests : s # r => req'[s].pc # "listed"
    BY <1>2 DEF ListNames
  <2>2. req'[r].listed = LevelNames'
    BY <1>2 DEF ListNames, LevelNames
  <2> QED
    BY <2>1, <2>2 DEF OneAtATime, ListedIsCurrent
<1>3. CASE UNCHANGED <<levels, req, overlap>>
  BY <1>3 DEF OneAtATime, ListedIsCurrent, LevelNames
<1> QED
  BY <1>1, <1>2, <1>3 DEF Next, SetLevel, vars

\* A list written over the rows it was compared with is the whole table.
LEMMA AfterIsList ==
  ASSUME NEW r \in Requests, req[r].listed = LevelNames
  PROVE  After(r) = LL!RowsOf(req[r].items)
<1>1. {x \in levels : x.name \notin ToRemove(r) \cup NamesIn(req[r].items)} = {}
  BY DEF ToRemove, LevelNames
<1>2. \A k \in DOMAIN req[r].items : Written(r, k) = {RowOf(req[r].items, k)}
  BY DEF Written
<1> QED
  BY <1>1, <1>2 DEF After, RowOf, LL!RowsOf

LEMMA Simulation ==
  LInv /\ [Next]_vars =>
    [LL!Next]_<<levels, [r \in Requests |->
                 IF req[r].pc = "listed" THEN {req[r].items} ELSE {}], overlap>>
<1> DEFINE asked == [r \in Requests |-> IF req[r].pc = "listed"
                                        THEN {req[r].items} ELSE {}]
<1> SUFFICES ASSUME LInv, [Next]_vars
             PROVE  \/ LL!Next
                    \/ levels' = levels /\ asked' = asked /\ overlap' = overlap
  OBVIOUS
<1>0. req \in [Requests -> [pc : {"idle", "listed"}, items : Lists \cup {<<>>},
                            listed : SUBSET Names]]
  BY DEF LInv, IInv, TypeOK
<1>1. ASSUME NEW r \in Requests, Replace(r) PROVE LL!Put(r)
  <2>1. asked[r] = {req[r].items}
    BY <1>1 DEF Replace
  <2>2. asked' = [asked EXCEPT ![r] = {}]
    BY <1>0, <1>1 DEF Replace, Idle
  <2>3. \E l \in asked[r] : IF overlap THEN levels' \subseteq levels \cup LL!RowsOf(l)
                                       ELSE levels' = LL!RowsOf(l)
    <3>1. CASE overlap
      <4>1. levels' \subseteq levels \cup LL!RowsOf(req[r].items)
        BY <1>1, AfterRows DEF Replace, RowOf, LL!RowsOf
      <4> QED
        BY <2>1, <3>1, <4>1
    <3>2. CASE ~ overlap
      <4>1. levels' = LL!RowsOf(req[r].items)
        BY <1>1, <3>2, AfterIsList DEF Replace, LInv, ListedIsCurrent
      <4> QED
        BY <2>1, <3>2, <4>1
    <3> QED
      BY <3>1, <3>2
  <2> QED
    BY <1>1, <2>2, <2>3 DEF Replace, LL!Put
<1>2. ASSUME NEW r \in Requests, Fail(r) PROVE LL!Refuse(r)
  <2>1. asked[r] = {req[r].items}
    BY <1>2 DEF Fail
  <2>2. asked' = [asked EXCEPT ![r] = {}]
    BY <1>0, <1>2 DEF Fail, Idle
  <2> QED
    BY <1>2, <2>1, <2>2 DEF Fail, LL!Refuse
<1>3. ASSUME NEW r \in Requests, NEW items \in ValidLists, ListNames(r, items)
      PROVE LL!Ask(r)
  <2>1. asked[r] = {}
    BY <1>3 DEF ListNames
  <2>2. asked' = [asked EXCEPT ![r] = {items}]
    BY <1>0, <1>3 DEF ListNames
  <2>3. asked'[r] = {items}
    BY <2>2
  <2>4. (\E s \in Requests : asked[s] # {})
          <=> (\E s \in Requests : req[s].pc # "idle")
    <3>1. \A s \in Requests : asked[s] # {} <=> req[s].pc = "listed"
      OBVIOUS
    <3> QED
      BY <1>0, <3>1
  <2>5. overlap' = (overlap \/ \E s \in Requests : asked[s] # {})
    BY <1>3, <2>4 DEF ListNames
  <2> QED
    BY <1>3, <2>1, <2>2, <2>3, <2>5 DEF ListNames, LL!Ask
<1>4. CASE UNCHANGED <<levels, req, overlap>>
  BY <1>4
<1> QED
  BY <1>1, <1>2, <1>3, <1>4 DEF Next, SetLevel, vars, LL!Next

LEMMA SimulationInit == Init => LL!Init
<1> SUFFICES ASSUME Init PROVE LL!Init
  OBVIOUS
<1>1. Start \in ValidLists
  BY LevelsAssumption DEF ValidLists
<1>2. levels = LL!RowsOf(Start)
  BY DEF Init, RowOf, LL!RowsOf
<1>3. [r \in Requests |-> IF req[r].pc = "listed" THEN {req[r].items} ELSE {}]
        = [r \in Requests |-> {}]
  BY DEF Init, Idle
<1> QED
  BY <1>1, <1>2, <1>3 DEF Init, LL!Init

LEMMA LInvInit == Init => LInv
BY IInvInit DEF LInv, Init, OneAtATime, ListedIsCurrent, Idle

LEMMA LInvNext == LInv /\ [Next]_vars => LInv'
BY ListedNext, IInvNext DEF LInv

\* replaceLevels implements LevelList: where PUTs do not overlap, deleting,
\* updating and inserting by difference leaves the rows of the list asked for
\* and no others, or the request is refused whole.
THEOREM ImplementsLevelList == Spec => ReplaceIsAssignment
BY LInvInit, LInvNext, Simulation, SimulationInit, PTL
DEF Spec, ReplaceIsAssignment, LL!Spec

-----------------------------------------------------------------------------
Complete(rows) ==
  Statuses => /\ \E x \in rows : x.phase = Initial
              /\ \E x \in rows : x.phase = Completion

LEMMA ListIsComplete ==
  ASSUME NEW list \in ValidLists
  PROVE  Complete(LL!RowsOf(list))
<1> SUFFICES ASSUME Statuses PROVE Complete(LL!RowsOf(list))
  BY DEF Complete
<1>1. /\ \E i \in DOMAIN list : list[i].phase = Initial
      /\ \E i \in DOMAIN list : list[i].phase = Completion
  BY DEF ValidLists, Valid, ValidStatuses
<1>2. ASSUME NEW k \in DOMAIN list
      PROVE  \E x \in LL!RowsOf(list) : x.phase = list[k].phase
  <2> DEFINE x == [name |-> list[k].name, phase |-> list[k].phase,
                   position |-> k - 1]
  <2>1. x \in LL!RowsOf(list)
    BY DEF LL!RowsOf
  <2>2. x.phase = list[k].phase
    OBVIOUS
  <2> QED
    BY <2>1, <2>2
<1> QED
  BY <1>1, <1>2 DEF Complete

\* Until two PUTs overlap a space has an initial and a completion status, as
\* every list that was asked for.
THEOREM CompleteWithoutOverlap == Spec => []CompleteInTurn
<1>1. Init => CompleteInTurn
  <2>1. Start \in ValidLists
    BY LevelsAssumption DEF ValidLists
  <2> QED
    BY <2>1, ListIsComplete
    DEF Init, CompleteInTurn, InitialAndCompletion, Complete, RowOf, LL!RowsOf
<1>2. LInv /\ CompleteInTurn /\ [Next]_vars => CompleteInTurn'
  <2> SUFFICES ASSUME LInv, CompleteInTurn, [Next]_vars, ~ overlap'
               PROVE  InitialAndCompletion'
    BY DEF CompleteInTurn
  <2>1. ASSUME NEW r \in Requests, Replace(r) PROVE InitialAndCompletion'
    <3>1. /\ ~ overlap
          /\ req[r].listed = LevelNames
          /\ req[r].items \in ValidLists
      BY <2>1 DEF Replace, LInv, IInv, AskedIsValid, ListedIsCurrent
    <3>2. levels' = LL!RowsOf(req[r].items)
      BY <2>1, <3>1, AfterIsList DEF Replace
    <3> QED
      BY <3>1, <3>2, ListIsComplete DEF Complete, InitialAndCompletion
  <2>2. CASE UNCHANGED levels /\ ~ overlap
    BY <2>2 DEF CompleteInTurn, InitialAndCompletion
  <2>3. CASE \E r \in Requests : Fail(r) \/ \E items \in ValidLists : ListNames(r, items)
    <3>1. UNCHANGED levels /\ ~ overlap
      BY <2>3 DEF Fail, ListNames, LInv, IInv, TypeOK
    <3> QED
      BY <2>2, <3>1
  <2>4. CASE UNCHANGED <<levels, overlap>>
    BY <2>2, <2>4
  <2> QED
    BY <2>1, <2>3, <2>4 DEF Next, SetLevel, vars
<1> QED
  BY <1>1, <1>2, LInvInit, LInvNext, PTL DEF Spec
=============================================================================
