---------------------------- MODULE Tokens_proofs ----------------------------
(***************************************************************************)
(* Theorems about Tokens, for any number of commands: the type invariant,  *)
(* OneRefreshToken, StoredLoginLives and ForgetsOnlyDead.                  *)
(*                                                                         *)
(* None of the three is inductive alone.  A login has one refresh token    *)
(* because no other command is about to swap a token of the same login     *)
(* (Alone); the keychain comes to hold a good one because nobody else has  *)
(* a pair before it is saved (Fresh); and a refused token is dead because  *)
(* no pair is issued twice (Refused).                                      *)
(***************************************************************************)
EXTENDS Tokens, TLAPS

Holding == {"call", "retry", "refresh", "rotate", "refused", "save"}

\* A command past its first step has a login in memory.
Holds(c) == cmd[c].pc \in Holding => cmd[c].creds # NoLogin

\* A token the server refused stays dead.
Refused(c) == cmd[c].pc = "refused" => cmd[c].creds \notin refresh

\* Nobody else has a pair that has not been saved yet, and it is good.
Fresh(c) == cmd[c].pc = "save" =>
  /\ withdrawn \/ cmd[c].creds \in refresh
  /\ stored # cmd[c].creds
  /\ \A d \in Commands \ {c} : cmd[d].creds # cmd[c].creds

\* A command about to swap a token does so alone, for the token of its login.
Alone(c) == ~ raced /\ cmd[c].pc = "rotate" =>
  /\ \A n \in refresh : origin[n] = origin[cmd[c].creds] => n = cmd[c].creds
  /\ \A d \in Commands \ {c} :
       cmd[d].pc = "rotate" => origin[cmd[d].creds] # origin[cmd[c].creds]

KInv ==
  /\ TypeOK /\ OneRefreshToken /\ StoredLoginLives
  /\ \A c \in Commands : Holds(c) /\ Refused(c) /\ Fresh(c) /\ Alone(c)

-----------------------------------------------------------------------------
LEMMA InitInv == Init => KInv
<1> SUFFICES ASSUME Init PROVE KInv
  OBVIOUS
<1>1. TypeOK
  <2>1. [pc |-> "idle", creds |-> NoLogin, old |-> NoLogin]
          \in [pc : Places, creds : 0 .. issued, old : 0 .. issued]
    BY DEF Init, Places, NoLogin
  <2>2. cmd \in [Commands -> [pc : Places, creds : 0 .. issued, old : 0 .. issued]]
    BY <2>1 DEF Init
  <2>3. origin \in [1 .. issued -> 1 .. issued]
    BY DEF Init
  <2>4. /\ issued \in Nat /\ access \subseteq 1 .. issued
        /\ refresh \subseteq 1 .. issued /\ stored \in 0 .. issued
        /\ raced \in BOOLEAN /\ withdrawn \in BOOLEAN
    <3>1. /\ issued = 1 /\ access = {1} /\ refresh = {1} /\ stored = 1
          /\ raced = FALSE /\ withdrawn = FALSE
      BY DEF Init
    <3>2. raced \in BOOLEAN /\ withdrawn \in BOOLEAN
      BY <3>1, Zenon
    <3>3. issued \in Nat /\ access \subseteq 1 .. issued
          /\ refresh \subseteq 1 .. issued /\ stored \in 0 .. issued
      BY <3>1
    <3> QED BY <3>2, <3>3, Zenon
  <2> QED BY <2>2, <2>3, <2>4 DEF TypeOK
<1> QED
  BY <1>1 DEF Init, KInv, OneRefreshToken, StoredLoginLives, Holds, Holding,
     Refused, Fresh, Alone, NoLogin

\* What a step of one command does to the commands.
LEMMA OneMoves ==
  ASSUME TypeOK, NEW c \in Commands, NEW new, cmd' = [cmd EXCEPT ![c] = new]
  PROVE  cmd'[c] = new /\ \A d \in Commands \ {c} : cmd'[d] = cmd[d]
BY DEF TypeOK

LEMMA Moved ==
  ASSUME TypeOK, NEW c \in Commands, NEW pc, Goto(c, pc)
  PROVE  /\ cmd'[c].pc = pc
         /\ cmd'[c] = IF pc = "over" THEN Over
                      ELSE [pc |-> pc, creds |-> cmd[c].creds, old |-> cmd[c].old]
         /\ cmd' = [cmd EXCEPT ![c] = cmd'[c]]
<1>1. cmd[c] \in [pc : Places, creds : 0 .. issued, old : 0 .. issued]
  BY DEF TypeOK
<1>2. cmd' = [cmd EXCEPT ![c] = IF pc = "over" THEN Over
                               ELSE [cmd[c] EXCEPT !.pc = pc]]
  BY DEF Goto
<1>3. [cmd[c] EXCEPT !.pc = pc]
        = [pc |-> pc, creds |-> cmd[c].creds, old |-> cmd[c].old]
  BY <1>1
<1>4. cmd'[c] = IF pc = "over" THEN Over
                ELSE [pc |-> pc, creds |-> cmd[c].creds, old |-> cmd[c].old]
  BY <1>2, <1>3 DEF TypeOK
<1>5. cmd' = [cmd EXCEPT ![c] = cmd'[c]]
  BY <1>2, <1>3, <1>4
<1>6. cmd'[c].pc = pc
  BY <1>4 DEF Over
<1> QED BY <1>4, <1>5, <1>6

LEMMA Pairs ==
  ASSUME TypeOK, NEW from \in 0 .. issued, NEW gone, IssuePair(from, gone)
  PROVE  /\ issued' = issued + 1
         /\ origin' \in [1 .. issued' -> 1 .. issued']
         /\ \A m \in 1 .. issued : origin'[m] = origin[m]
         /\ origin'[issued'] = IF from = NoLogin THEN issued' ELSE origin[from]
         /\ access' \subseteq 1 .. issued' /\ refresh' \subseteq 1 .. issued'
         /\ refresh' = (refresh \ gone) \cup {issued'}
<1>1. issued' = issued + 1 /\ issued \in Nat
  BY DEF IssuePair, TypeOK
<1>2. origin' = [m \in 1 .. issued' |-> IF m < issued' THEN origin[m]
                   ELSE IF from = NoLogin THEN issued' ELSE origin[from]]
  BY <1>1 DEF IssuePair
<1>3. \A m \in 1 .. issued : origin'[m] = origin[m]
  BY <1>1, <1>2
<1>4. origin'[issued'] = IF from = NoLogin THEN issued' ELSE origin[from]
  BY <1>1, <1>2
<1>5. \A m \in 1 .. issued' : origin'[m] \in 1 .. issued'
  BY <1>1, <1>3, <1>4 DEF TypeOK, NoLogin
<1>6. origin' \in [1 .. issued' -> 1 .. issued']
  BY <1>2, <1>5
<1>7. /\ access' \subseteq 1 .. issued' /\ refresh' \subseteq 1 .. issued'
      /\ refresh' = (refresh \ gone) \cup {issued'}
  <2>1. access' = access \cup {issued'} /\ refresh' = (refresh \ gone) \cup {issued'}
    BY DEF IssuePair
  <2>2. access \subseteq 1 .. issued /\ refresh \subseteq 1 .. issued
    BY DEF TypeOK
  <2>3. 1 .. issued \subseteq 1 .. issued' /\ issued' \in 1 .. issued'
    BY <1>1
  <2> QED BY <2>1, <2>2, <2>3
<1> QED BY <1>1, <1>3, <1>4, <1>6, <1>7

-----------------------------------------------------------------------------
(***************************************************************************)
(* The invariant, by kind of step.                                         *)
(***************************************************************************)

\* A command goes on with what it has, or ends; no pair is issued.
LEMMA CalmStep ==
  ASSUME KInv, NEW c \in Commands, NEW pc \in Places \ {"save", "rotate", "refused"},
         Goto(c, pc), UNCHANGED <<issued, origin, access, raced>>,
         pc \in Holding => cmd[c].pc \in Holding,
         \/ refresh' = refresh
         \/ refresh' = refresh \ {cmd[c].creds} /\ pc = "delete",
         withdrawn' \in BOOLEAN, withdrawn => withdrawn',
         \/ stored' = NoLogin
         \/ stored' = stored /\ (cmd[c].pc \in {"save", "delete"} => withdrawn')
  PROVE  KInv'
<1> TypeOK
  BY DEF KInv
<1>0. /\ cmd'[c].pc = pc
      /\ cmd'[c] = IF pc = "over" THEN Over
                   ELSE [pc |-> pc, creds |-> cmd[c].creds, old |-> cmd[c].old]
      /\ cmd' = [cmd EXCEPT ![c] = cmd'[c]]
  BY Moved, Zenon
<1>1. /\ cmd'[c].pc = pc
      /\ cmd'[c].creds = cmd[c].creds \/ (pc = "over" /\ cmd'[c].creds = NoLogin)
      /\ \A d \in Commands \ {c} : cmd'[d] = cmd[d]
  <2>1. \A d \in Commands \ {c} : cmd'[d] = cmd[d]
    BY <1>0 DEF TypeOK
  <2>2. cmd'[c].creds = cmd[c].creds \/ (pc = "over" /\ cmd'[c].creds = NoLogin)
    <3>1. CASE pc = "over"
      <4>1. cmd'[c] = Over
        BY <1>0, <3>1, Zenon
      <4> QED BY <3>1, <4>1 DEF Over
    <3>2. CASE pc # "over"
      <4>1. cmd'[c] = [pc |-> pc, creds |-> cmd[c].creds, old |-> cmd[c].old]
        BY <1>0, <3>2, Zenon
      <4> QED BY <4>1
    <3> QED BY <3>1, <3>2
  <2> QED BY <1>0, <2>1, <2>2
<1>2. TypeOK'
  <2>1. cmd'[c] \in [pc : Places, creds : 0 .. issued, old : 0 .. issued]
    <3>1. cmd[c] \in [pc : Places, creds : 0 .. issued, old : 0 .. issued]
          /\ issued \in Nat
      BY DEF TypeOK
    <3>2. pc = "over" \/ pc # "over"
      OBVIOUS
    <3> QED BY <1>0, <3>1, <3>2 DEF Over, NoLogin
  <2>2. cmd' \in [Commands -> [pc : Places, creds : 0 .. issued, old : 0 .. issued]]
    BY <1>0, <2>1 DEF TypeOK
  <2>3. stored' \in 0 .. issued /\ refresh' \subseteq 1 .. issued
    <3>1. issued \in Nat /\ stored \in 0 .. issued /\ refresh \subseteq 1 .. issued
      BY DEF TypeOK
    <3>2. 0 \in 0 .. issued
      BY <3>1
    <3>3. stored' = 0 \/ stored' = stored
      BY Zenon DEF NoLogin
    <3>4. refresh' \subseteq refresh
      OBVIOUS
    <3> QED BY <3>1, <3>2, <3>3, <3>4
  <2> QED BY <2>2, <2>3 DEF TypeOK
<1>3. OneRefreshToken'
  BY DEF KInv, OneRefreshToken
<1>4. StoredLoginLives'
  <2> SUFFICES ASSUME ~ withdrawn', stored' # NoLogin, stored' \notin refresh'
               PROVE  \E d \in Commands :
                        \/ cmd'[d].pc = "save" /\ cmd'[d].old = stored'
                        \/ cmd'[d].pc = "delete" /\ cmd'[d].creds = stored'
    BY DEF StoredLoginLives
  <2>1. stored' = stored /\ cmd[c].pc \notin {"save", "delete"} /\ ~ withdrawn
    OBVIOUS
  <2>2. CASE stored \in refresh
    BY <1>1, <2>1, <2>2
  <2>3. CASE stored \notin refresh
    <3>1. PICK d \in Commands : \/ cmd[d].pc = "save" /\ cmd[d].old = stored
                                \/ cmd[d].pc = "delete" /\ cmd[d].creds = stored
      BY <2>1, <2>3 DEF KInv, StoredLoginLives
    <3> QED BY <1>1, <2>1, <3>1
  <2> QED BY <2>2, <2>3
<1>5. ASSUME NEW d \in Commands PROVE Holds(d)' /\ Refused(d)' /\ Fresh(d)' /\ Alone(d)'
  <2>0. Holds(d) /\ Refused(d) /\ Fresh(d) /\ Alone(d)
    BY DEF KInv
  <2>1. Holds(d)'
    <3>1. CASE d = c
      <4>1. pc \in Holding => pc # "over"
        BY DEF Holding
      <4> QED BY <1>1, <2>0, <3>1, <4>1 DEF Holds
    <3>2. CASE d # c
      BY <1>1, <2>0, <3>2 DEF Holds
    <3> QED BY <3>1, <3>2
  <2>2. Refused(d)'
    BY <1>1, <2>0 DEF Refused
  <2>3. Fresh(d)'
    <3> SUFFICES ASSUME cmd'[d].pc = "save" PROVE Fresh(d)'
      BY DEF Fresh
    <3>1. d # c /\ cmd'[d] = cmd[d] /\ cmd[d].pc = "save"
      BY <1>1
    <3>2. cmd[d].creds # NoLogin
      BY <2>0, <3>1 DEF Holds, Holding
    <3>3. cmd[c].creds # cmd[d].creds
      BY <2>0, <3>1 DEF Fresh
    <3>4. \A e \in Commands \ {d} : cmd'[e].creds # cmd'[d].creds
      BY <1>1, <2>0, <3>1, <3>2 DEF Fresh
    <3>5. withdrawn' \/ cmd'[d].creds \in refresh'
      BY <2>0, <3>1, <3>3 DEF Fresh
    <3>6. stored' # cmd'[d].creds
      BY <2>0, <3>1, <3>2 DEF Fresh
    <3> QED BY <3>4, <3>5, <3>6 DEF Fresh
  <2>4. Alone(d)'
    BY <1>1, <2>0 DEF Alone
  <2> QED BY <2>1, <2>2, <2>3, <2>4
<1> QED BY <1>2, <1>3, <1>4, <1>5 DEF KInv

\* Tokens go, and no command moves.
LEMMA LapseStep ==
  ASSUME KInv, UNCHANGED <<issued, origin, stored, cmd, raced>>,
         access' \subseteq access, refresh' \subseteq refresh,
         (refresh' = refresh /\ withdrawn' = withdrawn) \/ withdrawn' = TRUE
  PROVE  KInv'
<1>1. withdrawn' \in BOOLEAN /\ (withdrawn => withdrawn')
  BY DEF KInv, TypeOK
<1>2. TypeOK'
  BY <1>1 DEF KInv, TypeOK
<1>3. OneRefreshToken'
  BY DEF KInv, OneRefreshToken
<1>4. StoredLoginLives'
  BY DEF KInv, StoredLoginLives
<1>5. ASSUME NEW d \in Commands PROVE Holds(d)' /\ Refused(d)' /\ Fresh(d)' /\ Alone(d)'
  <2>0. Holds(d) /\ Refused(d) /\ Fresh(d) /\ Alone(d)
    BY DEF KInv
  <2>1. Holds(d)' /\ Refused(d)' /\ Alone(d)'
    BY <2>0 DEF Holds, Refused, Alone
  <2>2. Fresh(d)'
    BY <2>0, <1>1 DEF Fresh
  <2> QED BY <2>1, <2>2
<1> QED BY <1>2, <1>3, <1>4, <1>5 DEF KInv

LEMMA AuthenticateStep ==
  ASSUME KInv, NEW c \in Commands, Authenticate(c)
  PROVE  KInv'
<1> TypeOK
  BY DEF KInv
<1> DEFINE pc == IF cmd[c].creds \in refresh THEN "rotate" ELSE "refused"
<1>0. /\ cmd[c].pc = "refresh" /\ Goto(c, pc)
      /\ UNCHANGED <<issued, origin, access, refresh, stored, withdrawn>>
      /\ raced' = (raced \/ \E d \in Commands \ {c} :
                              cmd[d].pc = "rotate" /\ cmd[d].creds = cmd[c].creds)
  BY Zenon DEF Authenticate, server
<1>1. pc \in {"rotate", "refused"} /\ (pc = "rotate" <=> cmd[c].creds \in refresh)
  OBVIOUS
<1> HIDE DEF pc
<1>2. cmd'[c] = [pc |-> pc, creds |-> cmd[c].creds, old |-> cmd[c].old]
      /\ cmd' = [cmd EXCEPT ![c] = cmd'[c]]
  <2>1. cmd'[c] = (IF pc = "over" THEN Over
                   ELSE [pc |-> pc, creds |-> cmd[c].creds, old |-> cmd[c].old])
        /\ cmd' = [cmd EXCEPT ![c] = cmd'[c]]
    BY <1>0, Moved, Zenon
  <2>2. pc # "over"
    BY <1>1
  <2> QED BY <2>1, <2>2, Zenon
<1>3. /\ cmd'[c].pc = pc /\ cmd'[c].creds = cmd[c].creds /\ cmd'[c].old = cmd[c].old
      /\ \A d \in Commands \ {c} : cmd'[d] = cmd[d]
  BY <1>2 DEF TypeOK
<1>4. TypeOK'
  <2>1. cmd'[c] \in [pc : Places, creds : 0 .. issued, old : 0 .. issued]
    <3>1. cmd[c] \in [pc : Places, creds : 0 .. issued, old : 0 .. issued]
      BY DEF TypeOK
    <3>2. pc \in Places
      BY <1>1 DEF Places
    <3> QED BY <1>2, <3>1, <3>2
  <2>2. cmd' \in [Commands -> [pc : Places, creds : 0 .. issued, old : 0 .. issued]]
    BY <1>2, <2>1 DEF TypeOK
  <2>3. raced' \in BOOLEAN
    BY <1>0, Zenon
  <2> QED BY <1>0, <2>2, <2>3 DEF TypeOK
<1>5. OneRefreshToken' /\ StoredLoginLives'
  <2>1. OneRefreshToken'
    BY <1>0 DEF KInv, OneRefreshToken
  <2>2. \A d \in Commands : cmd[d].pc \in {"save", "delete"} => cmd'[d] = cmd[d]
    BY <1>0, <1>3
  <2>3. StoredLoginLives'
    BY <1>0, <2>2 DEF KInv, StoredLoginLives
  <2> QED BY <2>1, <2>3
<1>6. ASSUME NEW d \in Commands PROVE Holds(d)' /\ Refused(d)' /\ Fresh(d)' /\ Alone(d)'
  <2>0. /\ Holds(d) /\ Refused(d) /\ Fresh(d) /\ Alone(d)
        /\ Holds(c) /\ \A e \in Commands : Alone(e)
    BY DEF KInv
  <2>1. Holds(d)'
    BY <1>0, <1>3, <2>0 DEF Holds, Holding
  <2>2. Refused(d)'
    BY <1>0, <1>1, <1>3, <2>0 DEF Refused
  <2>3. Fresh(d)'
    BY <1>0, <1>1, <1>3, <2>0 DEF Fresh
  <2>4. Alone(d)'
    <3> SUFFICES ASSUME ~ raced', cmd'[d].pc = "rotate" PROVE Alone(d)'
      BY DEF Alone
    <3>1. ~ raced /\ \A e \in Commands \ {c} :
                        cmd[e].pc = "rotate" => cmd[e].creds # cmd[c].creds
      BY <1>0
    <3>2. cmd'[d].creds = cmd[d].creds
      BY <1>3
    <3>3. d = c => cmd[c].creds \in refresh
      BY <1>1, <1>3
    <3>4. \A n \in refresh : origin[n] = origin[cmd[d].creds] => n = cmd[d].creds
      <4>1. CASE d = c
        BY <3>1, <3>3, <4>1 DEF KInv, OneRefreshToken
      <4>2. CASE d # c
        BY <1>3, <2>0, <3>1, <4>2 DEF Alone
      <4> QED BY <4>1, <4>2
    <3>5. ASSUME NEW e \in Commands \ {d}, cmd'[e].pc = "rotate"
          PROVE  origin[cmd[e].creds] # origin[cmd[d].creds]
      <4>1. CASE e # c /\ d # c
        BY <1>3, <2>0, <3>1, <3>5, <4>1 DEF Alone
      <4>2. CASE d = c
        BY <1>3, <2>0, <3>1, <3>3, <3>5, <4>2 DEF Alone
      <4>3. CASE e = c
        <5>1. cmd[c].creds \in refresh /\ d # c
          BY <1>1, <1>3, <3>5, <4>3
        <5> QED BY <1>3, <2>0, <3>1, <4>3, <5>1 DEF Alone
      <4> QED BY <4>1, <4>2, <4>3
    <3>6. ASSUME NEW e \in Commands \ {d}, cmd'[e].pc = "rotate"
          PROVE  origin'[cmd'[e].creds] # origin'[cmd'[d].creds]
      BY <1>0, <1>3, <3>2, <3>5, <3>6
    <3> QED BY <1>0, <3>2, <3>4, <3>6 DEF Alone
  <2> QED BY <2>1, <2>2, <2>3, <2>4
<1> QED BY <1>4, <1>5, <1>6 DEF KInv

LEMMA RunStep ==
  ASSUME KInv, NEW c \in Commands, NEW kind \in {"call", "browser", "revoke"},
         Run(c, kind)
  PROVE  KInv'
<1> TypeOK
  BY DEF KInv
<1> DEFINE pc == CASE stored = NoLogin /\ kind = "call"   -> "over"
                   [] stored = NoLogin /\ kind = "revoke" -> "delete"
                   [] OTHER -> kind
<1>0. /\ cmd[c].pc = "idle"
      /\ cmd' = [cmd EXCEPT ![c] = [pc |-> pc, creds |-> stored, old |-> NoLogin]]
      /\ UNCHANGED <<issued, origin, access, refresh, stored, raced, withdrawn>>
  BY Zenon DEF Run, server
<1>1. /\ pc \in {"over", "delete", "call", "browser", "revoke"}
      /\ pc = "call" => stored # NoLogin
  OBVIOUS
<1> HIDE DEF pc
<1>2. /\ cmd'[c] = [pc |-> pc, creds |-> stored, old |-> NoLogin]
      /\ \A d \in Commands \ {c} : cmd'[d] = cmd[d]
  BY <1>0 DEF TypeOK
<1>3. cmd'[c].pc = pc /\ cmd'[c].creds = stored
  BY <1>2
<1>4. TypeOK'
  <2>1. cmd'[c] \in [pc : Places, creds : 0 .. issued, old : 0 .. issued]
    BY <1>1, <1>2 DEF TypeOK, Places, NoLogin
  <2>2. cmd' \in [Commands -> [pc : Places, creds : 0 .. issued, old : 0 .. issued]]
    BY <1>0, <1>2, <2>1 DEF TypeOK
  <2> QED BY <1>0, <2>2 DEF TypeOK
<1>5. OneRefreshToken' /\ StoredLoginLives'
  <2>1. OneRefreshToken'
    BY <1>0 DEF KInv, OneRefreshToken
  <2>2. \A d \in Commands : cmd[d].pc \in {"save", "delete"} => cmd'[d] = cmd[d]
    BY <1>0, <1>2
  <2>3. StoredLoginLives'
    BY <1>0, <2>2 DEF KInv, StoredLoginLives
  <2> QED BY <2>1, <2>3
<1>6. ASSUME NEW d \in Commands PROVE Holds(d)' /\ Refused(d)' /\ Fresh(d)' /\ Alone(d)'
  <2>0. Holds(d) /\ Refused(d) /\ Fresh(d) /\ Alone(d)
    BY DEF KInv
  <2>1. CASE d = c
    BY <1>1, <1>3, <2>1 DEF Holds, Holding, Refused, Fresh, Alone
  <2>2. CASE d # c
    <3>1. cmd'[d] = cmd[d] /\ cmd'[c].pc # "rotate"
      BY <1>1, <1>2, <1>3, <2>2
    <3>2. Holds(d)' /\ Refused(d)' /\ Alone(d)'
      BY <1>0, <1>2, <2>0, <3>1 DEF Holds, Refused, Alone
    <3>3. Fresh(d)'
      BY <1>0, <1>2, <1>3, <2>0, <3>1 DEF Fresh
    <3> QED BY <3>2, <3>3
  <2> QED BY <2>1, <2>2
<1> QED BY <1>4, <1>5, <1>6 DEF KInv

LEMMA SaveStep ==
  ASSUME KInv, NEW c \in Commands, Save(c)
  PROVE  KInv'
<1> TypeOK
  BY DEF KInv
<1> DEFINE pc == AfterSave(c)
<1>0. /\ cmd[c].pc = "save" /\ stored' = cmd[c].creds
      /\ cmd' = [cmd EXCEPT ![c] = [pc |-> pc, creds |-> cmd[c].creds, old |-> NoLogin]]
      /\ UNCHANGED <<issued, origin, access, refresh, raced, withdrawn>>
  BY Zenon DEF Save, server
<1>1. pc \in {"call", "retry"}
  BY DEF AfterSave
<1> HIDE DEF pc
<1>2. /\ cmd'[c] = [pc |-> pc, creds |-> cmd[c].creds, old |-> NoLogin]
      /\ \A d \in Commands \ {c} : cmd'[d] = cmd[d]
  BY <1>0 DEF TypeOK
<1>3. cmd'[c].pc = pc /\ cmd'[c].creds = cmd[c].creds
  BY <1>2
<1>4. TypeOK'
  <2>1. cmd'[c] \in [pc : Places, creds : 0 .. issued, old : 0 .. issued]
        /\ cmd[c].creds \in 0 .. issued
    BY <1>1, <1>2 DEF TypeOK, Places, NoLogin
  <2>2. cmd' \in [Commands -> [pc : Places, creds : 0 .. issued, old : 0 .. issued]]
    BY <1>0, <1>2, <2>1 DEF TypeOK
  <2> QED BY <1>0, <2>1, <2>2 DEF TypeOK
<1>5. Holds(c) /\ Fresh(c)
  BY DEF KInv
<1>6. OneRefreshToken' /\ StoredLoginLives'
  BY <1>0, <1>5 DEF KInv, OneRefreshToken, StoredLoginLives, Fresh
<1>7. ASSUME NEW d \in Commands PROVE Holds(d)' /\ Refused(d)' /\ Fresh(d)' /\ Alone(d)'
  <2>0. Holds(d) /\ Refused(d) /\ Fresh(d) /\ Alone(d)
    BY DEF KInv
  <2>1. CASE d = c
    BY <1>0, <1>1, <1>3, <1>5, <2>1 DEF Holds, Holding, Refused, Fresh, Alone
  <2>2. CASE d # c
    <3>1. cmd'[d] = cmd[d] /\ cmd'[c].pc # "rotate" /\ cmd[c].pc # "rotate"
      BY <1>0, <1>1, <1>2, <1>3, <2>2
    <3>2. Holds(d)' /\ Refused(d)' /\ Alone(d)'
      BY <1>0, <1>2, <2>0, <3>1 DEF Holds, Refused, Alone
    <3>3. Fresh(d)'
      BY <1>0, <1>2, <1>3, <1>5, <2>0, <2>2, <3>1 DEF Fresh
    <3> QED BY <3>2, <3>3
  <2> QED BY <2>1, <2>2
<1> QED BY <1>4, <1>6, <1>7 DEF KInv

\* A pair is issued for a new login, or in place of one that is spent.
LEMMA IssueStep ==
  ASSUME KInv, NEW c \in Commands, NEW arrives \in BOOLEAN, NEW from, NEW gone,
         IssuePair(from, gone), Receive(c, arrives, from),
         \/ from = NoLogin /\ gone = {} /\ cmd[c].pc = "code" /\ withdrawn' = withdrawn
         \/ /\ from = cmd[c].creds /\ gone = {cmd[c].creds} /\ cmd[c].pc = "rotate"
            /\ withdrawn' = (withdrawn \/ ~ arrives),
         UNCHANGED <<stored, raced>>
  PROVE  KInv'
<1> TypeOK
  BY DEF KInv
<1>0. /\ issued \in Nat /\ from \in 0 .. issued
      /\ \A d \in Commands : cmd[d].creds \in 0 .. issued /\ cmd[d].old \in 0 .. issued
      /\ refresh \subseteq 1 .. issued /\ stored \in 0 .. issued
  BY DEF TypeOK, NoLogin
<1>1. /\ issued' = issued + 1
      /\ origin' \in [1 .. issued' -> 1 .. issued']
      /\ \A m \in 1 .. issued : origin'[m] = origin[m]
      /\ origin'[issued'] = IF from = NoLogin THEN issued' ELSE origin[from]
      /\ access' \subseteq 1 .. issued' /\ refresh' \subseteq 1 .. issued'
      /\ refresh' = (refresh \ gone) \cup {issued'}
  BY <1>0, Pairs, Zenon
<1>2. /\ cmd'[c].pc \in {"save", "over"}
      /\ cmd'[c].pc = "save" => arrives /\ cmd'[c].creds = issued' /\ cmd'[c].old = from
      /\ cmd'[c].pc = "over" => ~ arrives /\ cmd'[c].creds = NoLogin
      /\ \A d \in Commands \ {c} : cmd'[d] = cmd[d]
      /\ cmd'[c] \in [pc : Places, creds : 0 .. issued', old : 0 .. issued']
      /\ cmd' = [cmd EXCEPT ![c] = cmd'[c]]
  <2>1. CASE arrives
    <3>1. cmd' = [cmd EXCEPT ![c] = [pc |-> "save", creds |-> issued', old |-> from]]
      BY <1>1, <2>1, Zenon DEF Receive
    <3>2. /\ cmd'[c] = [pc |-> "save", creds |-> issued', old |-> from]
          /\ \A d \in Commands \ {c} : cmd'[d] = cmd[d]
      BY <3>1 DEF TypeOK
    <3>3. issued' \in 0 .. issued' /\ from \in 0 .. issued'
      BY <1>0, <1>1
    <3>4. cmd'[c] \in [pc : Places, creds : 0 .. issued', old : 0 .. issued']
      BY <3>2, <3>3 DEF Places
    <3>5. cmd' = [cmd EXCEPT ![c] = cmd'[c]]
      BY <3>1, <3>2, Zenon
    <3>6. cmd'[c].pc = "save" /\ cmd'[c].creds = issued' /\ cmd'[c].old = from
      BY <3>2
    <3> QED BY <2>1, <3>2, <3>4, <3>5, <3>6
  <2>2. CASE ~ arrives
    <3>1. cmd' = [cmd EXCEPT ![c] = Over]
      BY <2>2, Zenon DEF Receive
    <3>2. cmd'[c] = Over /\ \A d \in Commands \ {c} : cmd'[d] = cmd[d]
      BY <3>1 DEF TypeOK
    <3>3. 0 \in 0 .. issued'
      BY <1>0, <1>1
    <3>4. cmd'[c] \in [pc : Places, creds : 0 .. issued', old : 0 .. issued']
      BY <3>2, <3>3 DEF Places, Over, NoLogin
    <3>5. cmd' = [cmd EXCEPT ![c] = cmd'[c]]
      BY <3>1, <3>2, Zenon
    <3>6. cmd'[c].pc = "over" /\ cmd'[c].creds = NoLogin
      BY <3>2 DEF Over
    <3> QED BY <2>2, <3>2, <3>4, <3>5, <3>6
  <2> QED BY <2>1, <2>2
<1>3. withdrawn' \in BOOLEAN /\ (withdrawn => withdrawn')
  BY DEF TypeOK
<1>4. TypeOK'
  <2>1. \A d \in Commands :
          cmd'[d] \in [pc : Places, creds : 0 .. issued', old : 0 .. issued']
    <3> SUFFICES ASSUME NEW d \in Commands \ {c}
                 PROVE  cmd'[d] \in [pc : Places, creds : 0 .. issued', old : 0 .. issued']
      BY <1>2
    <3>1. cmd[d] \in [pc : Places, creds : 0 .. issued, old : 0 .. issued]
      BY DEF TypeOK
    <3>2. 0 .. issued \subseteq 0 .. issued'
      BY <1>0, <1>1
    <3> QED BY <1>2, <3>1, <3>2
  <2>2. cmd' \in [Commands -> [pc : Places, creds : 0 .. issued', old : 0 .. issued']]
    BY <1>2, <2>1 DEF TypeOK
  <2>3. issued' \in Nat /\ stored' \in 0 .. issued'
    BY <1>0, <1>1
  <2> QED BY <1>1, <1>3, <2>2, <2>3 DEF TypeOK
<1>5. /\ \A m \in 1 .. issued : origin[m] \in 1 .. issued
      /\ issued' \notin 0 .. issued
      /\ from # NoLogin => from \in 1 .. issued
  BY <1>0, <1>1, SMTT(30) DEF TypeOK, NoLogin
<1>6. Holds(c) /\ Alone(c) /\ Fresh(c) /\ \A d \in Commands : Alone(d) /\ Fresh(d)
  BY DEF KInv
<1>7. from # NoLogin => cmd[c].pc = "rotate" /\ from = cmd[c].creds /\ gone = {from}
  OBVIOUS
<1>8. from = NoLogin => cmd[c].pc = "code" /\ gone = {} /\ withdrawn' = withdrawn
  BY <1>6 DEF Holds, Holding
<1>9. \A m \in refresh \ gone : ~ raced => origin'[m] # origin'[issued']
  <2> SUFFICES ASSUME NEW m \in refresh \ gone, ~ raced
               PROVE  origin'[m] # origin'[issued']
    OBVIOUS
  <2>1. m \in 1 .. issued /\ origin'[m] = origin[m] /\ origin[m] \in 1 .. issued
    BY <1>0, <1>1, <1>5
  <2>2. CASE from = NoLogin
    BY <1>0, <1>1, <1>5, <2>1, <2>2
  <2>3. CASE from # NoLogin
    BY <1>1, <1>6, <1>7, <2>1, <2>3 DEF Alone
  <2> QED BY <2>2, <2>3
<1>10. OneRefreshToken'
  <2> SUFFICES ASSUME ~ raced, NEW m \in refresh', NEW n \in refresh',
                      origin'[m] = origin'[n]
               PROVE  m = n
    BY DEF OneRefreshToken
  <2>1. CASE m = issued' \/ n = issued'
    BY <1>1, <1>9, <2>1
  <2>2. CASE m # issued' /\ n # issued'
    <3>1. m \in refresh /\ n \in refresh /\ m \in 1 .. issued /\ n \in 1 .. issued
      BY <1>0, <1>1, <2>2
    <3> QED BY <1>1, <3>1 DEF KInv, OneRefreshToken
  <2> QED BY <2>1, <2>2
<1>11. StoredLoginLives'
  <2> SUFFICES ASSUME ~ withdrawn', stored # NoLogin, stored \notin refresh'
               PROVE  \E d \in Commands :
                        \/ cmd'[d].pc = "save" /\ cmd'[d].old = stored
                        \/ cmd'[d].pc = "delete" /\ cmd'[d].creds = stored
    BY DEF StoredLoginLives
  <2>1. CASE stored \in refresh
    <3>1. stored \in gone
      BY <1>1, <2>1
    <3>2. from # NoLogin /\ stored = from /\ arrives
      BY <1>7, <1>8, <3>1
    <3> QED BY <1>2, <3>2
  <2>2. CASE stored \notin refresh
    <3>1. PICK d \in Commands : \/ cmd[d].pc = "save" /\ cmd[d].old = stored
                                \/ cmd[d].pc = "delete" /\ cmd[d].creds = stored
      BY <1>3, <2>2 DEF KInv, StoredLoginLives
    <3>2. d # c
      BY <1>7, <1>8, <3>1
    <3> QED BY <1>2, <3>1, <3>2
  <2> QED BY <2>1, <2>2
<1>12. ASSUME NEW d \in Commands PROVE Holds(d)' /\ Refused(d)' /\ Fresh(d)' /\ Alone(d)'
  <2>0. Holds(d) /\ Refused(d) /\ Fresh(d) /\ Alone(d)
    BY DEF KInv
  <2>1. CASE d = c
    <3>1. Holds(d)' /\ Refused(d)' /\ Alone(d)'
      BY <1>0, <1>1, <1>2, <2>1 DEF Holds, Holding, Refused, Alone, NoLogin
    <3>2. Fresh(d)'
      BY <1>0, <1>1, <1>2, <1>5, <2>1 DEF Fresh
    <3> QED BY <3>1, <3>2
  <2>2. CASE d # c
    <3>1. cmd'[d] = cmd[d] /\ cmd[d].creds \in 0 .. issued
      BY <1>0, <1>2, <2>2
    <3>2. Holds(d)' /\ Refused(d)'
      BY <1>1, <1>5, <2>0, <3>1 DEF Holds, Refused
    <3>3. Fresh(d)'
      <4> SUFFICES ASSUME cmd[d].pc = "save"
                   PROVE  /\ withdrawn' \/ cmd[d].creds \in refresh'
                          /\ stored # cmd[d].creds
                          /\ \A e \in Commands \ {d} : cmd'[e].creds # cmd[d].creds
        BY <3>1 DEF Fresh
      <4>1. cmd[c].creds # cmd[d].creds /\ stored # cmd[d].creds
            /\ (withdrawn \/ cmd[d].creds \in refresh)
        BY <2>0, <2>2 DEF Fresh
      <4>2. cmd[d].creds \notin gone
        BY <1>7, <1>8, <4>1
      <4>3. cmd'[c].creds # cmd[d].creds
        BY <1>2, <1>5, <2>0, <3>1 DEF Holds, Holding
      <4> QED BY <1>1, <1>2, <1>3, <2>0, <4>1, <4>2, <4>3 DEF Fresh
    <3>4. Alone(d)'
      <4> SUFFICES ASSUME ~ raced, cmd[d].pc = "rotate"
                   PROVE  Alone(d)'
        BY <3>1 DEF Alone
      <4>1. cmd[d].creds \in 1 .. issued
        BY <1>0, <2>0 DEF Holds, Holding, NoLogin
      <4>2. origin'[cmd[d].creds] = origin[cmd[d].creds]
        BY <1>1, <4>1
      <4>3. origin'[issued'] # origin[cmd[d].creds]
        <5>1. CASE from = NoLogin
          BY <1>0, <1>1, <1>5, <4>1, <5>1
        <5>2. CASE from # NoLogin
          BY <1>1, <1>6, <1>7, <2>2, <5>2 DEF Alone
        <5> QED BY <5>1, <5>2
      <4>4. ASSUME NEW n \in refresh', origin'[n] = origin[cmd[d].creds]
            PROVE  n = cmd[d].creds
        <5>1. n \in refresh /\ n \in 1 .. issued
          BY <1>0, <1>1, <4>3, <4>4
        <5> QED BY <1>1, <2>0, <4>4, <5>1 DEF Alone
      <4>5. ASSUME NEW e \in Commands \ {d}, cmd'[e].pc = "rotate"
            PROVE  origin'[cmd'[e].creds] # origin[cmd[d].creds]
        <5>1. e # c /\ cmd'[e] = cmd[e]
          BY <1>2, <4>5
        <5>2. cmd[e].creds \in 1 .. issued
          BY <1>0, <4>5, <5>1 DEF KInv, Holds, Holding, NoLogin
        <5> QED BY <1>1, <2>0, <4>5, <5>1, <5>2 DEF Alone
      <4> QED BY <3>1, <4>2, <4>4, <4>5 DEF Alone
    <3> QED BY <3>2, <3>3, <3>4
  <2> QED BY <2>1, <2>2
<1> QED BY <1>4, <1>10, <1>11, <1>12 DEF KInv

LEMMA NextKeepsInv == KInv /\ [Next]_vars => KInv'
<1> SUFFICES ASSUME KInv, [Next]_vars PROVE KInv'
  OBVIOUS
<1>1. TypeOK /\ withdrawn \in BOOLEAN
  BY DEF KInv, TypeOK
<1>2. ASSUME NEW c \in Commands, Call(c) \/ RequestFails(c) \/ NotApproved(c) \/ Approve(c)
      PROVE  KInv'
  <2>1. UNCHANGED <<issued, origin, access, refresh, stored, raced, withdrawn>>
    BY <1>2 DEF Call, RequestFails, NotApproved, Approve, server
  <2>2. cmd[c].pc \in {"call", "retry", "browser", "code", "refresh", "rotate"}
    BY <1>2 DEF Call, RequestFails, NotApproved, Approve
  <2>3. PICK pc \in {"over", "refresh", "code"} :
          Goto(c, pc) /\ (pc = "refresh" => cmd[c].pc = "call")
    <3>1. CASE Call(c)
      <4> DEFINE pc == CASE cmd[c].creds \in access -> "over"
               [] cmd[c].creds \notin access /\ cmd[c].pc = "call"  -> "refresh"
               [] cmd[c].creds \notin access /\ cmd[c].pc = "retry" -> "over"
      <4>1. cmd[c].pc \in {"call", "retry"} /\ Goto(c, pc)
        BY <3>1, Zenon DEF Call
      <4>2. pc \in {"over", "refresh"} /\ (pc = "refresh" => cmd[c].pc = "call")
        BY <4>1
      <4> HIDE DEF pc
      <4> QED BY <4>1, <4>2
    <3>2. CASE RequestFails(c) \/ NotApproved(c)
      <4>1. Goto(c, "over")
        BY <3>2 DEF RequestFails, NotApproved, AfterError
      <4> QED BY <4>1
    <3>3. CASE Approve(c)
      <4>1. Goto(c, "code")
        BY <3>3 DEF Approve
      <4> QED BY <4>1
    <3> QED BY <1>2, <3>1, <3>2, <3>3
  <2>4. /\ pc \in Places \ {"save", "rotate", "refused"}
        /\ pc \in Holding => cmd[c].pc \in Holding
    BY <2>3 DEF Places, Holding
  <2> QED BY <1>1, <2>1, <2>2, <2>3, <2>4, CalmStep
<1>3. ASSUME NEW c \in Commands, Forget(c) \/ Delete(c) \/ KeychainFails(c)
      PROVE  KInv'
  <2>1. Goto(c, "over") /\ UNCHANGED <<issued, origin, access, refresh, raced>>
    BY <1>3 DEF Forget, Delete, KeychainFails, server
  <2>2. /\ withdrawn' \in BOOLEAN /\ (withdrawn => withdrawn')
        /\ \/ stored' = NoLogin
           \/ stored' = stored /\ (cmd[c].pc \in {"save", "delete"} => withdrawn')
    BY <1>1, <1>3 DEF Forget, Delete, KeychainFails
  <2>3. "over" \in Places \ {"save", "rotate", "refused"} /\ "over" \notin Holding
    BY DEF Places, Holding
  <2> QED BY <2>1, <2>2, <2>3, CalmStep
<1>4. ASSUME NEW c \in Commands, NEW works \in BOOLEAN, Revoke(c, works)
      PROVE  KInv'
  <2>1. /\ Goto(c, "delete") /\ cmd[c].pc = "revoke"
        /\ UNCHANGED <<issued, origin, access, stored, raced, withdrawn>>
        /\ \/ refresh' = refresh
           \/ refresh' = refresh \ {cmd[c].creds}
    BY <1>4 DEF Revoke
  <2>2. "delete" \in Places \ {"save", "rotate", "refused"} /\ "delete" \notin Holding
    BY DEF Places, Holding
  <2> QED BY <1>1, <2>1, <2>2, CalmStep
<1>5. ASSUME NEW c \in Commands, NEW works \in BOOLEAN, Exchange(c, works) \/ Rotate(c, works)
      PROVE  KInv'
  <2>1. CASE Exchange(c, works)
    <3>1. withdrawn' = withdrawn
      BY <2>1 DEF Exchange
    <3> QED BY <2>1, <3>1, IssueStep DEF Exchange
  <2>2. CASE Rotate(c, works)
    BY <2>2, IssueStep DEF Rotate, Spent
  <2> QED BY <1>5, <2>1, <2>2
<1>6. ASSUME NEW n \in 1 .. issued, ExpireAccess(n) \/ ExpireRefresh(n)
      PROVE  KInv'
  BY <1>6, LapseStep DEF ExpireAccess, ExpireRefresh
<1>7. CASE ChangePassword
  BY <1>7, LapseStep DEF ChangePassword
<1>8. CASE UNCHANGED vars
  BY <1>8, LapseStep DEF vars, server
<1> QED
  BY <1>2, <1>3, <1>4, <1>5, <1>6, <1>7, <1>8, AuthenticateStep, RunStep, SaveStep
  DEF Next, Step

LEMMA InvAlways == Spec => []KInv
BY InitInv, NextKeepsInv, PTL DEF Spec

-----------------------------------------------------------------------------
(***************************************************************************)
(* The theorems.                                                           *)
(***************************************************************************)

\* Every variable keeps its type, for any number of commands.
THEOREM TokensTypeCorrect == Spec => []TypeOK
<1>1. KInv => TypeOK
  BY DEF KInv
<1> QED BY <1>1, InvAlways, PTL

\* A login never has two good refresh tokens, however many commands refresh it
\* and whichever answers are lost, as long as no token is authenticated for two
\* of them before it is swapped.
THEOREM OneTokenPerLogin == Spec => []OneRefreshToken
<1>1. KInv => OneRefreshToken
  BY DEF KInv
<1> QED BY <1>1, InvAlways, PTL

\* The keychain holds a login that can go on, or one that a command is about to
\* replace or delete, for any number of commands.
THEOREM KeychainKeepsUp == Spec => []StoredLoginLives
<1>1. KInv => StoredLoginLives
  BY DEF KInv
<1> QED BY <1>1, InvAlways, PTL

\* No command gives up the login it loaded while that could go on, for any
\* number of commands.
THEOREM GivesUpOnlyDeadLogins == Spec => ForgetsOnlyDead
<1>1. KInv /\ [Next]_vars =>
        [\A c \in Commands :
           Forget(c) /\ stored = cmd[c].creds => stored \notin refresh]_vars
  BY DEF KInv, Refused, Forget
<1> QED BY <1>1, InvAlways, PTL DEF Spec, ForgetsOnlyDead
=============================================================================
