------------------------------- MODULE Tokens -------------------------------
(***************************************************************************)
(* One user's OAuth tokens on the server, and the commands of the command  *)
(* line client that share one login in the keychain.                       *)
(*                                                                         *)
(* A command loads the login when it starts and keeps it in memory; when   *)
(* its access token is refused it refreshes, saves the new pair and tries  *)
(* once more.  The server authenticates a refresh token, and then swaps it *)
(* for a new pair in a transaction that does not look whether it is still  *)
(* there.  Answers may be lost, the keychain may fail, and commands run at *)
(* the same time.                                                          *)
(***************************************************************************)
EXTENDS Integers, FiniteSets

CONSTANTS Commands  \* runs of the client

ASSUME TokensAssumption == IsFiniteSet(Commands)

\* Pairs of an access and a refresh token are numbered as they are issued.
NoLogin == 0

VARIABLES
  issued,    \* pairs so far
  origin,    \* history, per pair: the pair its login began with
  access,    \* pairs whose access token is good
  refresh,   \* pairs whose refresh token is good
  stored,    \* the keychain: a pair, or NoLogin
  cmd,       \* per command: how far it is, and the pair it has in memory
  raced,     \* history: have two commands authenticated one refresh token?
  withdrawn  \* history: did a refresh token go without its command, or a
             \* command fail to save what it got?

server == <<issued, origin, access, refresh>>
vars   == <<server, stored, cmd, raced, withdrawn>>

Places == {"idle", "browser", "code", "call", "refresh", "rotate", "refused",
           "save", "retry", "revoke", "delete", "over"}

TypeOK ==
  /\ issued \in Nat
  /\ origin \in [1 .. issued -> 1 .. issued]
  /\ access \subseteq 1 .. issued
  /\ refresh \subseteq 1 .. issued
  /\ stored \in 0 .. issued
  /\ cmd \in [Commands -> [pc : Places, creds : 0 .. issued, old : 0 .. issued]]
  /\ raced \in BOOLEAN /\ withdrawn \in BOOLEAN

\* The user has logged in before.
Init ==
  /\ issued = 1 /\ origin = [n \in {1} |-> 1]
  /\ access = {1} /\ refresh = {1}
  /\ stored = 1
  /\ cmd = [c \in Commands |-> [pc |-> "idle", creds |-> NoLogin, old |-> NoLogin]]
  /\ raced = FALSE /\ withdrawn = FALSE

\* A command that is over, well or badly, has nothing in memory.
Over == [pc |-> "over", creds |-> NoLogin, old |-> NoLogin]

Goto(c, pc) ==
  cmd' = [cmd EXCEPT ![c] = IF pc = "over" THEN Over ELSE [@ EXCEPT !.pc = pc]]

-----------------------------------------------------------------------------
(***************************************************************************)
(* The token endpoints.                                                    *)
(***************************************************************************)

\* Mutant: the answer goes out although the commit fails.
AnswerOnly(from, gone) == UNCHANGED <<issued, origin, access, refresh>>

\* createOAuthTokenPair, of the login the pair `from` belongs to; the refresh
\* tokens in gone are deleted in the same transaction.
IssuePair(from, gone) ==
  LET n == issued + 1
  IN  /\ issued' = n
      /\ origin' = [m \in 1 .. n |-> IF m < n THEN origin[m]
                                     ELSE IF from = NoLogin THEN n ELSE origin[from]]
      /\ access' = access \cup {n}
      /\ refresh' = (refresh \ gone) \cup {n}

\* An answer that arrives is a pair to save, in place of an old one; an answer
\* that is lost is an error.
Receive(c, arrives, pair) ==
  cmd' = [cmd EXCEPT ![c] =
            IF arrives THEN [pc |-> "save", creds |-> issued + 1, old |-> pair]
            ELSE Over]

\* oauthAuthorizePost: the user approves in the browser.
Approve(c) ==
  /\ cmd[c].pc = "browser"
  /\ Goto(c, "code")
  /\ UNCHANGED <<server, stored, raced, withdrawn>>

\* oauthTokenAuthorizationCode: a code is good once.
Exchange(c, arrives) ==
  /\ cmd[c].pc = "code"
  /\ IssuePair(NoLogin, {})
  /\ Receive(c, arrives, NoLogin)
  /\ UNCHANGED <<stored, raced, withdrawn>>

\* oauthTokenRefresh authenticates the token outside its transaction ...
Authenticate(c) ==
  /\ cmd[c].pc = "refresh"
  /\ Goto(c, IF cmd[c].creds \in refresh THEN "rotate" ELSE "refused")
  /\ raced' = (raced \/ \E d \in Commands \ {c} :
                          cmd[d].pc = "rotate" /\ cmd[d].creds = cmd[c].creds)
  /\ UNCHANGED <<server, stored, withdrawn>>

\* Mutant: the token that was used is not deleted.
Nothing(c) == {}

\* Mutant: every refresh token of the user is deleted.
AllOfThem(c) == refresh

Spent(c) == {cmd[c].creds}

\* ... and swaps it for a pair, deleted before or not.
Rotate(c, arrives) ==
  /\ cmd[c].pc = "rotate"
  /\ IssuePair(cmd[c].creds, Spent(c))
  /\ Receive(c, arrives, cmd[c].creds)
  /\ withdrawn' = (withdrawn \/ ~ arrives)
  /\ UNCHANGED <<stored, raced>>

\* A token is looked at when it is presented; if it expires, it may as well be
\* while a command is about to present it.
Presented(n) ==
  \E c \in Commands : cmd[c].creds = n /\ cmd[c].pc \in {"call", "retry", "refresh"}

\* An access token expires.
ExpireAccess(n) ==
  /\ n \in access /\ Presented(n)
  /\ access' = access \ {n}
  /\ UNCHANGED <<issued, origin, refresh, stored, cmd, raced, withdrawn>>

\* So does a refresh token.
ExpireRefresh(n) ==
  /\ n \in refresh /\ Presented(n)
  /\ refresh' = refresh \ {n}
  /\ withdrawn' = TRUE
  /\ UNCHANGED <<issued, origin, access, stored, cmd, raced>>

\* DeleteOtherAuthTokens, when the password changes or is cleared.
ChangePassword ==
  /\ access \cup refresh # {}
  /\ access' = {} /\ refresh' = {}
  /\ withdrawn' = TRUE
  /\ UNCHANGED <<issued, origin, stored, cmd, raced>>

-----------------------------------------------------------------------------
(***************************************************************************)
(* The commands.                                                           *)
(***************************************************************************)

\* ResolveConfig loads the login; a call without one is an error.
Run(c, kind) ==
  /\ cmd[c].pc = "idle"
  /\ cmd' = [cmd EXCEPT ![c] =
       [pc    |-> CASE stored = NoLogin /\ kind = "call"   -> "over"
                    [] stored = NoLogin /\ kind = "revoke" -> "delete"
                    [] OTHER -> kind,
        creds |-> stored, old |-> NoLogin]]
  /\ UNCHANGED <<server, stored, raced, withdrawn>>

\* RoundTrip: a request is refused at most twice.
Call(c) ==
  /\ cmd[c].pc \in {"call", "retry"}
  /\ Goto(c, CASE cmd[c].creds \in access -> "over"
               [] cmd[c].creds \notin access /\ cmd[c].pc = "call"  -> "refresh"
               [] cmd[c].creds \notin access /\ cmd[c].pc = "retry" -> "over")
  /\ UNCHANGED <<server, stored, raced, withdrawn>>

\* The next request of a command that has saved a pair: a login asks who it is
\* for, and may refresh in turn; a call is repeated.
AfterSave(c) == IF cmd[c].old = NoLogin THEN "call" ELSE "retry"

\* SaveOAuthCredentials and SetOAuthCredentials.
Save(c) ==
  /\ cmd[c].pc = "save"
  /\ stored' = cmd[c].creds
  /\ cmd' = [cmd EXCEPT ![c] = [pc |-> AfterSave(c), creds |-> @.creds,
                                old |-> NoLogin]]
  /\ UNCHANGED <<server, raced, withdrawn>>

\* refreshAccessToken, told invalid_grant: DeleteOAuthCredentials.
Forget(c) ==
  /\ cmd[c].pc = "refused"
  /\ stored' = NoLogin
  /\ Goto(c, "over")
  /\ UNCHANGED <<server, raced, withdrawn>>

\* logout revokes the refresh token; whether that succeeds is not looked at.
Revoke(c, succeeds) ==
  /\ cmd[c].pc = "revoke"
  /\ refresh' = IF succeeds THEN refresh \ {cmd[c].creds} ELSE refresh
  /\ Goto(c, "delete")
  /\ UNCHANGED <<issued, origin, access, stored, raced, withdrawn>>

Delete(c) ==
  /\ cmd[c].pc = "delete"
  /\ stored' = NoLogin
  /\ Goto(c, "over")
  /\ UNCHANGED <<server, raced, withdrawn>>

\* Mutant: whatever the error was, the login is given up.
GivesUp(c) == "refused"

\* A request that failed is an error, and nothing else.
AfterError(c) == "over"

\* The request does not reach the server, the server fails it, or the code has
\* expired.
RequestFails(c) ==
  /\ cmd[c].pc \in {"code", "call", "refresh", "rotate", "retry"}
  /\ Goto(c, AfterError(c))
  /\ UNCHANGED <<server, stored, raced, withdrawn>>

\* No approval in two minutes, or a refusal.
NotApproved(c) ==
  /\ cmd[c].pc = "browser"
  /\ Goto(c, "over")
  /\ UNCHANGED <<server, stored, raced, withdrawn>>

\* The keychain does not take or give up an entry, or the command is killed.
KeychainFails(c) ==
  /\ cmd[c].pc \in {"save", "refused", "delete"}
  /\ Goto(c, "over")
  /\ withdrawn' = (withdrawn \/ cmd[c].pc # "refused")
  /\ UNCHANGED <<server, stored, raced>>

Step(c) ==
  \/ Authenticate(c) \/ Call(c) \/ Save(c) \/ Forget(c) \/ Delete(c)
  \/ RequestFails(c) \/ NotApproved(c) \/ KeychainFails(c)
  \/ \E works \in BOOLEAN : Exchange(c, works) \/ Rotate(c, works) \/ Revoke(c, works)

Next ==
  \/ \E c \in Commands :
       Step(c) \/ Approve(c) \/ \E kind \in {"call", "browser", "revoke"} : Run(c, kind)
  \/ \E n \in 1 .. issued : ExpireAccess(n) \/ ExpireRefresh(n)
  \/ ChangePassword

Spec == Init /\ [][Next]_vars
-----------------------------------------------------------------------------
(***************************************************************************)
(* Properties.                                                             *)
(***************************************************************************)

\* A login has one good refresh token at most, whatever commands run at once
\* and whichever answers are lost, unless the server authenticated one token
\* for two of them before it swapped it.
OneRefreshToken ==
  ~ raced => \A m, n \in refresh : origin[m] = origin[n] => m = n

\* The keychain holds a login that can go on, or one that a command is about to
\* replace or delete, however many commands refresh, log in and log out at
\* once; unless an answer or an entry was lost, or the server withdrew it.
StoredLoginLives ==
  \/ withdrawn \/ stored \in refresh \cup {NoLogin}
  \/ \E c \in Commands :
       \/ cmd[c].pc = "save" /\ cmd[c].old = stored
       \/ cmd[c].pc = "delete" /\ cmd[c].creds = stored

\* A command never gives up the login it loaded while that could go on.  (It
\* may give up one that another command has saved since.)
ForgetsOnlyDead ==
  [][\A c \in Commands :
       Forget(c) /\ stored = cmd[c].creds => stored \notin refresh]_vars
=============================================================================
