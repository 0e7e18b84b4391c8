--------------------------- MODULE MobileApp_proofs ---------------------------
(***************************************************************************)
(* Theorems about MobileApp, for any accounts and any bounds: the type     *)
(* invariant, AcknowledgedEditStays, ListsOfAccount and NothingLeftBehind. *)
(*                                                                         *)
(* The mutex is what the argument rests on: who waits for it has done      *)
(* nothing yet (Waiting), so that a command finds what the one before it   *)
(* left (Ahead).  Placed says what may be waiting in every phase of the    *)
(* app, Kept what an account that is not loose has on the device, and why  *)
(* something will take it away: the session that holds its bundle, or the  *)
(* view model that is about to cancel its work.                            *)
(***************************************************************************)
EXTENDS MobileApp, TLAPS

Stages(op) ==
  CASE op = "start"     -> {"waiting", "whoami", "fetch", "answer"}
    [] op = "authorize" -> {"waiting", "browser", "activate", "whoami", "fetch", "answer"}
    [] op = "signOut"   -> {"waiting", "revoke"}
    [] OTHER            -> {"waiting", "fetch", "answer"}

Waiting == \A i \in 2 .. Len(queue) : queue[i].at = "waiting"

\* Credentials are stored before they are used.
Signed ==
  /\ creds # None => creds \in bundles
  /\ creds = None => screen.account = None
  /\ screen.phase = "signed in" => screen.account # None

\* What the command that has the mutex has found and been answered.
Ahead == queue # <<>> =>
  /\ queue[1].at \in Stages(queue[1].op)
  /\ queue[1].at \in {"fetch", "revoke"} => Session # None
  /\ queue[1].at = "answer" =>
       creds # None /\ queue[1].got \in acked .. version /\ queue[1].got \in Versions
  /\ queue[1].at = "activate" => queue[1].who \in bundles
  /\ queue[1].at = "whoami" =>
       /\ creds # None => active = creds
       /\ IF queue[1].op = "start" THEN screen.account = creds
          ELSE creds # None /\ queue[1].who = creds

Acks == version >= acked /\ AcknowledgedEditStays

Basic == TypeOK /\ Waiting /\ Signed /\ Ahead /\ Acks

-----------------------------------------------------------------------------
(***************************************************************************)
(* The queue.                                                              *)
(***************************************************************************)
LEMMA Queue ==
  ASSUME TypeOK
  PROVE  /\ queue \in Seq(Commands) /\ Len(queue) \in Nat
         /\ queue # <<>> => 1 \in 1 .. Len(queue)
BY DEF TypeOK

LEMMA Popped ==
  ASSUME TypeOK, Waiting, queue # <<>>, End
  PROVE  /\ queue' \in Seq(Commands) /\ Len(queue') = Len(queue) - 1
         /\ Len(queue') <= MaxQueue
         /\ \A i \in 1 .. Len(queue') :
              /\ queue'[i] = queue[i + 1] /\ queue'[i].at = "waiting"
              /\ i + 1 \in 1 .. Len(queue)
         /\ Len(queue) = 1 => queue' = <<>>
         /\ Waiting' /\ Ahead'
<1>1. queue \in Seq(Commands) /\ queue' = Tail(queue) /\ Len(queue) <= MaxQueue
  BY DEF TypeOK, End
<1>2. queue' \in Seq(Commands) /\ Len(queue') = Len(queue) - 1
  BY <1>1
<1>3. \A i \in 1 .. Len(queue') : queue'[i] = queue[i + 1] /\ i + 1 \in 2 .. Len(queue)
  BY <1>1, <1>2
<1>4. Len(queue') <= MaxQueue
  BY <1>1, <1>2, MobileAssumption
<1>5. \A i \in 1 .. Len(queue') : queue'[i].at = "waiting"
  BY <1>3 DEF Waiting
<1>6. Waiting'
  BY <1>5 DEF Waiting
<1>7. Ahead'
  <2> SUFFICES ASSUME queue' # <<>>
               PROVE  queue'[1].at = "waiting" /\ "waiting" \in Stages(queue'[1].op)
    BY DEF Ahead
  <2> QED BY <1>2, <1>5 DEF Stages
<1>8. Len(queue) = 1 => queue' = <<>>
  <2>1. \A s \in Seq(Commands) : Len(s) = 0 => s = <<>>
    OBVIOUS
  <2> QED BY <1>2, <2>1
<1> QED BY <1>2, <1>3, <1>4, <1>5, <1>6, <1>7, <1>8

LEMMA Retouched ==
  ASSUME NEW c \in Commands, NEW at, NEW got
  PROVE  [[c EXCEPT !.at = at] EXCEPT !.got = got]
           = [op |-> c.op, at |-> at, got |-> got, who |-> c.who]
<1>1. c = [op |-> c.op, at |-> c.at, got |-> c.got, who |-> c.who]
  BY DEF Commands
<1>2. [c EXCEPT !.at = at] = [op |-> c.op, at |-> at, got |-> c.got, who |-> c.who]
  BY <1>1
<1>3. \A d : d = [op |-> c.op, at |-> at, got |-> c.got, who |-> c.who] =>
        [d EXCEPT !.got = got] = [op |-> c.op, at |-> at, got |-> got, who |-> c.who]
  OBVIOUS
<1> QED BY <1>2, <1>3

LEMMA Renewed ==
  ASSUME TypeOK, Waiting, queue # <<>>,
         NEW c \in Commands, queue' = [queue EXCEPT ![1] = c]
  PROVE  /\ queue' \in Seq(Commands) /\ Len(queue') = Len(queue)
         /\ Len(queue') <= MaxQueue /\ queue' # <<>>
         /\ queue'[1] = c
         /\ \A i \in 1 .. Len(queue') :
              i \in 1 .. Len(queue) /\ (i = 1 \/ queue'[i] = queue[i])
         /\ Waiting'
<1>1. queue \in Seq(Commands) /\ Len(queue) <= MaxQueue /\ Len(queue) >= 1
  BY DEF TypeOK
<1>2. /\ queue' \in Seq(Commands) /\ Len(queue') = Len(queue)
      /\ \A i \in 2 .. Len(queue') : queue'[i] = queue[i]
  BY <1>1
<1>3. queue'[1] = c
  BY <1>1
<1>4. Waiting'
  BY <1>2 DEF Waiting
<1>5. \A i \in 1 .. Len(queue') :
        i \in 1 .. Len(queue) /\ (i = 1 \/ queue'[i] = queue[i])
  BY <1>1, <1>2
<1>6. queue' # <<>>
  BY <1>1, <1>2
<1> QED BY <1>1, <1>2, <1>3, <1>4, <1>5, <1>6

LEMMA WentOn ==
  ASSUME TypeOK, Waiting, queue # <<>>,
         NEW at \in {"waiting", "browser", "activate", "whoami", "fetch", "answer", "revoke"},
         NEW got \in Versions \cup {Nothing}, GoOn(at, got)
  PROVE  /\ queue' \in Seq(Commands) /\ Len(queue') = Len(queue)
         /\ Len(queue') <= MaxQueue /\ queue' # <<>>
         /\ queue'[1].op = queue[1].op /\ queue'[1].who = queue[1].who
         /\ queue'[1].at = at /\ queue'[1].got = got
         /\ \A i \in 1 .. Len(queue') :
              i \in 1 .. Len(queue) /\ (i = 1 \/ queue'[i] = queue[i])
         /\ Waiting'
<1> DEFINE c == [op |-> queue[1].op, at |-> at, got |-> got, who |-> queue[1].who]
<1>1. queue \in Seq(Commands) /\ Len(queue) >= 1 /\ queue[1] \in Commands
  BY DEF TypeOK
<1>2. queue' = [queue EXCEPT ![1] = c]
  <2>1. [[queue[1] EXCEPT !.at = at] EXCEPT !.got = got] = c
    BY <1>1, Retouched
  <2>2. queue' = [queue EXCEPT ![1] = [[queue[1] EXCEPT !.at = at] EXCEPT !.got = got]]
    BY <1>1 DEF GoOn
  <2> QED BY <2>1, <2>2
<1>3. c \in Commands
  BY <1>1 DEF Commands, Stops
<1>4. c.op = queue[1].op /\ c.at = at /\ c.got = got /\ c.who = queue[1].who
  OBVIOUS
<1> HIDE DEF c
<1> QED BY <1>2, <1>3, <1>4, Renewed

LEMMA Saved ==
  ASSUME TypeOK, Waiting, queue # <<>>, NEW a \in Accounts,
         queue' = [queue EXCEPT ![1].at = "activate", ![1].who = a]
  PROVE  /\ queue' \in Seq(Commands) /\ Len(queue') = Len(queue)
         /\ Len(queue') <= MaxQueue /\ queue' # <<>>
         /\ queue'[1].op = queue[1].op /\ queue'[1].who = a
         /\ queue'[1].at = "activate"
         /\ Waiting'
<1> DEFINE c == [op |-> queue[1].op, at |-> "activate", got |-> queue[1].got, who |-> a]
<1>1. queue \in Seq(Commands) /\ Len(queue) >= 1 /\ queue[1] \in Commands
  BY DEF TypeOK
<1>2. queue' = [queue EXCEPT ![1] = c]
  <2>1. [[queue[1] EXCEPT !.at = "activate"] EXCEPT !.who = a] = c
    <3>1. queue[1] = [op |-> queue[1].op, at |-> queue[1].at, got |-> queue[1].got,
                      who |-> queue[1].who]
      BY <1>1 DEF Commands
    <3>2. [queue[1] EXCEPT !.at = "activate"]
            = [op |-> queue[1].op, at |-> "activate", got |-> queue[1].got,
               who |-> queue[1].who]
      BY <3>1
    <3>3. \A d : d = [op |-> queue[1].op, at |-> "activate", got |-> queue[1].got,
                      who |-> queue[1].who] => [d EXCEPT !.who = a] = c
      OBVIOUS
    <3> QED BY <3>2, <3>3
  <2>2. queue' = [queue EXCEPT ![1] = [[queue[1] EXCEPT !.at = "activate"] EXCEPT !.who = a]]
    BY <1>1
  <2> QED BY <2>1, <2>2
<1>3. c \in Commands
  BY <1>1 DEF Commands, Stops
<1>4. c.op = queue[1].op /\ c.at = "activate" /\ c.who = a
  OBVIOUS
<1> HIDE DEF c
<1> QED BY <1>2, <1>3, <1>4, Renewed

LEMMA Pressed ==
  ASSUME TypeOK, Waiting, NEW op \in Ops, Press(op)
  PROVE  /\ queue' \in Seq(Commands) /\ Len(queue') = Len(queue) + 1
         /\ Len(queue') <= MaxQueue /\ queue' # <<>>
         /\ \A i \in 1 .. Len(queue) : queue'[i] = queue[i]
         /\ queue'[Len(queue')] = Command(op)
         /\ Waiting'
<1>1. /\ queue \in Seq(Commands) /\ queue' = Append(queue, Command(op))
      /\ Len(queue) < MaxQueue /\ Len(queue) \in Nat /\ MaxQueue \in Nat
  BY MobileAssumption DEF TypeOK, Press
<1>2. Command(op) \in Commands /\ Command(op).at = "waiting"
  BY DEF TypeOK, Command, Commands, Stops
<1>3. /\ queue' \in Seq(Commands) /\ Len(queue') = Len(queue) + 1
      /\ \A i \in 1 .. Len(queue) : queue'[i] = queue[i]
      /\ queue'[Len(queue')] = Command(op)
  BY <1>1, <1>2
<1>4. Len(queue') <= MaxQueue /\ queue' # <<>>
  BY <1>1, <1>3
<1>5. Waiting'
  <2> SUFFICES ASSUME NEW i \in 2 .. Len(queue') PROVE queue'[i].at = "waiting"
    BY DEF Waiting
  <2>1. CASE i <= Len(queue)
    BY <2>1, <1>1, <1>3 DEF Waiting
  <2>2. CASE i = Len(queue')
    BY <2>2, <1>2, <1>3
  <2> QED BY <2>1, <2>2, <1>1, <1>3
<1> QED BY <1>3, <1>4, <1>5
-----------------------------------------------------------------------------
LEMMA InitBasic == Init => Basic
<1> SUFFICES ASSUME Init PROVE Basic
  OBVIOUS
<1>1. queue \in Seq(Commands) /\ Len(queue) = 1
      /\ queue[1].op = "start" /\ queue[1].at = "waiting"
  BY DEF Init, Starting, Commands, Ops, Stops
<1>2. screen \in [phase : Phases, account : Accounts \cup {None}, list : Lists]
  BY DEF Init, Opened, Phases, Lists
<1>3. worker \in [Accounts -> [at : {"idle", "fetch", "write", "show"},
                             got : Versions \cup {Nothing}]]
  BY DEF Init, Idle
<1>4. broken \in BOOLEAN
  BY Zenon DEF Init
<1>5. TypeOK
  <2>1. /\ version \in Versions
        /\ bundles \subseteq Accounts /\ active \in Accounts \cup {None}
        /\ cache \in [Accounts -> Versions \cup {Nothing}]
        /\ registered \subseteq Accounts /\ snapshots \subseteq Accounts
        /\ creds \in Accounts \cup {None} /\ leaving \subseteq Accounts
        /\ acked \in Versions \cup {Nothing} /\ loose \subseteq Accounts
        /\ deaths \in 0 .. MaxDeaths
    BY MobileAssumption DEF Init, Versions
  <2> QED BY <2>1, <1>1, <1>2, <1>3, <1>4, MobileAssumption DEF TypeOK
<1>6. Waiting /\ Ahead /\ Signed /\ Acks
  BY <1>1 DEF Init, Opened, NoList, Waiting, Ahead, Stages, Signed, Acks,
     AcknowledgedEditStays, Nothing
<1> QED BY <1>5, <1>6 DEF Basic

-----------------------------------------------------------------------------
(***************************************************************************)
(* What is on the screen.                                                  *)
(***************************************************************************)
LEMMA ScreenWith ==
  ASSUME TypeOK
  PROVE  /\ \A phase : [screen EXCEPT !.phase = phase]
                = [phase |-> phase, account |-> screen.account, list |-> screen.list]
         /\ \A list : [screen EXCEPT !.list = list]
                = [phase |-> screen.phase, account |-> screen.account, list |-> list]
         /\ \A phase : Fresh(phase) = [phase |-> phase, account |-> None, list |-> NoList]
<1>1. screen = [phase |-> screen.phase, account |-> screen.account, list |-> screen.list]
  BY DEF TypeOK
<1>2. \A phase : [screen EXCEPT !.phase = phase]
                = [phase |-> phase, account |-> screen.account, list |-> screen.list]
  BY <1>1
<1>3. \A list : [screen EXCEPT !.list = list]
                = [phase |-> screen.phase, account |-> screen.account, list |-> list]
  BY <1>1
<1>4. \A phase : Fresh(phase) = [phase |-> phase, account |-> None, list |-> NoList]
  BY DEF Fresh, Opened
<1> QED BY <1>2, <1>3, <1>4

LEMMA FromCache ==
  ASSUME TypeOK, NEW a \in Accounts, NEW list \in Lists
  PROVE  /\ Published(a, list) \in Lists
         /\ Published(a, list).of \in {a, list.of}
         /\ Published(a, list).from = "server" => Published(a, list) = list
BY DEF TypeOK, Published, Lists, Versions, Nothing

LEMMA StoredAccount ==
  ASSUME TypeOK, Signed
  PROVE  /\ Stored \in Accounts \cup {None} /\ Session \in Accounts \cup {None}
         /\ AccountId \in Accounts \cup {None}
         /\ Stored # None => Stored \in bundles
         /\ Session # None => Session \in bundles
         /\ AccountId # None => creds # None
BY MobileAssumption DEF TypeOK, Signed, Stored, Session, AccountId

LEMMA RestoreBasic == ASSUME Basic, Restore PROVE Basic'
<1> TypeOK /\ Waiting /\ Signed /\ Ahead /\ Acks
  BY DEF Basic
<1>0. /\ queue # <<>> /\ GoOn("whoami", Nothing) /\ creds' = Stored
      /\ screen' = [phase |-> "bootstrap", account |-> Stored,
                    list |-> IF Stored = None THEN NoList ELSE Published(Stored, NoList)]
      /\ UNCHANGED <<version, device, widget, worker, leaving, past>>
      /\ queue[1].op = "start"
  BY DEF Restore, Running
<1>1. /\ screen' \in [phase : Phases, account : Accounts \cup {None}, list : Lists]
      /\ screen'.list.from # "server"
  <2>1. NoList \in Lists /\ NoList.from # "server"
    BY DEF Lists, NoList
  <2> QED BY <1>0, <2>1, StoredAccount, FromCache DEF Phases
<1>2. TypeOK'
  BY <1>0, <1>1, WentOn, StoredAccount DEF TypeOK, device, widget, past
<1>3. Waiting' /\ Ahead'
  BY <1>0, WentOn DEF Ahead, Stages, Stored, device
<1>4. Signed'
  BY <1>0, StoredAccount DEF Signed, device
<1>5. Acks'
  BY <1>0, <1>1 DEF Acks, AcknowledgedEditStays, past
<1> QED BY <1>2, <1>3, <1>4, <1>5 DEF Basic

LEMMA RestoreUnreadableBasic == ASSUME Basic, RestoreUnreadable PROVE Basic'
<1> TypeOK /\ Waiting /\ Signed /\ Ahead /\ Acks
  BY DEF Basic
<1>0. /\ queue # <<>> /\ End
      /\ screen' = [phase |-> "signed out", account |-> None, list |-> NoList]
      /\ loose' = loose \cup bundles
      /\ UNCHANGED <<version, device, widget, worker, creds, leaving, acked, broken, deaths>>
  BY ScreenWith DEF RestoreUnreadable, Running, Opened
<1>1. screen' \in [phase : Phases, account : Accounts \cup {None}, list : Lists]
  BY <1>0 DEF Phases, Lists
<1>2. TypeOK'
  BY <1>0, <1>1, Popped DEF TypeOK, device, widget
<1>3. Waiting' /\ Ahead'
  BY <1>0, Popped
<1>4. Signed'
  BY <1>0 DEF Signed, device
<1>5. Acks'
  BY <1>0 DEF Acks, AcknowledgedEditStays, NoList
<1> QED BY <1>2, <1>3, <1>4, <1>5 DEF Basic

LEMMA RestoredBasic ==
  ASSUME Basic, NEW answered \in BOOLEAN, Restored(answered) PROVE Basic'
<1> TypeOK /\ Waiting /\ Signed /\ Ahead /\ Acks
  BY DEF Basic
<1>0. /\ queue # <<>> /\ queue[1].op = "start" /\ queue[1].at = "whoami"
      /\ screen' = [phase |-> IF screen.account = None THEN "signed out" ELSE "signed in",
                    account |-> screen.account, list |-> screen.list]
      /\ (screen.account # None /\ GoOn("fetch", Nothing)) \/ End
      /\ UNCHANGED <<version, device, widget, worker, creds, leaving, past>>
  BY ScreenWith, Zenon DEF Restored, Answering, Running
<1>1. screen' \in [phase : Phases, account : Accounts \cup {None}, list : Lists]
  BY <1>0 DEF TypeOK, Phases
<1>2. /\ queue' \in Seq(Commands) /\ Len(queue') <= MaxQueue
      /\ Waiting' /\ Ahead'
  <2>1. CASE End
    BY <1>0, <2>1, Popped
  <2>2. CASE screen.account # None /\ GoOn("fetch", Nothing)
    <3>1. /\ queue' \in Seq(Commands) /\ Len(queue') <= MaxQueue /\ Waiting'
          /\ queue'[1].op = "start" /\ queue'[1].at = "fetch"
      BY <1>0, <2>2, WentOn
    <3>2. creds # None /\ creds' = creds
      BY <1>0, <2>2 DEF Ahead
    <3> QED BY <3>1, <3>2 DEF Ahead, Stages, Session
  <2> QED BY <1>0, <2>1, <2>2
<1>3. TypeOK'
  BY <1>0, <1>1, <1>2 DEF TypeOK, device, widget, past
<1>4. Signed'
  BY <1>0 DEF Signed, device
<1>5. Acks'
  BY <1>0 DEF Acks, AcknowledgedEditStays, past
<1> QED BY <1>2, <1>3, <1>4, <1>5 DEF Basic

LEMMA AuthorizeBasic == ASSUME Basic, Authorize PROVE Basic'
<1> TypeOK /\ Waiting /\ Signed /\ Ahead /\ Acks
  BY DEF Basic
<1>0. /\ queue # <<>> /\ queue[1].op = "authorize" /\ GoOn("browser", Nothing)
      /\ screen' = [phase |-> "authorizing", account |-> screen.account, list |-> screen.list]
      /\ UNCHANGED <<version, device, widget, worker, creds, leaving, past>>
  BY ScreenWith DEF Authorize, Running
<1>1. screen' \in [phase : Phases, account : Accounts \cup {None}, list : Lists]
  BY <1>0 DEF TypeOK, Phases
<1>2. TypeOK'
  BY <1>0, <1>1, WentOn DEF TypeOK, device, widget, past
<1>3. Waiting' /\ Ahead'
  BY <1>0, WentOn DEF Ahead, Stages
<1>4. Signed'
  BY <1>0 DEF Signed, device
<1>5. Acks'
  BY <1>0 DEF Acks, AcknowledgedEditStays, past
<1> QED BY <1>2, <1>3, <1>4, <1>5 DEF Basic

LEMMA CallbackBasic == ASSUME Basic, NEW a \in Accounts, Callback(a) PROVE Basic'
<1> TypeOK /\ Waiting /\ Signed /\ Ahead /\ Acks
  BY DEF Basic
<1>0. /\ queue # <<>> /\ queue[1].op = "authorize"
      /\ queue' = [queue EXCEPT ![1].at = "activate", ![1].who = a]
      /\ bundles' = bundles \cup {a}
      /\ UNCHANGED <<version, active, cache, widget, worker, screen, creds, leaving, past>>
  BY DEF Callback, Answering, Running
<1>1. TypeOK'
  BY <1>0, Saved DEF TypeOK, widget, past
<1>2. Waiting' /\ Ahead'
  <2>1. /\ Waiting' /\ queue'[1].op = "authorize" /\ queue'[1].at = "activate"
        /\ queue'[1].who = a
    BY <1>0, Saved
  <2>2. a \in bundles'
    BY <1>0
  <2> QED BY <2>1, <2>2 DEF Ahead, Stages
<1>3. Signed'
  BY <1>0 DEF Signed
<1>4. Acks'
  BY <1>0 DEF Acks, AcknowledgedEditStays, past
<1> QED BY <1>1, <1>2, <1>3, <1>4 DEF Basic

LEMMA ActivatedBasic == ASSUME Basic, Activated PROVE Basic'
<1> TypeOK /\ Waiting /\ Signed /\ Ahead /\ Acks
  BY DEF Basic
<1>0. /\ queue # <<>> /\ queue[1].op = "authorize" /\ queue[1].at = "activate"
      /\ GoOn("whoami", Nothing)
      /\ active' = queue[1].who /\ creds' = queue[1].who
      /\ UNCHANGED <<version, bundles, cache, widget, worker, screen, leaving, past>>
  BY DEF Activated, Answering, Running
<1>1. queue[1].who \in bundles /\ bundles \subseteq Accounts /\ queue[1].who # None
  BY <1>0, MobileAssumption DEF Ahead, TypeOK
<1>2. TypeOK'
  BY <1>0, <1>1, WentOn DEF TypeOK, widget, past, Stops
<1>3. Waiting' /\ Ahead'
  BY <1>0, <1>1, WentOn DEF Ahead, Stages, Stops
<1>4. Signed'
  BY <1>0, <1>1 DEF Signed
<1>5. Acks'
  BY <1>0 DEF Acks, AcknowledgedEditStays, past
<1> QED BY <1>2, <1>3, <1>4, <1>5 DEF Basic

LEMMA AuthorizedBasic == ASSUME Basic, Authorized PROVE Basic'
<1> TypeOK /\ Waiting /\ Signed /\ Ahead /\ Acks
  BY DEF Basic
<1>0. /\ queue # <<>> /\ queue[1].op = "authorize" /\ queue[1].at = "whoami"
      /\ GoOn("fetch", Nothing)
      /\ screen' = [phase |-> "signed in", account |-> creds,
                    list |-> Published(creds, screen.list)]
      /\ UNCHANGED <<version, device, widget, worker, creds, leaving, past>>
  BY DEF Authorized, Answering, Running
<1>1. creds \in Accounts /\ creds # None
  BY <1>0 DEF TypeOK, Ahead
<1>2. screen' \in [phase : Phases, account : Accounts \cup {None}, list : Lists]
  BY <1>0, <1>1, FromCache DEF TypeOK, Phases
<1>3. TypeOK'
  BY <1>0, <1>2, WentOn DEF TypeOK, device, widget, past
<1>4. Waiting' /\ Ahead'
  BY <1>0, <1>1, WentOn DEF Ahead, Stages, Session
<1>5. Signed'
  BY <1>0, <1>1 DEF Signed, device
<1>6. Acks'
  <2>1. screen'.list.from = "server" => screen'.list = screen.list
    BY <1>0, <1>1, FromCache DEF TypeOK
  <2> QED BY <1>0, <2>1 DEF Acks, AcknowledgedEditStays, past
<1> QED BY <1>3, <1>4, <1>5, <1>6 DEF Basic

LEMMA NotAuthorizedBasic == ASSUME Basic, NotAuthorized PROVE Basic'
<1> TypeOK /\ Waiting /\ Signed /\ Ahead /\ Acks
  BY DEF Basic
<1>0. /\ queue # <<>> /\ queue[1].op = "authorize" /\ End
      /\ screen' = [phase |-> "signed out", account |-> screen.account, list |-> screen.list]
      /\ queue[1].at \in {"browser", "activate", "whoami"}
      /\ active' \in IF queue[1].at = "activate" THEN {active, queue[1].who} ELSE {active}
      /\ loose' = IF queue[1].at = "browser" THEN loose ELSE loose \cup {queue[1].who}
      /\ UNCHANGED <<version, bundles, cache, widget, worker, creds, leaving, acked, broken,
                     deaths>>
  BY ScreenWith DEF NotAuthorized, Answering, Running
<1>1. screen' \in [phase : Phases, account : Accounts \cup {None}, list : Lists]
  BY <1>0 DEF TypeOK, Phases
<1>2. loose' \subseteq Accounts /\ active' \in Accounts \cup {None}
  <2>1. /\ queue[1].at \in {"activate", "whoami"} => queue[1].who \in Accounts
        /\ loose \subseteq Accounts /\ active \in Accounts \cup {None}
    <3>1. bundles \subseteq Accounts /\ creds \in Accounts \cup {None}
      BY DEF TypeOK
    <3>2. queue[1].at = "activate" => queue[1].who \in bundles
      BY <1>0 DEF Ahead
    <3>3. queue[1].at = "whoami" => queue[1].who = creds /\ creds # None
      BY <1>0 DEF Ahead
    <3> QED BY <3>1, <3>2, <3>3 DEF TypeOK
  <2> QED BY <1>0, <2>1
<1>3. TypeOK'
  BY <1>0, <1>1, <1>2, Popped DEF TypeOK, widget
<1>4. Waiting' /\ Ahead'
  BY <1>0, Popped
<1>5. Signed'
  BY <1>0 DEF Signed
<1>6. Acks'
  BY <1>0 DEF Acks, AcknowledgedEditStays
<1> QED BY <1>3, <1>4, <1>5, <1>6 DEF Basic

LEMMA RefreshBasic == ASSUME Basic, Refresh PROVE Basic'
<1> TypeOK /\ Waiting /\ Signed /\ Ahead /\ Acks
  BY DEF Basic
<1>0. /\ queue # <<>> /\ queue[1].op = "refresh" /\ GoOn("fetch", Nothing)
      /\ AccountId # None
      /\ screen' = [phase |-> screen.phase, account |-> screen.account,
                    list |-> Published(AccountId, screen.list)]
      /\ UNCHANGED <<version, device, widget, worker, creds, leaving, past>>
  BY ScreenWith DEF Refresh, Running
<1>1. AccountId \in Accounts /\ creds # None
  BY <1>0, StoredAccount
<1>2. screen' \in [phase : Phases, account : Accounts \cup {None}, list : Lists]
  BY <1>0, <1>1, FromCache DEF TypeOK
<1>3. TypeOK'
  BY <1>0, <1>2, WentOn DEF TypeOK, device, widget, past
<1>4. Waiting' /\ Ahead'
  BY <1>0, <1>1, WentOn DEF Ahead, Stages, Session
<1>5. Signed'
  BY <1>0 DEF Signed, device
<1>6. Acks'
  <2>1. screen'.list.from = "server" => screen'.list = screen.list
    BY <1>0, <1>1, FromCache DEF TypeOK
  <2> QED BY <1>0, <2>1 DEF Acks, AcknowledgedEditStays, past
<1> QED BY <1>3, <1>4, <1>5, <1>6 DEF Basic

\* What is in memory is new.
LEMMA ReopenedBasic ==
  ASSUME Basic, Reopened, bundles' \subseteq Accounts, active' \in Accounts \cup {None},
         cache' \in [Accounts -> Versions \cup {Nothing}], worker' \in
           [Accounts -> [at : {"idle", "fetch", "write", "show"}, got : Versions \cup {Nothing}]],
         loose' \subseteq Accounts, broken' \in BOOLEAN, deaths' \in 0 .. MaxDeaths,
         UNCHANGED <<version, widget, acked>>
  PROVE  Basic'
<1> TypeOK /\ Waiting /\ Signed /\ Ahead /\ Acks
  BY DEF Basic
<1>0. /\ screen' = [phase |-> "bootstrap", account |-> None, list |-> NoList]
      /\ creds' = None /\ queue' = Starting /\ leaving' = {}
  BY DEF Reopened, Opened
<1>1. screen' \in [phase : Phases, account : Accounts \cup {None}, list : Lists]
  BY <1>0 DEF Phases, Lists
<1>2. /\ queue' \in Seq(Commands) /\ Len(queue') = 1
      /\ queue'[1].op = "start" /\ queue'[1].at = "waiting"
  BY <1>0 DEF Starting, Commands, Ops, Stops
<1>4. TypeOK'
  BY <1>0, <1>1, <1>2, MobileAssumption DEF TypeOK, widget
<1>5. Waiting' /\ Ahead' /\ Signed'
  <2>1. Waiting'
    BY <1>2 DEF Waiting
  <2>2. Ahead'
    BY <1>2 DEF Ahead, Stages
  <2>3. Signed'
    BY <1>0 DEF Signed
  <2> QED BY <2>1, <2>2, <2>3
<1>6. Acks'
  BY <1>0 DEF Acks, AcknowledgedEditStays, NoList
<1> QED BY <1>4, <1>5, <1>6 DEF Basic

LEMMA DieBasic == ASSUME Basic, Die, deaths' \in 0 .. MaxDeaths PROVE Basic'
<1> TypeOK /\ Ahead
  BY DEF Basic
<1>1. worker' \in [Accounts -> [at : {"idle", "fetch", "write", "show"},
                             got : Versions \cup {Nothing}]]
  BY DEF Die, Idle
<1>2. HalfSaved \subseteq Accounts
  BY DEF HalfSaved, Running, Ahead, TypeOK
<1>3. loose' \subseteq Accounts
  BY <1>2 DEF Die, TypeOK
<1>4. broken' \in BOOLEAN
  <2>1. broken' = broken /\ broken \in BOOLEAN
    BY DEF Die, TypeOK
  <2> QED BY <2>1, Zenon
<1>5. /\ Reopened /\ UNCHANGED <<version, widget, acked>>
      /\ bundles' \subseteq Accounts /\ active' \in Accounts \cup {None}
      /\ cache' \in [Accounts -> Versions \cup {Nothing}]
  BY DEF Die, device, TypeOK
<1> QED BY <1>1, <1>3, <1>4, <1>5, ReopenedBasic

\* What the deletions of a sign out may leave.
LEMMA DeletedSome ==
  ASSUME TypeOK, NEW a, NEW kept, Deleted(a, kept)
  PROVE  /\ bundles' \subseteq bundles /\ active' \in {active, None}
         /\ cache' \in [Accounts -> Versions \cup {Nothing}]
         /\ broken' \in BOOLEAN
         /\ ~ broken' => ~ broken /\ bundles' = bundles \ {a}
<1>1. /\ bundles' \subseteq bundles /\ active' \in {active, None}
      /\ cache' \in [Accounts -> Versions \cup {Nothing}]
  BY DEF Deleted, TypeOK
<1>2. broken' = (broken \/ "bundle" \in kept)
  BY DEF Deleted
<1>3. broken' \in BOOLEAN /\ (~ broken' => ~ broken /\ "bundle" \notin kept)
  BY <1>2, Zenon
<1>4. "bundle" \notin kept => bundles' = bundles \ {a}
  BY DEF Deleted
<1> QED BY <1>1, <1>3, <1>4

LEMMA CloseBasic ==
  ASSUME Basic, NEW kept \in SUBSET {"bundle", "active", "cache"}, Close(kept) PROVE Basic'
<1> TypeOK /\ Signed /\ Ahead
  BY DEF Basic
<1>1. /\ Reopened /\ deaths' = deaths + 1 /\ deaths < MaxDeaths
      /\ UNCHANGED <<version, widget, worker, acked>>
  BY DEF Close
<1>2. deaths' \in 0 .. MaxDeaths
  BY <1>1, MobileAssumption DEF TypeOK
<1>3. /\ bundles' \subseteq Accounts /\ active' \in Accounts \cup {None}
      /\ cache' \in [Accounts -> Versions \cup {Nothing}]
      /\ loose' \subseteq Accounts /\ broken' \in BOOLEAN
  <2>1. CASE Running("signOut", "revoke")
    <3>1. Deleted(Session, kept) /\ loose' = loose \cup {Session}
      BY <2>1 DEF Close
    <3>2. Session \in Accounts
      BY <2>1, StoredAccount DEF Running, Ahead
    <3>3. loose' \subseteq Accounts
      BY <3>1, <3>2 DEF TypeOK
    <3>4. /\ bundles' \subseteq bundles /\ active' \in {active, None}
          /\ cache' \in [Accounts -> Versions \cup {Nothing}] /\ broken' \in BOOLEAN
      BY <3>1, DeletedSome
    <3>5. bundles' \subseteq Accounts /\ active' \in Accounts \cup {None}
      BY <3>4 DEF TypeOK
    <3> QED BY <3>3, <3>4, <3>5, Zenon
  <2>2. CASE ~ Running("signOut", "revoke")
    <3>1. UNCHANGED <<bundles, active, cache, loose, broken>>
      BY <2>2 DEF Close, device
    <3>2. broken' \in BOOLEAN
      BY <3>1, Zenon DEF TypeOK
    <3>3. /\ bundles' \subseteq Accounts /\ active' \in Accounts \cup {None}
          /\ cache' \in [Accounts -> Versions \cup {Nothing}] /\ loose' \subseteq Accounts
      BY <3>1 DEF TypeOK
    <3> QED BY <3>2, <3>3, Zenon
  <2> QED BY <2>1, <2>2
<1>4. worker' \in [Accounts -> [at : {"idle", "fetch", "write", "show"},
                             got : Versions \cup {Nothing}]]
  BY <1>1 DEF TypeOK
<1> QED BY <1>1, <1>2, <1>3, <1>4, ReopenedBasic

LEMMA BeginBasic == ASSUME Basic, Begin PROVE Basic'
<1> TypeOK /\ Waiting /\ Signed /\ Ahead /\ Acks
  BY DEF Basic
<1>0. /\ queue # <<>> /\ queue[1].op \in {"loadMore", "update"}
      /\ End \/ (Session # None /\ GoOn("fetch", Nothing))
      /\ UNCHANGED <<version, device, widget, worker, screen, creds, leaving, past>>
  BY DEF Begin, Running
<1>1. /\ queue' \in Seq(Commands) /\ Len(queue') <= MaxQueue
      /\ Waiting' /\ Ahead'
  <2>1. CASE End
    BY <1>0, <2>1, Popped
  <2>2. CASE Session # None /\ GoOn("fetch", Nothing)
    <3>1. /\ queue' \in Seq(Commands) /\ Len(queue') <= MaxQueue /\ Waiting'
          /\ queue'[1].op = queue[1].op /\ queue'[1].at = "fetch"
      BY <1>0, <2>2, WentOn
    <3>2. Session' # None
      BY <1>0, <2>2 DEF Session, Stored, device
    <3> QED BY <1>0, <3>1, <3>2 DEF Ahead, Stages
  <2> QED BY <1>0, <2>1, <2>2
<1>2. TypeOK'
  BY <1>0, <1>1 DEF TypeOK, device, widget, past
<1>3. Signed' /\ Acks'
  BY <1>0 DEF Signed, Acks, AcknowledgedEditStays, device, past
<1> QED BY <1>1, <1>2, <1>3 DEF Basic

LEMMA ServeBasic == ASSUME Basic, Serve PROVE Basic'
<1> TypeOK /\ Waiting /\ Signed /\ Ahead /\ Acks
  BY DEF Basic
<1>0. /\ queue # <<>> /\ queue[1].at = "fetch" /\ Session # None
      /\ version' \in Versions /\ version' >= version
      /\ GoOn("answer", version') /\ creds' = Session
      /\ UNCHANGED <<device, widget, worker, screen, leaving, past>>
  BY DEF Serve, Answering, Running, Ahead, TypeOK, Versions
<1>1. /\ queue' \in Seq(Commands) /\ Len(queue') <= MaxQueue /\ Waiting'
      /\ queue'[1].op = queue[1].op /\ queue'[1].at = "answer"
      /\ queue'[1].got = version'
  BY <1>0, WentOn
<1>2. queue[1].op # "signOut"
  BY <1>0 DEF Ahead, Stages
<1>3. "answer" \in Stages(queue[1].op)
  BY <1>2 DEF Stages
<1>4. version' \in acked .. version'
  BY <1>0 DEF TypeOK, Acks, Versions, Nothing
<1>5. TypeOK'
  BY <1>0, <1>1, StoredAccount DEF TypeOK, device, widget, past
<1>6. Ahead'
  BY <1>0, <1>1, <1>3, <1>4 DEF Ahead, past
<1>7. Signed'
  BY <1>0, StoredAccount DEF Signed, device
<1>8. Acks'
  BY <1>0, <1>4 DEF Acks, AcknowledgedEditStays, past, TypeOK, Versions, Nothing
<1> QED BY <1>1, <1>5, <1>6, <1>7, <1>8 DEF Basic

LEMMA RequestFailsBasic == ASSUME Basic, RequestFails PROVE Basic'
<1> TypeOK /\ Waiting /\ Signed /\ Ahead /\ Acks
  BY DEF Basic
<1>0. /\ queue # <<>> /\ End
      /\ UNCHANGED <<version, device, widget, worker, screen, creds, leaving, past>>
  BY DEF RequestFails
<1>1. TypeOK'
  BY <1>0, Popped DEF TypeOK, device, widget, past
<1>2. Signed' /\ Acks' /\ Waiting' /\ Ahead'
  BY <1>0, Popped DEF Signed, Acks, AcknowledgedEditStays, device, past
<1> QED BY <1>1, <1>2 DEF Basic

LEMMA ListedBasic == ASSUME Basic, Listed PROVE Basic'
<1> TypeOK /\ Waiting /\ Signed /\ Ahead /\ Acks
  BY DEF Basic
<1>0. /\ queue # <<>> /\ queue[1].at = "answer" /\ End
      /\ cache' = [cache EXCEPT ![AccountId] = queue[1].got]
      /\ screen' = [phase |-> screen.phase, account |-> screen.account, list |->
                     [of |-> Session, ver |-> queue[1].got, from |-> "server"]]
      /\ UNCHANGED <<version, bundles, active, widget, worker, creds, leaving, past>>
  BY ScreenWith DEF Listed, Answering, Running
<1>1. /\ queue[1].got \in Versions /\ queue[1].got \in acked .. version
      /\ Session \in Accounts
  BY <1>0, StoredAccount DEF Ahead, Session, TypeOK
<1>2. screen' \in [phase : Phases, account : Accounts \cup {None}, list : Lists]
  BY <1>0, <1>1 DEF TypeOK, Lists
<1>3. cache' \in [Accounts -> Versions \cup {Nothing}]
  BY <1>0, <1>1 DEF TypeOK
<1>4. TypeOK'
  BY <1>0, <1>2, <1>3, Popped DEF TypeOK, widget, past
<1>5. Signed' /\ Waiting' /\ Ahead'
  BY <1>0, Popped DEF Signed
<1>6. Acks'
  BY <1>0, <1>1 DEF Acks, AcknowledgedEditStays, past
<1> QED BY <1>4, <1>5, <1>6 DEF Basic

LEMMA LoadedMoreBasic == ASSUME Basic, LoadedMore PROVE Basic'
<1> TypeOK /\ Waiting /\ Signed /\ Ahead /\ Acks
  BY DEF Basic
<1> DEFINE from == IF screen.list.from = "cache" THEN "both" ELSE screen.list.from
<1>0. /\ queue # <<>> /\ End
      /\ cache' = [cache EXCEPT ![AccountId] = screen.list.ver]
      /\ UNCHANGED <<version, bundles, active, widget, worker, creds, leaving, past>>
  BY DEF LoadedMore, Answering, Running
<1>1. screen' = [phase |-> screen.phase, account |-> screen.account, list |->
                  [of |-> screen.list.of, ver |-> screen.list.ver, from |-> from]]
  <2>1. screen' = [screen EXCEPT !.list = [screen.list EXCEPT !.from = from]]
    BY DEF LoadedMore
  <2>2. [screen.list EXCEPT !.from = from]
          = [of |-> screen.list.of, ver |-> screen.list.ver, from |-> from]
    BY DEF TypeOK, Lists, NoList
  <2> HIDE DEF from
  <2> QED BY <2>1, <2>2, ScreenWith
<1>2. screen' \in [phase : Phases, account : Accounts \cup {None}, list : Lists]
  BY <1>1 DEF TypeOK, Lists, NoList
<1>3. cache' \in [Accounts -> Versions \cup {Nothing}]
  <2>1. screen.list.ver \in Versions \cup {Nothing}
    BY DEF TypeOK, Lists, NoList
  <2> QED BY <1>0, <2>1 DEF TypeOK
<1>4. TypeOK'
  BY <1>0, <1>2, <1>3, Popped DEF TypeOK, widget, past
<1>5. Waiting' /\ Ahead'
  BY <1>0, Popped
<1>6. Signed'
  BY <1>0, <1>1 DEF Signed
<1>7. Acks'
  BY <1>0, <1>1 DEF Acks, AcknowledgedEditStays, past
<1> QED BY <1>4, <1>5, <1>6, <1>7 DEF Basic

LEMMA UpdatedBasic == ASSUME Basic, Updated PROVE Basic'
<1> TypeOK /\ Waiting /\ Signed /\ Ahead /\ Acks
  BY DEF Basic
<1>0. /\ queue # <<>> /\ queue[1].at = "answer" /\ End
      /\ screen' = [phase |-> screen.phase, account |-> screen.account,
                    list |-> Replaced(screen.list, queue[1].got)]
      /\ acked' = queue[1].got
      /\ UNCHANGED <<version, device, widget, worker, creds, leaving, loose, broken, deaths>>
  BY ScreenWith DEF Updated, Answering, Running
<1>1. queue[1].got \in Versions /\ queue[1].got \in acked .. version
  BY <1>0 DEF Ahead
<1>2. /\ screen'.list \in Lists
      /\ screen'.list.from = "server" => screen'.list.ver = queue[1].got
  <2>1. CASE screen.list = NoList
    BY <1>0, <2>1 DEF Replaced, Lists, NoList
  <2>2. CASE screen.list # NoList
    <3>1. screen'.list = [of |-> screen.list.of, ver |-> queue[1].got, from |-> screen.list.from]
      BY <1>0, <2>2 DEF Replaced, TypeOK, Lists
    <3> QED BY <3>1, <2>2, <1>1 DEF TypeOK, Lists
  <2> QED BY <2>1, <2>2
<1>3. screen' \in [phase : Phases, account : Accounts \cup {None}, list : Lists]
  BY <1>0, <1>2 DEF TypeOK
<1>4. TypeOK'
  BY <1>0, <1>1, <1>3, Popped DEF TypeOK, device, widget
<1>5. Signed' /\ Waiting' /\ Ahead'
  BY <1>0, Popped DEF Signed, device
<1>6. Acks'
  BY <1>0, <1>1, <1>2 DEF Acks, AcknowledgedEditStays, TypeOK, Versions
<1> QED BY <1>4, <1>5, <1>6 DEF Basic

LEMMA SignOutBasic == ASSUME Basic, SignOut PROVE Basic'
<1> TypeOK /\ Waiting /\ Signed /\ Ahead /\ Acks
  BY DEF Basic
<1>0. /\ queue # <<>> /\ queue[1].op = "signOut" /\ GoOn("revoke", Nothing)
      /\ Session # None
      /\ UNCHANGED <<version, device, widget, worker, screen, creds, leaving, past>>
  BY DEF SignOut, Running
<1>1. Session' # None
  BY <1>0 DEF Session, Stored, device
<1>2. TypeOK'
  BY <1>0, WentOn DEF TypeOK, device, widget, past
<1>3. Waiting' /\ Ahead'
  BY <1>0, <1>1, WentOn DEF Ahead, Stages
<1>4. Signed' /\ Acks'
  BY <1>0 DEF Signed, Acks, AcknowledgedEditStays, device, past
<1> QED BY <1>2, <1>3, <1>4 DEF Basic

LEMMA LeftAccounts == ASSUME TypeOK, queue # <<>> PROVE Left \subseteq Accounts
<1>1. queue[1] \in Commands
  BY DEF TypeOK
<1> QED BY <1>1 DEF Left, TypeOK, Commands

LEMMA NobodyToSignOutBasic == ASSUME Basic, NobodyToSignOut PROVE Basic'
<1> TypeOK /\ Waiting /\ Signed /\ Ahead /\ Acks
  BY DEF Basic
<1>0. /\ queue # <<>> /\ End /\ leaving' = Left
      /\ screen' = [phase |-> "signed out", account |-> None, list |-> NoList]
      /\ UNCHANGED <<version, device, widget, worker, creds, past>>
  BY ScreenWith DEF NobodyToSignOut, Running
<1>1. screen' \in [phase : Phases, account : Accounts \cup {None}, list : Lists]
  BY <1>0 DEF Phases, Lists
<1>2. TypeOK'
  BY <1>0, <1>1, Popped, LeftAccounts DEF TypeOK, device, widget, past
<1>3. Waiting' /\ Ahead' /\ Signed'
  BY <1>0, Popped DEF Signed, device
<1>4. Acks'
  BY <1>0 DEF Acks, AcknowledgedEditStays, NoList, past
<1> QED BY <1>2, <1>3, <1>4 DEF Basic

LEMMA SignedOutBasic ==
  ASSUME Basic, NEW kept \in SUBSET {"bundle", "active", "cache"}, SignedOut(kept)
  PROVE  Basic'
<1> TypeOK /\ Waiting /\ Signed /\ Ahead /\ Acks
  BY DEF Basic
<1>0. /\ queue # <<>> /\ queue[1].at = "revoke" /\ End /\ leaving' = Left /\ creds' = None
      /\ screen' = [phase |-> "signed out", account |-> None, list |-> NoList]
      /\ Deleted(Session, kept)
      /\ UNCHANGED <<version, widget, worker, acked, deaths>>
  BY ScreenWith DEF SignedOut, Answering, Running
<1>1. screen' \in [phase : Phases, account : Accounts \cup {None}, list : Lists]
  BY <1>0 DEF Phases, Lists
<1>2. /\ bundles' \subseteq bundles /\ active' \in {active, None}
      /\ cache' \in [Accounts -> Versions \cup {Nothing}] /\ broken' \in BOOLEAN
  BY <1>0, DeletedSome
<1>3. loose' \subseteq Accounts
  BY <1>0, StoredAccount DEF SignedOut, TypeOK, Ahead
<1>4. /\ queue' \in Seq(Commands) /\ Len(queue') <= MaxQueue /\ leaving' \subseteq Accounts
  BY <1>0, Popped, LeftAccounts
<1>5. TypeOK'
  <2>1. /\ version' \in Versions /\ registered' \subseteq Accounts /\ snapshots' \subseteq Accounts
        /\ worker' \in [Accounts -> [at : {"idle", "fetch", "write", "show"},
                                    got : Versions \cup {Nothing}]]
        /\ acked' \in Versions \cup {Nothing} /\ deaths' \in 0 .. MaxDeaths
        /\ creds' \in Accounts \cup {None}
    BY <1>0 DEF TypeOK, widget
  <2>2. bundles' \subseteq Accounts /\ active' \in Accounts \cup {None}
    BY <1>2 DEF TypeOK
  <2> QED BY <1>1, <1>2, <1>3, <1>4, <2>1, <2>2, Zenon DEF TypeOK
<1>6. Waiting' /\ Ahead' /\ Signed'
  BY <1>0, Popped DEF Signed
<1>7. Acks'
  BY <1>0 DEF Acks, AcknowledgedEditStays, NoList
<1> QED BY <1>5, <1>6, <1>7 DEF Basic

\* Steps that are not the core's.
LEMMA OthersBasic ==
  ASSUME Basic, UNCHANGED <<bundles, active, screen, creds, queue, acked>>, TypeOK',
         version' >= version
  PROVE  Basic'
<1> TypeOK /\ Waiting /\ Signed /\ Ahead /\ Acks
  BY DEF Basic
<1>1. Waiting' /\ Signed'
  BY DEF Waiting, Signed
<1>2. Session' = Session
  BY DEF Session, Stored
<1>3. acked .. version \subseteq acked' .. version'
  BY DEF TypeOK, Versions, Nothing
<1>4. Ahead'
  BY <1>2, <1>3 DEF Ahead
<1>5. Acks'
  BY DEF Acks, AcknowledgedEditStays, TypeOK, Versions, Nothing
<1> QED BY <1>1, <1>4, <1>5 DEF Basic

LEMMA PressBasic == ASSUME Basic, NEW op \in Ops, Press(op) PROVE Basic'
<1> TypeOK /\ Waiting /\ Signed /\ Ahead /\ Acks
  BY DEF Basic
<1>0. UNCHANGED <<version, device, widget, worker, screen, creds, leaving, past>>
  BY DEF Press
<1>1. TypeOK'
  BY <1>0, Pressed DEF TypeOK, device, widget, past
<1>2. Signed' /\ Acks' /\ Waiting'
  BY <1>0, Pressed DEF Signed, Acks, AcknowledgedEditStays, device, past
<1>3. Ahead'
  <2>1. CASE queue = <<>>
    <3>1. queue'[1] = Command(op)
      BY <2>1, Pressed
    <3> QED BY <3>1 DEF Command, Ahead, Stages
  <2>2. CASE queue # <<>>
    <3>1. queue'[1] = queue[1]
      BY <2>2, Pressed DEF TypeOK
    <3> QED BY <2>2, <3>1, <1>0 DEF Ahead, Session, Stored, device, past
  <2> QED BY <2>1, <2>2
<1> QED BY <1>1, <1>2, <1>3 DEF Basic

LEMMA CancelBasic == ASSUME Basic, NEW a \in Accounts, Cancel(a) PROVE Basic'
<1>1. TypeOK'
  BY DEF Basic, TypeOK, Cancel, device, past
<1> QED BY <1>1, OthersBasic DEF Basic, TypeOK, Versions, Cancel, device, past

LEMMA ObserveBasic == ASSUME Basic, Observe PROVE Basic'
<1>1. TypeOK'
  BY DEF Basic, TypeOK, Signed, Observe, device, memory, past
<1>2. UNCHANGED <<version, bundles, active, screen, creds, queue, acked>>
  BY DEF Observe, device, memory, past
<1> QED BY <1>1, <1>2, OthersBasic DEF Basic, TypeOK, Versions

LEMMA EditBasic == ASSUME Basic, Edit PROVE Basic'
<1>1. TypeOK'
  BY MobileAssumption DEF Basic, TypeOK, Versions, Edit, device, widget, memory, past
<1> QED BY <1>1, OthersBasic DEF Basic, TypeOK, Versions, Edit, device, widget, memory, past

LEMMA WorkerBasic == ASSUME Basic, NEW a \in Accounts, Worker(a) PROVE Basic'
<1> USE DEF Basic, TypeOK
<1>0. UNCHANGED <<version, bundles, active, registered, memory, past>>
  BY DEF Worker, WorkerStarts, WorkerAnswered, WorkerStops, WorkerWrites, WorkerShows,
     device, widget
<1>1. worker' \in [Accounts -> [at : {"idle", "fetch", "write", "show"},
                             got : Versions \cup {Nothing}]]
  <2>1. CASE WorkerStarts(a)
    <3>1. [worker[a] EXCEPT !.at = "fetch"]
            \in [at : {"idle", "fetch", "write", "show"}, got : Versions \cup {Nothing}]
      OBVIOUS
    <3> QED BY <2>1, <3>1 DEF WorkerStarts
  <2>2. CASE WorkerAnswered(a)
    BY <2>2 DEF WorkerAnswered
  <2>3. CASE WorkerStops(a)
    BY <2>3 DEF WorkerStops, Idle
  <2>4. CASE WorkerWrites(a)
    BY <2>4 DEF WorkerWrites
  <2>5. CASE WorkerShows(a)
    BY <2>5 DEF WorkerShows, Idle
  <2> QED BY <2>1, <2>2, <2>3, <2>4, <2>5 DEF Worker
<1>2. /\ cache' \in [Accounts -> Versions \cup {Nothing}]
      /\ snapshots' \subseteq Accounts
  BY DEF Worker, WorkerStarts, WorkerAnswered, WorkerStops, WorkerWrites, WorkerShows,
     device, widget
<1>3. TypeOK'
  BY <1>0, <1>1, <1>2 DEF memory, past
<1> QED BY <1>0, <1>3, OthersBasic DEF Versions, memory, past

LEMMA NextBasic == Basic /\ [Next]_vars => Basic'
<1> SUFFICES ASSUME Basic, [Next]_vars PROVE Basic'
  OBVIOUS
<1>1. CASE UNCHANGED vars
  <2>1. TypeOK'
    BY <1>1 DEF Basic, TypeOK, vars, device, widget, memory, past
  <2> QED BY <1>1, <2>1, OthersBasic DEF vars, device, memory, past, Basic, TypeOK, Versions
<1>2. CASE Core
  <2>1. CASE Throw
    BY <2>1, DieBasic DEF Throw, Basic, TypeOK
  <2> QED
    BY <1>2, <2>1, RestoreBasic, RestoreUnreadableBasic, RestoredBasic, AuthorizeBasic,
       ActivatedBasic, AuthorizedBasic, NotAuthorizedBasic, RefreshBasic, BeginBasic, ServeBasic,
       RequestFailsBasic, ListedBasic, LoadedMoreBasic, UpdatedBasic, SignOutBasic,
       NobodyToSignOutBasic, SignedOutBasic, CancelBasic DEF Core
<1>3. CASE Kill
  BY <1>3, DieBasic, MobileAssumption DEF Kill, Basic, TypeOK
<1> QED BY <1>1, <1>2, <1>3, ObserveBasic, EditBasic, PressBasic, CallbackBasic, CloseBasic,
        WorkerBasic DEF Next

\* Every variable has its type, in every state of every execution.
THEOREM AppTypeCorrect == Spec => []TypeOK
<1>1. Spec => []Basic
  BY InitBasic, NextBasic, PTL DEF Spec
<1>2. Basic => TypeOK
  BY DEF Basic
<1> QED BY <1>1, <1>2, PTL

\* A list from the server never shows an older version of a task than the user
\* has been told of, whatever else is changed, refreshed or lost in between:
\* requests are answered one at a time, and a list is asked for and shown under
\* one hold of the mutex.
THEOREM EditsAreNotTakenBack == Spec => []AcknowledgedEditStays
<1>1. Spec => []Basic
  BY InitBasic, NextBasic, PTL DEF Spec
<1>2. Basic => AcknowledgedEditStays
  BY DEF Basic, Acks
<1> QED BY <1>1, <1>2, PTL

-----------------------------------------------------------------------------
(***************************************************************************)
(* What may be waiting in every phase.                                     *)
(***************************************************************************)
Later == {"refresh", "loadMore", "update", "signOut"}

Bootstrapping ==
  /\ Len(queue) = 1 /\ queue[1].op = "start" /\ queue[1].at \in {"waiting", "whoami"}
  /\ queue[1].at = "waiting" => creds = None /\ screen.list = NoList

Authorizing ==
  /\ Len(queue) = 1 /\ queue[1].op = "authorize"
  /\ queue[1].at \in {"browser", "activate", "whoami"}
  /\ screen.account = None /\ screen.list = NoList

\* Commands pressed before the sign out are still to find that it is too late.
SignedOff ==
  /\ screen.account = None /\ screen.list = NoList
  /\ \/ queue = <<>>
     \/ /\ Len(queue) = 1 /\ leaving = {}
        /\ queue[1].op = "authorize" /\ queue[1].at = "waiting"
     \/ /\ Session = None
        /\ \A i \in 1 .. Len(queue) : queue[i].at = "waiting" /\ queue[i].op \in Later

SignedIn ==
  /\ screen.account = creds /\ creds # None /\ active = creds
  /\ \A i \in 1 .. Len(queue) :
       /\ queue[i].op = "signOut" => queue[i].who = creds
       /\ queue[i].op \notin Later => queue[i].at \in {"fetch", "answer"}

Placed == ~ broken =>
  /\ screen.list.of \in {None, screen.account}
  /\ leaving # {} => screen.phase = "signed out"
  /\ screen.phase = "bootstrap"   => Bootstrapping
  /\ screen.phase = "authorizing" => Authorizing
  /\ screen.phase = "signed out"  => SignedOff
  /\ screen.phase = "signed in"   => SignedIn

\* The phase a command finds.
LEMMA Where ==
  ASSUME Basic, Placed, ~ broken, queue # <<>>
  PROVE  /\ queue[1].op = "start" /\ queue[1].at \in {"waiting", "whoami"}
              => screen.phase = "bootstrap"
         /\ queue[1].op = "authorize" /\ queue[1].at \in {"browser", "activate", "whoami"}
              => screen.phase = "authorizing"
         /\ queue[1].op = "authorize" /\ queue[1].at = "waiting"
              => screen.phase = "signed out" /\ Len(queue) = 1 /\ leaving = {}
         /\ queue[1].at \in {"fetch", "answer", "revoke"} => screen.phase = "signed in"
         /\ queue[1].op \in Later /\ (Session # None \/ AccountId # None)
              => screen.phase = "signed in"
         /\ queue[1].op \in Later /\ Session = None => screen.phase = "signed out"
<1>1. screen.phase \in Phases /\ Len(queue) >= 1
  BY DEF Basic, TypeOK
<1>2. CASE screen.phase = "bootstrap"
  BY <1>2 DEF Placed, Bootstrapping, Later
<1>3. CASE screen.phase = "authorizing"
  BY <1>3 DEF Placed, Authorizing, Later
<1>4. CASE screen.phase = "signed in"
  <2>1. SignedIn /\ 1 \in 1 .. Len(queue) /\ Session = creds
    <3>1. SignedIn /\ creds # None
      BY <1>4 DEF Placed, SignedIn
    <3> QED BY <3>1, Queue DEF Session, Basic
  <2>2. queue[1].op \notin Later => queue[1].at \in {"fetch", "answer"}
    BY <2>1 DEF SignedIn
  <2>3. creds # None
    BY <2>1 DEF SignedIn
  <2> QED BY <1>4, <2>1, <2>2, <2>3 DEF Later
<1>5. CASE screen.phase = "signed out"
  <2>2. Session = None => AccountId = None
    <3>1. Session = None => creds = None
      BY DEF Session
    <3>2. screen.account = None
      BY <1>5 DEF Placed, SignedOff
    <3> QED BY <3>1, <3>2 DEF AccountId
  <2>3. 1 \in 1 .. Len(queue) /\ SignedOff
    BY <1>5, Queue DEF Placed, Basic
  <2>4. \/ Len(queue) = 1 /\ leaving = {} /\ queue[1].op = "authorize" /\ queue[1].at = "waiting"
        \/ Session = None /\ queue[1].at = "waiting" /\ queue[1].op \in Later
    BY <2>3 DEF SignedOff
  <2> QED BY <1>5, <2>2, <2>4 DEF Later
<1> QED BY <1>1, <1>2, <1>3, <1>4, <1>5 DEF Phases

\* A command of a signed in app goes on or ends.
LEMMA StaysSignedIn ==
  ASSUME Basic, Placed, ~ broken, queue # <<>>,
         screen.phase = "signed in", screen'.phase = "signed in",
         screen'.account = screen.account, screen'.list.of \in {None, screen.account},
         creds' = creds, active' = active, leaving' = leaving,
         NEW at \in {"fetch", "answer", "revoke"},
         End \/ GoOn(at, Nothing) \/ GoOn(at, version'),
         version' \in Versions,
         queue[1].op \in Later \/ at \in {"fetch", "answer"}
  PROVE  Placed'
<1> TypeOK /\ Waiting
  BY DEF Basic
<1>1. SignedIn /\ leaving = {}
  BY DEF Placed
<1>2. SignedIn'
  <2>1. CASE End
    <3>1. \A i \in 1 .. Len(queue') :
            queue'[i] = queue[i + 1] /\ queue'[i].at = "waiting" /\ i + 1 \in 1 .. Len(queue)
      BY <2>1, Popped
    <3> QED BY <1>1, <3>1 DEF SignedIn
  <2>2. CASE GoOn(at, Nothing) \/ GoOn(at, version')
    <3>1. /\ Len(queue') = Len(queue)
          /\ queue'[1].op = queue[1].op /\ queue'[1].who = queue[1].who
          /\ queue'[1].at = at
          /\ \A i \in 1 .. Len(queue') :
               i \in 1 .. Len(queue) /\ (i = 1 \/ queue'[i] = queue[i])
      BY <2>2, WentOn
    <3> SUFFICES ASSUME NEW i \in 1 .. Len(queue')
                 PROVE  /\ queue'[i].op = "signOut" => queue'[i].who = creds
                        /\ queue'[i].op \notin Later => queue'[i].at \in {"fetch", "answer"}
      BY <1>1 DEF SignedIn
    <3>2. CASE i = 1
      BY <3>1, <3>2, <1>1 DEF SignedIn
    <3>3. CASE i # 1
      <4>1. i \in 1 .. Len(queue) /\ queue'[i] = queue[i]
        BY <3>1, <3>3
      <4> QED BY <4>1, <1>1 DEF SignedIn
    <3> QED BY <3>2, <3>3
  <2> QED BY <2>1, <2>2
<1> QED BY <1>1, <1>2 DEF Placed

LEMMA InitPlaced == Init => Placed
BY DEF Init, Placed, Bootstrapping, Opened, Starting, NoList

LEMMA StartPlaced ==
  ASSUME Basic, Placed,
         Restore \/ RestoreUnreadable \/ (\E works \in BOOLEAN : Restored(works))
  PROVE  Placed'
<1> TypeOK /\ Waiting /\ Signed /\ Ahead
  BY DEF Basic
<1> SUFFICES ASSUME ~ broken' PROVE Placed'
  BY DEF Placed
<1>0. queue # <<>> /\ queue[1].op = "start" /\ ~ broken
  <2>1. queue # <<>> /\ queue[1].op = "start"
    BY DEF Restore, RestoreUnreadable, Restored, Answering, Running
  <2>2. broken' = broken
    BY DEF Restore, RestoreUnreadable, Restored, past
  <2> QED BY <2>1, <2>2, Zenon
<1>1. /\ queue[1].at \in {"waiting", "whoami"} => leaving = {} /\ Bootstrapping
  BY <1>0, Where DEF Placed
<1>2. CASE Restore
  <2>1. /\ leaving' = {} /\ screen'.phase = "bootstrap" /\ creds' = screen'.account
        /\ screen'.account = Stored /\ GoOn("whoami", Nothing)
        /\ screen'.list = IF Stored = None THEN NoList ELSE Published(Stored, NoList)
    BY <1>1, <1>2 DEF Restore, Running
  <2>2. screen'.list.of \in {None, Stored}
    BY <2>1, StoredAccount, FromCache DEF NoList, Lists
  <2>3. /\ Len(queue') = 1 /\ queue'[1].op = "start" /\ queue'[1].at = "whoami"
    BY <1>0, <1>1, <1>2, <2>1, WentOn DEF Bootstrapping, Restore, Running
  <2> QED BY <2>1, <2>2, <2>3 DEF Placed, Bootstrapping
<1>3. CASE RestoreUnreadable
  <2>1. /\ leaving' = {} /\ End /\ Len(queue) = 1
        /\ screen' = [phase |-> "signed out", account |-> None, list |-> NoList]
    BY <1>1, <1>3, ScreenWith DEF RestoreUnreadable, Running, Bootstrapping, Opened
  <2>2. queue' = <<>>
    BY <1>0, <2>1, Popped
  <2> QED BY <2>1, <2>2 DEF Placed, SignedOff, NoList
<1>4. ASSUME NEW works \in BOOLEAN, Restored(works) PROVE Placed'
  <2>1. /\ leaving' = {} /\ creds' = creds /\ Len(queue) = 1
        /\ queue[1].at = "whoami" /\ screen.account = creds
        /\ screen' = [phase |-> IF screen.account = None THEN "signed out" ELSE "signed in",
                      account |-> screen.account, list |-> screen.list]
        /\ (screen.account # None /\ GoOn("fetch", Nothing)) \/ End
        /\ screen.list.of \in {None, screen.account}
    BY <1>0, <1>1, <1>4, ScreenWith, Zenon
       DEF Restored, Answering, Running, Bootstrapping, Ahead, Placed
  <2>4. active' = active /\ (creds # None => active = creds)
    BY <1>0, <1>4, <2>1 DEF Restored, Ahead, device
  <2>2. CASE screen.account = None
    <3>1. queue' = <<>>
      BY <1>0, <2>1, <2>2, Popped
    <3>2. screen.list = NoList
      BY <2>1, <2>2, MobileAssumption DEF TypeOK, Lists
    <3> QED BY <2>1, <2>2, <3>1, <3>2 DEF Placed, SignedOff
  <2>3. CASE screen.account # None
    <3>1. \A i \in 1 .. Len(queue') : queue'[i].op = "start" /\ queue'[i].at = "fetch"
      <4>1. CASE End
        <5>1. queue' = <<>>
          BY <1>0, <2>1, <4>1, Popped
        <5> QED BY <5>1
      <4>2. CASE GoOn("fetch", Nothing)
        <5>1. Len(queue') = 1 /\ queue'[1].op = "start" /\ queue'[1].at = "fetch"
          BY <1>0, <2>1, <4>2, WentOn
        <5> QED BY <5>1
      <4> QED BY <2>1, <4>1, <4>2
    <3> QED BY <2>1, <2>3, <2>4, <3>1 DEF Placed, SignedIn
  <2> QED BY <2>2, <2>3
<1> QED BY <1>2, <1>3, <1>4

LEMMA AuthorizePlaced ==
  ASSUME Basic, Placed,
         Authorize \/ (\E a \in Accounts : Callback(a)) \/ Activated \/ Authorized \/ NotAuthorized
  PROVE  Placed'
<1> TypeOK /\ Waiting /\ Signed /\ Ahead
  BY DEF Basic
<1> SUFFICES ASSUME ~ broken' PROVE Placed'
  BY DEF Placed
<1>0. queue # <<>> /\ queue[1].op = "authorize" /\ ~ broken
  <2>1. queue # <<>> /\ queue[1].op = "authorize"
    BY DEF Authorize, Callback, Activated, Authorized, NotAuthorized, Answering, Running
  <2>2. broken' = broken
    BY DEF Authorize, Callback, Activated, Authorized, NotAuthorized, past
  <2> QED BY <2>1, <2>2, Zenon
<1>1. queue[1].at \in {"browser", "activate", "whoami"} => leaving = {} /\ Authorizing
  BY <1>0, Where DEF Placed
<1>2. CASE Authorize
  <2>1. /\ leaving' = {} /\ Len(queue) = 1 /\ GoOn("browser", Nothing)
        /\ screen' = [phase |-> "authorizing", account |-> None, list |-> NoList]
    BY <1>0, <1>2, Where, ScreenWith DEF Authorize, Running, Placed, SignedOff
  <2>2. Len(queue') = 1 /\ queue'[1].op = "authorize" /\ queue'[1].at = "browser"
    BY <1>0, <2>1, WentOn
  <2> QED BY <2>1, <2>2 DEF Placed, Authorizing, NoList
<1>3. ASSUME NEW a \in Accounts, Callback(a) PROVE Placed'
  <2>1. /\ leaving' = {} /\ Len(queue) = 1
        /\ queue' = [queue EXCEPT ![1].at = "activate", ![1].who = a]
        /\ screen' = screen /\ screen.phase = "authorizing"
        /\ screen.account = None /\ screen.list = NoList
    BY <1>0, <1>1, <1>3, Where DEF Callback, Answering, Running, Authorizing
  <2>2. Len(queue') = 1 /\ queue'[1].op = "authorize" /\ queue'[1].at = "activate"
    BY <1>0, <2>1, Saved
  <2> QED BY <2>1, <2>2 DEF Placed, Authorizing, NoList
<1>6. CASE Activated
  <2>1. /\ leaving' = {} /\ Len(queue) = 1 /\ GoOn("whoami", Nothing)
        /\ screen' = screen /\ screen.phase = "authorizing"
        /\ screen.account = None /\ screen.list = NoList
    BY <1>0, <1>1, <1>6, Where DEF Activated, Answering, Running, Authorizing
  <2>2. Len(queue') = 1 /\ queue'[1].op = "authorize" /\ queue'[1].at = "whoami"
    BY <1>0, <2>1, WentOn DEF Stops
  <2> QED BY <2>1, <2>2 DEF Placed, Authorizing, NoList
<1>4. CASE Authorized
  <2>1. /\ leaving' = {} /\ Len(queue) = 1 /\ GoOn("fetch", Nothing)
        /\ screen' = [phase |-> "signed in", account |-> creds,
                      list |-> Published(creds, NoList)]
        /\ creds' = creds /\ creds \in Accounts /\ creds # None
    BY <1>0, <1>1, <1>4 DEF Authorized, Answering, Running, Authorizing, Ahead, TypeOK
  <2>2. screen'.list.of \in {None, creds}
    BY <2>1, FromCache DEF NoList, Lists
  <2>3. Len(queue') = 1 /\ queue'[1].op = "authorize" /\ queue'[1].at = "fetch"
    BY <1>0, <2>1, WentOn
  <2>4. SignedIn'
    <3>1. screen'.account = creds' /\ creds' # None /\ active' = creds'
      <4>1. active' = active /\ queue[1].at = "whoami"
        BY <1>4 DEF Authorized, Answering, Running, device
      <4>2. active = creds
        BY <1>0, <2>1, <4>1 DEF Ahead
      <4> QED BY <2>1, <4>1, <4>2
    <3>2. \A i \in 1 .. Len(queue') : queue'[i].op = "authorize" /\ queue'[i].at = "fetch"
      BY <2>3
    <3> QED BY <3>1, <3>2 DEF SignedIn
  <2> QED BY <2>1, <2>2, <2>4 DEF Placed
<1>5. CASE NotAuthorized
  <2>1. /\ Len(queue) = 1 /\ End
        /\ screen' = [phase |-> "signed out", account |-> None, list |-> NoList]
    BY <1>0, <1>1, <1>5, ScreenWith DEF NotAuthorized, Answering, Running, Authorizing
  <2>2. queue' = <<>>
    BY <1>0, <2>1, Popped
  <2> QED BY <2>1, <2>2 DEF Placed, SignedOff, NoList
<1> QED BY <1>2, <1>3, <1>4, <1>5, <1>6

\* The list is still the account's.
LEMMA RequestsPlaced ==
  ASSUME Basic, Placed,
         Refresh \/ Begin \/ Serve \/ RequestFails \/ Listed \/ LoadedMore \/ Updated \/ SignOut
  PROVE  Placed'
<1> TypeOK /\ Waiting /\ Signed /\ Ahead
  BY DEF Basic
<1> SUFFICES ASSUME ~ broken' PROVE Placed'
  BY DEF Placed
<1>0. queue # <<>> /\ ~ broken /\ leaving' = leaving /\ active' = active
  <2>1. queue # <<>> /\ leaving' = leaving /\ active' = active
    BY DEF Refresh, Begin, Serve, RequestFails, Listed, LoadedMore, Updated, SignOut,
       Answering, Running, device
  <2>2. broken' = broken
    BY DEF Refresh, Begin, Serve, RequestFails, Listed, LoadedMore, Updated, SignOut, past
  <2> QED BY <2>1, <2>2, Zenon
<1>1. version \in Versions
  BY DEF TypeOK
<1>2. CASE screen.phase = "signed in"
  <2>0. /\ creds # None /\ screen.account = creds /\ Session = creds
        /\ screen.list.of \in {None, creds}
    BY <1>0, <1>2 DEF Placed, SignedIn, Session
  <2>1. CASE Refresh
    <3>1. /\ queue[1].op \in Later /\ creds' = creds /\ GoOn("fetch", Nothing)
          /\ screen' = [phase |-> screen.phase, account |-> screen.account,
                        list |-> Published(creds, screen.list)]
          /\ version' = version
      BY <2>0, <2>1, ScreenWith DEF Refresh, Running, Later, AccountId
    <3>2. screen'.list.of \in {None, screen.account}
      BY <2>0, <3>1, FromCache DEF TypeOK
    <3> QED BY <1>0, <1>1, <1>2, <3>1, <3>2, StaysSignedIn
  <2>2. CASE Begin
    <3>1. /\ queue[1].op \in Later /\ creds' = creds /\ screen' = screen
          /\ End \/ GoOn("fetch", Nothing)
          /\ version' = version
      BY <2>2 DEF Begin, Running, Later
    <3> QED BY <1>0, <1>1, <1>2, <2>0, <3>1, StaysSignedIn
  <2>3. CASE Serve
    <3>1. /\ GoOn("answer", version') /\ creds' = creds /\ screen' = screen
          /\ version' \in Versions
      BY <2>0, <2>3 DEF Serve
    <3> QED BY <1>0, <1>2, <2>0, <3>1, StaysSignedIn
  <2>4. CASE RequestFails
    <3>1. End /\ creds' = creds /\ screen' = screen /\ version' = version
          /\ queue[1].at \in {"fetch", "answer"}
      BY <2>4 DEF RequestFails, Answering, Running
    <3> QED BY <1>0, <1>1, <1>2, <2>0, <3>1, StaysSignedIn
  <2>5. CASE Listed
    <3>1. /\ End /\ creds' = creds /\ version' = version
          /\ screen' = [phase |-> screen.phase, account |-> screen.account, list |->
                         [of |-> creds, ver |-> queue[1].got, from |-> "server"]]
      BY <2>0, <2>5, ScreenWith DEF Listed
    <3> QED BY <1>0, <1>1, <1>2, <2>0, <3>1, StaysSignedIn
  <2>6. CASE LoadedMore
    <3>1. /\ End /\ creds' = creds /\ version' = version
          /\ screen' = [screen EXCEPT !.list =
               [screen.list EXCEPT !.from = IF @ = "cache" THEN "both" ELSE @]]
      BY <2>6 DEF LoadedMore
    <3>2. /\ screen'.phase = screen.phase /\ screen'.account = screen.account
          /\ screen'.list.of = screen.list.of
      <4>1. \A f : [screen.list EXCEPT !.from = f].of = screen.list.of
        BY DEF TypeOK, Lists, NoList
      <4>2. PICK f : screen' = [screen EXCEPT !.list = [screen.list EXCEPT !.from = f]]
        BY <3>1
      <4> QED BY <4>1, <4>2, ScreenWith
    <3> QED BY <1>0, <1>1, <1>2, <2>0, <3>1, <3>2, StaysSignedIn
  <2>7. CASE Updated
    <3>1. /\ End /\ creds' = creds /\ version' = version
          /\ screen' = [phase |-> screen.phase, account |-> screen.account,
                        list |-> Replaced(screen.list, queue[1].got)]
      BY <2>7, ScreenWith DEF Updated
    <3>2. screen'.list.of = screen.list.of
      BY <3>1 DEF Replaced, TypeOK, Lists, NoList
    <3> QED BY <1>0, <1>1, <1>2, <2>0, <3>1, <3>2, StaysSignedIn
  <2>8. CASE SignOut
    <3>1. /\ queue[1].op \in Later /\ creds' = creds /\ screen' = screen
          /\ GoOn("revoke", Nothing) /\ version' = version
      BY <2>8 DEF SignOut, Running, Later
    <3> QED BY <1>0, <1>1, <1>2, <2>0, <3>1, StaysSignedIn
  <2> QED BY <2>1, <2>2, <2>3, <2>4, <2>5, <2>6, <2>7, <2>8
<1>3. CASE screen.phase # "signed in"
  <2>1. Begin
    BY <1>0, <1>3, Where DEF Refresh, Begin, Serve, RequestFails, Listed, LoadedMore, Updated,
       SignOut, Answering, Running, Later
  <2>2. /\ queue[1].op \in Later /\ queue[1].at = "waiting"
        /\ creds' = creds /\ screen' = screen /\ Session' = Session
    BY <2>1 DEF Begin, Running, Later, device, Session, Stored
  <2>3. Session = None /\ screen.phase = "signed out"
    BY <1>0, <1>3, <2>2, Where
  <2>4. End
    BY <2>1, <2>3 DEF Begin
  <2>5. SignedOff
        /\ \A i \in 1 .. Len(queue) : queue[i].at = "waiting" /\ queue[i].op \in Later
    BY <1>0, <2>2, <2>3 DEF Placed, SignedOff, Later
  <2>6. \A i \in 1 .. Len(queue') : queue'[i].at = "waiting" /\ queue'[i].op \in Later
    BY <1>0, <2>4, <2>5, Popped
  <2>7. SignedOff'
    BY <2>2, <2>3, <2>5, <2>6 DEF SignedOff
  <2> QED BY <1>0, <2>2, <2>3, <2>7 DEF Placed
<1> QED BY <1>2, <1>3

LEMMA SignedOutPlaced ==
  ASSUME Basic, Placed,
         NobodyToSignOut \/ (\E kept \in SUBSET {"bundle", "active", "cache"} : SignedOut(kept))
  PROVE  Placed'
<1> TypeOK /\ Waiting /\ Signed /\ Ahead
  BY DEF Basic
<1> SUFFICES ASSUME ~ broken' PROVE Placed'
  BY DEF Placed
<1>1. /\ queue # <<>> /\ queue[1].op = "signOut" /\ End
      /\ screen' = [phase |-> "signed out", account |-> None, list |-> NoList]
  BY ScreenWith DEF NobodyToSignOut, SignedOut, Answering, Running
<1>2. /\ ~ broken /\ Session' = None
      /\ \A i \in 1 .. Len(queue) : queue[i].at = "waiting" => queue[i].op \in Later
  <2>1. CASE NobodyToSignOut
    <3>1. broken' = broken /\ Session = None /\ Session' = Session
      BY <2>1 DEF NobodyToSignOut, past, device, Session, Stored
    <3>2. ~ broken
      BY <3>1, Zenon
    <3>3. screen.phase = "signed out"
      BY <1>1, <3>1, <3>2, Where DEF Later
    <3>4. SignedOff
      BY <3>2, <3>3 DEF Placed
    <3>5. \A i \in 1 .. Len(queue) : queue[i].at = "waiting" /\ queue[i].op \in Later
      BY <1>1, <3>4 DEF SignedOff
    <3> QED BY <3>1, <3>2, <3>5
  <2>2. CASE \E kept \in SUBSET {"bundle", "active", "cache"} : SignedOut(kept)
    <3>1. PICK kept \in SUBSET {"bundle", "active", "cache"} : SignedOut(kept)
      BY <2>2
    <3>2. ~ broken /\ bundles' = bundles \ {Session}
      BY <3>1, DeletedSome DEF SignedOut
    <3>3. creds' = None /\ queue[1].at = "revoke" /\ active' \in {active, None}
      BY <3>1, DeletedSome DEF SignedOut, Answering, Running
    <3>4. SignedIn
      BY <1>1, <3>2, <3>3, Where DEF Placed
    <3>5. \A i \in 1 .. Len(queue) : queue[i].at = "waiting" => queue[i].op \in Later
      BY <3>4, Queue DEF SignedIn
    <3>6. CASE active' = None
      <4>1. Session' = None
        BY <3>3, <3>6 DEF Session, Stored
      <4> QED BY <3>2, <3>5, <4>1
    <3>7. CASE active' = active
      <4>1. active = Session
        BY <3>4 DEF SignedIn, Session
      <4>2. Session' = None
        BY <3>2, <3>3, <3>7, <4>1 DEF Session, Stored
      <4> QED BY <3>2, <3>5, <4>2
    <3> QED BY <3>3, <3>6, <3>7
  <2> QED BY <1>1, <2>1, <2>2 DEF NobodyToSignOut, SignedOut
<1>3. \A i \in 1 .. Len(queue') : queue'[i].at = "waiting" /\ queue'[i].op \in Later
  BY <1>1, <1>2, Popped
<1>4. SignedOff'
  BY <1>1, <1>2, <1>3 DEF SignedOff
<1> QED BY <1>1, <1>4 DEF Placed, NoList

LEMMA ReopenedPlaced == ASSUME Reopened PROVE Placed'
BY DEF Reopened, Placed, Bootstrapping, Opened, Starting, NoList

LEMMA PressPlaced == ASSUME Basic, Placed, NEW op \in Ops, Press(op) PROVE Placed'
<1> TypeOK /\ Waiting
  BY DEF Basic
<1> SUFFICES ASSUME ~ broken' PROVE Placed'
  BY DEF Placed
<1>0. /\ Settled /\ Offered(op) /\ ~ broken
      /\ UNCHANGED <<active, screen, creds, leaving>>
  <2>1. broken' = broken
    BY DEF Press, past
  <2>2. Settled /\ Offered(op) /\ UNCHANGED <<active, screen, creds, leaving>>
    BY DEF Press, device
  <2> QED BY <2>1, <2>2, Zenon
<1>1. CASE op = "authorize"
  <2>1. SignedOff /\ screen.phase = "signed out"
    BY <1>0, <1>1 DEF Offered, Placed
  <2>2. queue = <<>>
    BY <1>0, <2>1, Queue DEF SignedOff, Settled
  <2>3. Len(queue') = 1 /\ queue'[1] = Command(op) /\ leaving' = {}
    BY <1>0, <2>2, Pressed DEF Settled
  <2>4. SignedOff'
    <3>1. Command(op).op = "authorize" /\ Command(op).at = "waiting"
      BY <1>1 DEF Command
    <3>2. screen'.account = None /\ screen'.list = NoList
      BY <1>0, <2>1 DEF SignedOff
    <3> QED BY <2>3, <3>1, <3>2 DEF SignedOff
  <2> QED BY <1>0, <2>1, <2>4 DEF Placed
<1>2. CASE op # "authorize"
  <2>1. SignedIn /\ screen.phase = "signed in" /\ op \in Later
    BY <1>0, <1>2 DEF Offered, Placed, Ops, Later
  <2>2. \A i \in 1 .. Len(queue') :
          (i \in 1 .. Len(queue) /\ queue'[i] = queue[i]) \/ queue'[i] = Command(op)
    <3>1. /\ Len(queue') = Len(queue) + 1 /\ Len(queue) \in Nat
          /\ \A i \in 1 .. Len(queue) : queue'[i] = queue[i]
          /\ queue'[Len(queue')] = Command(op)
      BY Pressed, Queue
    <3> QED BY <3>1
  <2>3. Command(op).op = op /\ (op = "signOut" => Command(op).who = creds)
    BY <2>1 DEF Command, SignedIn
  <2>4. SignedIn'
    BY <1>0, <2>1, <2>2, <2>3 DEF SignedIn
  <2> QED BY <1>0, <2>1, <2>4 DEF Placed
<1> QED BY <1>1, <1>2

LEMMA OthersPlaced ==
  ASSUME Placed, UNCHANGED <<bundles, active, screen, creds, queue, broken>>, leaving' \subseteq leaving
  PROVE  Placed'
<1>1. leaving = {} => leaving' = {}
  OBVIOUS
<1> QED BY <1>1 DEF Placed, Bootstrapping, Authorizing, SignedOff, SignedIn, Session, Stored

LEMMA NextPlaced == Basic /\ Placed /\ [Next]_vars => Placed'
<1> SUFFICES ASSUME Basic, Placed, [Next]_vars PROVE Placed'
  OBVIOUS
<1>1. CASE UNCHANGED vars
  BY <1>1, OthersPlaced DEF vars, device, memory, past
<1>2. CASE Core
  <2>1. ASSUME NEW a \in Accounts, Cancel(a) PROVE Placed'
    BY <2>1, OthersPlaced DEF Cancel, device, past
  <2> QED
    BY <1>2, <2>1, StartPlaced, AuthorizePlaced, RequestsPlaced, SignedOutPlaced,
       ReopenedPlaced DEF Core, Throw, Die
<1>3. CASE Kill
  BY <1>3, ReopenedPlaced DEF Kill, Die
<1>4. ASSUME NEW a \in Accounts, Callback(a) PROVE Placed'
  BY <1>4, AuthorizePlaced
<1>5. ASSUME NEW a \in Accounts, Worker(a) PROVE Placed'
  BY <1>5, OthersPlaced DEF Worker, WorkerStarts, WorkerAnswered, WorkerStops, WorkerWrites,
     WorkerShows, device, memory, past
<1>6. CASE Observe \/ Edit
  BY <1>6, OthersPlaced DEF Observe, Edit, device, memory, past
<1>7. ASSUME NEW kept \in SUBSET {"bundle", "active", "cache"}, Close(kept) PROVE Placed'
  BY <1>7, ReopenedPlaced DEF Close
<1> QED BY <1>1, <1>2, <1>3, <1>4, <1>5, <1>6, <1>7, PressPlaced DEF Next

\* The app never shows one account's tasks under another's name, or to nobody.
THEOREM ListsAreTheAccounts == Spec => []ListsOfAccount
<1>1. Init => Basic /\ Placed
  BY InitBasic, InitPlaced
<1>2. Basic /\ Placed /\ [Next]_vars => (Basic /\ Placed)'
  BY NextBasic, NextPlaced
<1>3. Spec => [](Basic /\ Placed)
  BY <1>1, <1>2, PTL DEF Spec
<1>4. Basic /\ Placed => ListsOfAccount
  BY DEF Placed, ListsOfAccount
<1> QED BY <1>3, <1>4, PTL

-----------------------------------------------------------------------------
(***************************************************************************)
(* What an account has on the device, and what will take it away.          *)
(***************************************************************************)

\* The bundle of an account is the session's, or about to be.
Held(a) ==
  \/ /\ active = a
     /\ \/ screen.phase = "bootstrap" /\ queue[1].at = "waiting"
        \/ /\ creds = a /\ screen.phase # "signed out"
           /\ screen.phase = "authorizing" => queue[1].at = "whoami"
  \/ screen.phase = "authorizing" /\ queue[1].at = "activate" /\ queue[1].who = a

Kept(a) ==
  /\ a \in bundles      => Held(a)
  /\ cache[a] # Nothing => a \in bundles
  /\ worker[a] # Idle   => a \in bundles \cap registered
  /\ a \in registered   => a \in bundles \cup leaving
  /\ a \in snapshots    => a \in registered

Tidy == ~ broken => \A a \in Accounts \ loose : Kept(a)

AppInv == Basic /\ Placed /\ Tidy

LEMMA InitTidy == Init => Tidy
BY DEF Init, Tidy, Kept

LEMMA StartTidy ==
  ASSUME AppInv, Restore \/ RestoreUnreadable \/ (\E works \in BOOLEAN : Restored(works))
  PROVE  Tidy'
<1> TypeOK /\ Waiting /\ Signed /\ Ahead /\ Basic /\ Placed
  BY DEF AppInv, Basic
<1>0. queue # <<>> /\ queue[1].op = "start" /\ broken' = broken
      /\ UNCHANGED <<bundles, active, cache, registered, snapshots, worker, leaving>>
      /\ loose \subseteq loose'
  BY DEF Restore, RestoreUnreadable, Restored, Answering, Running, past, device, widget
<1> SUFFICES ASSUME ~ broken', NEW a \in Accounts \ loose' PROVE Kept(a)'
  BY DEF Tidy
<1>1. ~ broken
  BY <1>0, Zenon
<1>2. Kept(a) /\ a # None
  BY <1>0, <1>1, MobileAssumption DEF Tidy, AppInv
<1>3. a \in bundles => Held(a)'
  <2>1. CASE Restore
    BY <1>2, <2>1 DEF Restore, Running, Kept, Held, Stored, device
  <2>2. CASE RestoreUnreadable
    BY <2>2 DEF RestoreUnreadable
  <2>3. ASSUME NEW works \in BOOLEAN, Restored(works), a \in bundles PROVE Held(a)'
    <3>1. /\ queue[1].at = "whoami" /\ screen.account = creds /\ creds' = creds
          /\ screen'.phase = IF screen.account = None THEN "signed out" ELSE "signed in"
      BY <1>0, <2>3, ScreenWith DEF Restored, Answering, Running, Ahead
    <3>2. active = a /\ creds = a
      BY <1>2, <2>3, <3>1 DEF Kept, Held
    <3> QED BY <1>0, <1>2, <3>1, <3>2 DEF Held
  <2> QED BY <2>1, <2>2, <2>3
<1> QED BY <1>0, <1>2, <1>3 DEF Kept

LEMMA AuthorizeTidy ==
  ASSUME AppInv,
         Authorize \/ (\E b \in Accounts : Callback(b)) \/ Activated \/ Authorized \/ NotAuthorized
  PROVE  Tidy'
<1> TypeOK /\ Waiting /\ Signed /\ Ahead /\ Basic /\ Placed
  BY DEF AppInv, Basic
<1>0. queue # <<>> /\ queue[1].op = "authorize" /\ broken' = broken
      /\ UNCHANGED <<cache, registered, snapshots, worker, leaving>>
      /\ loose \subseteq loose' /\ bundles \subseteq bundles'
  BY DEF Authorize, Callback, Activated, Authorized, NotAuthorized, Answering, Running, past, device, widget
<1> SUFFICES ASSUME ~ broken', NEW a \in Accounts \ loose' PROVE Kept(a)'
  BY DEF Tidy
<1>1. ~ broken
  BY <1>0, Zenon
<1>2. Kept(a) /\ a # None
  BY <1>0, <1>1, MobileAssumption DEF Tidy, AppInv
<1>3. a \in bundles' => Held(a)'
  <2>1. CASE Authorize
    BY <1>0, <1>1, <1>2, <2>1, Where DEF Authorize, Running, Kept, Held, device
  <2>2. ASSUME NEW b \in Accounts, Callback(b), a \in bundles' PROVE Held(a)'
    <3>1. /\ queue[1].at = "browser" /\ bundles' = bundles \cup {b}
          /\ queue' = [queue EXCEPT ![1].at = "activate", ![1].who = b]
          /\ screen' = screen
      BY <2>2 DEF Callback, Answering, Running
    <3>2. screen.phase = "authorizing" /\ queue'[1].at = "activate" /\ queue'[1].who = b
      BY <1>0, <1>1, <3>1, Where, Saved
    <3>3. a = b
      BY <1>2, <2>2, <3>1, <3>2 DEF Kept, Held
    <3> QED BY <3>1, <3>2, <3>3 DEF Held
  <2>5. ASSUME Activated, a \in bundles' PROVE Held(a)'
    <3>1. /\ queue[1].at = "activate" /\ bundles' = bundles /\ GoOn("whoami", Nothing)
          /\ active' = queue[1].who /\ creds' = queue[1].who /\ screen' = screen
      BY <2>5 DEF Activated, Answering, Running
    <3>2. screen.phase = "authorizing" /\ queue'[1].at = "whoami"
      BY <1>0, <1>1, <3>1, Where, WentOn DEF Stops
    <3>3. a = queue[1].who
      BY <1>2, <2>5, <3>1, <3>2 DEF Kept, Held
    <3> QED BY <3>1, <3>2, <3>3 DEF Held
  <2>3. CASE Authorized
    <3>1. /\ queue[1].at = "whoami" /\ creds' = creds /\ screen'.phase = "signed in"
          /\ UNCHANGED <<bundles, active>>
      BY <2>3 DEF Authorized, Answering, Running, device
    <3> QED BY <1>2, <3>1 DEF Kept, Held
  <2>4. CASE NotAuthorized
    <3>1. /\ queue[1].at \in {"browser", "activate", "whoami"} /\ bundles' = bundles
          /\ queue[1].at # "browser" => queue[1].who \in loose'
      BY <2>4 DEF NotAuthorized, Answering, Running
    <3>2. screen.phase = "authorizing"
      BY <1>0, <1>1, <3>1, Where
    <3>3. queue[1].at = "whoami" => queue[1].who = creds
      BY <1>0 DEF Ahead
    <3> QED BY <1>2, <3>1, <3>2, <3>3 DEF Kept, Held
  <2> QED BY <2>1, <2>2, <2>3, <2>4, <2>5
<1> QED BY <1>0, <1>2, <1>3 DEF Kept

\* A command that leaves bundles and session alone.
LEMMA RequestsTidy ==
  ASSUME AppInv,
         Refresh \/ Begin \/ Serve \/ RequestFails \/ Listed \/ LoadedMore \/ Updated \/ SignOut
  PROVE  Tidy'
<1> TypeOK /\ Waiting /\ Signed /\ Ahead /\ Basic /\ Placed
  BY DEF AppInv, Basic
<1>0. /\ queue # <<>> /\ broken' = broken
      /\ UNCHANGED <<bundles, active, registered, snapshots, worker, leaving, loose>>
      /\ cache' \in {cache, [cache EXCEPT ![AccountId] = queue[1].got],
                     [cache EXCEPT ![AccountId] = screen.list.ver]}
      /\ cache' # cache => queue[1].at = "answer"
  BY DEF Refresh, Begin, Serve, RequestFails, Listed, LoadedMore, Updated, SignOut, Answering,
     Running, past, device, widget
<1> SUFFICES ASSUME ~ broken', NEW a \in Accounts \ loose' PROVE Kept(a)'
  BY DEF Tidy
<1>1. ~ broken
  BY <1>0, Zenon
<1>2. Kept(a) /\ a # None
  BY <1>0, <1>1, MobileAssumption DEF Tidy, AppInv
<1>3. a \in bundles => Held(a)'
  <2>1. queue[1].op \in Later \/ queue[1].at \in {"fetch", "answer"}
    BY DEF Refresh, Begin, Serve, RequestFails, Listed, LoadedMore, Updated, SignOut, Answering,
       Running, Later
  <2>2. a \in bundles => creds = a /\ active = a /\ screen.phase = "signed in"
    <3> SUFFICES ASSUME a \in bundles PROVE creds = a /\ active = a /\ screen.phase = "signed in"
      OBVIOUS
    <3>1. Held(a)
      BY <1>2 DEF Kept
    <3>2. Session # None
      <4>1. queue[1].at # "activate"
        BY <1>0, <2>1 DEF Ahead, Stages, Later
      <4> QED BY <1>2, <3>1, <4>1 DEF Held, Session, Stored
    <3>3. screen.phase = "signed in"
      BY <1>0, <1>1, <2>1, <3>2, Where
    <3> QED BY <3>1, <3>3 DEF Held
  <2>3. screen'.phase = screen.phase /\ creds' \in {creds, Session}
    <3>1. CASE LoadedMore
      <4>1. PICK list : screen' = [screen EXCEPT !.list = list]
        BY <3>1 DEF LoadedMore
      <4> QED BY <3>1, <4>1, ScreenWith DEF LoadedMore
    <3> QED BY <3>1, ScreenWith DEF Refresh, Begin, Serve, RequestFails, Listed, Updated, SignOut
  <2> QED BY <1>0, <1>2, <2>2, <2>3 DEF Held, Session
<1>4. cache'[a] # Nothing => a \in bundles
  <2>1. cache' # cache => AccountId = creds /\ creds \in bundles
    BY <1>0 DEF Ahead, AccountId, Signed
  <2> QED BY <1>0, <1>2, <2>1 DEF Kept, TypeOK
<1> QED BY <1>0, <1>2, <1>3, <1>4 DEF Kept

LEMMA SignedOutTidy ==
  ASSUME AppInv, NobodyToSignOut \/ (\E kept \in SUBSET {"bundle", "active", "cache"} : SignedOut(kept))
  PROVE  Tidy'
<1> TypeOK /\ Waiting /\ Signed /\ Ahead /\ Basic /\ Placed
  BY DEF AppInv, Basic
<1> SUFFICES ASSUME ~ broken', NEW a \in Accounts \ loose' PROVE Kept(a)'
  BY DEF Tidy
<1>0. queue # <<>> /\ queue[1].op = "signOut" /\ a # None
      /\ leaving \subseteq leaving' /\ screen'.phase = "signed out"
  <2>1. queue # <<>> /\ queue[1].op = "signOut" /\ leaving' = Left
        /\ screen' = [phase |-> "signed out", account |-> None, list |-> NoList]
    BY ScreenWith DEF NobodyToSignOut, SignedOut, Answering, Running
  <2>2. Left \in {leaving, leaving \cup {queue[1].who}}
    BY DEF Left
  <2> QED BY <2>1, <2>2, MobileAssumption
<1>1. CASE NobodyToSignOut
  <2>1. UNCHANGED <<broken, bundles, active, cache, registered, snapshots, worker, loose>>
        /\ Session = None
    BY <1>1 DEF NobodyToSignOut, past, device, widget
  <2>2. ~ broken
    BY <2>1, Zenon
  <2>3. Kept(a)
    BY <2>1, <2>2 DEF Tidy, AppInv
  <2>4. a \notin bundles
    <3>1. screen.phase = "signed out"
      BY <1>0, <2>1, <2>2, Where DEF Later
    <3> QED BY <2>3, <3>1 DEF Kept, Held
  <2> QED BY <1>0, <2>1, <2>3, <2>4 DEF Kept
<1>2. ASSUME NEW kept \in SUBSET {"bundle", "active", "cache"}, SignedOut(kept)
      PROVE  Kept(a)'
  <2>1. ~ broken /\ bundles' = bundles \ {Session}
    BY <1>2, DeletedSome DEF SignedOut
  <2>2. /\ queue[1].at = "revoke" /\ bundles' = bundles \ {Session} /\ leaving' = Left
        /\ cache' = IF "cache" \in kept THEN cache ELSE [cache EXCEPT ![Session] = Nothing]
        /\ loose' = IF "cache" \in kept \/ worker[Session] # Idle THEN loose \cup {Session}
                    ELSE loose \ ({Session} \cap registered)
        /\ UNCHANGED <<registered, snapshots, worker>>
    BY <1>2, <2>1 DEF SignedOut, Deleted, Answering, Running, widget
  <2>3. screen.phase = "signed in"
    BY <1>0, <2>1, <2>2, Where
  <2>4. SignedIn /\ creds # None /\ Session = creds /\ queue[1].who = creds
    BY <1>0, <2>1, <2>3, Queue DEF Placed, SignedIn, Session
  <2>5. Session \in leaving'
    BY <2>2, <2>4 DEF Left
  <2>6. CASE a = Session
    <3>1. "cache" \notin kept /\ worker[a] = Idle /\ a \notin bundles' /\ a \in leaving'
      BY <2>2, <2>5, <2>6
    <3>2. cache'[a] = Nothing
      BY <2>2, <2>6, <3>1 DEF TypeOK
    <3>3. a \in snapshots => a \in registered
      BY <2>1, <2>2, <2>6 DEF Tidy, AppInv, Kept
    <3> QED BY <2>2, <3>1, <3>2, <3>3 DEF Kept
  <2>7. CASE a # Session
    <3>1. Kept(a)
      BY <2>1, <2>2, <2>7 DEF Tidy, AppInv
    <3>2. a \notin bundles
      BY <2>3, <2>4, <2>7, <3>1 DEF Kept, Held
    <3>3. cache'[a] = cache[a]
      BY <2>2, <2>7 DEF TypeOK
    <3> QED BY <1>0, <2>2, <3>1, <3>2, <3>3 DEF Kept
  <2> QED BY <2>6, <2>7
<1> QED BY <1>1, <1>2

\* Only a half saved bundle is not the active account's.
LEMMA NotHalfSaved ==
  ASSUME AppInv, ~ broken, NEW a \in Accounts, Held(a), a \notin HalfSaved
  PROVE  active = a
<1>1. CASE screen.phase = "authorizing" /\ queue[1].at = "activate" /\ queue[1].who = a
  <2>1. Len(queue) = 1 /\ queue[1].op = "authorize"
    BY <1>1 DEF AppInv, Placed, Authorizing
  <2>2. HalfSaved = {a}
    <3>1. queue # <<>>
      BY <2>1
    <3> QED BY <1>1, <2>1, <3>1 DEF HalfSaved, Running
  <2> QED BY <2>2
<1> QED BY <1>1 DEF Held

LEMMA DieTidy == ASSUME AppInv, Die PROVE Tidy'
<1>0. /\ queue' = Starting /\ screen' = Opened /\ worker' = [a \in Accounts |-> Idle]
      /\ loose' = loose \cup leaving \cup HalfSaved /\ leaving' = {} /\ broken' = broken
      /\ UNCHANGED <<bundles, active, cache, registered, snapshots>>
  BY DEF Die, Reopened, device, widget
<1> SUFFICES ASSUME ~ broken', NEW a \in Accounts \ loose' PROVE Kept(a)'
  BY DEF Tidy
<1>1. ~ broken
  BY <1>0, Zenon
<1>2. Kept(a)
  BY <1>0, <1>1 DEF Tidy, AppInv
<1>3. screen'.phase = "bootstrap" /\ queue'[1].at = "waiting"
  BY <1>0 DEF Opened, Starting
<1>4. a \in bundles => active = a
  BY <1>0, <1>1, <1>2, NotHalfSaved DEF Kept
<1> QED BY <1>0, <1>2, <1>3, <1>4 DEF Kept, Held

LEMMA CloseTidy ==
  ASSUME AppInv, NEW kept \in SUBSET {"bundle", "active", "cache"}, Close(kept) PROVE Tidy'
<1> TypeOK /\ Signed /\ Ahead /\ Basic /\ Placed
  BY DEF AppInv, Basic
<1>0. /\ queue' = Starting /\ screen' = Opened /\ leaving = {} /\ leaving' = {}
      /\ HalfSaved = {} /\ UNCHANGED <<registered, snapshots, worker>>
  BY DEF Close, Reopened, widget
<1> SUFFICES ASSUME ~ broken', NEW a \in Accounts \ loose' PROVE Kept(a)'
  BY DEF Tidy
<1>1. screen'.phase = "bootstrap" /\ queue'[1].at = "waiting"
  BY <1>0 DEF Opened, Starting
<1>2. CASE Running("signOut", "revoke")
  <2>1. /\ Deleted(Session, kept) /\ loose' = loose \cup {Session}
        /\ queue # <<>> /\ queue[1].op = "signOut" /\ queue[1].at = "revoke"
    BY <1>2 DEF Close, Running
  <2>2. ~ broken /\ bundles' = bundles \ {Session}
    BY <2>1, DeletedSome
  <2>3. a \notin loose /\ a # Session
    BY <2>1
  <2>4. Kept(a)
    BY <2>2, <2>3 DEF Tidy, AppInv
  <2>5. screen.phase = "signed in" /\ Session = creds
    <3>1. screen.phase = "signed in"
      BY <2>1, <2>2, Where
    <3> QED BY <2>2, <3>1 DEF Placed, SignedIn, Session
  <2>6. a \notin bundles
    BY <2>3, <2>4, <2>5 DEF Kept, Held
  <2>7. cache'[a] = cache[a]
    BY <2>1, <2>3 DEF Deleted, TypeOK
  <2> QED BY <1>0, <2>2, <2>4, <2>6, <2>7 DEF Kept
<1>3. CASE ~ Running("signOut", "revoke")
  <2>1. UNCHANGED <<bundles, active, cache, loose, broken>>
    BY <1>3 DEF Close, device
  <2>2. ~ broken
    BY <2>1, Zenon
  <2>3. Kept(a)
    BY <2>1, <2>2 DEF Tidy, AppInv
  <2>4. a \in bundles => active = a
    BY <1>0, <2>2, <2>3, NotHalfSaved DEF Kept
  <2> QED BY <1>0, <1>1, <2>1, <2>3, <2>4 DEF Kept, Held
<1> QED BY <1>2, <1>3

\* The view model cancels the work of an account whose bundle is gone.
LEMMA CancelTidy == ASSUME AppInv, NEW b \in Accounts, Cancel(b) PROVE Tidy'
<1>0. /\ b \in leaving /\ leaving' = leaving \ {b} /\ registered' = registered \ {b}
      /\ snapshots' = IF b \in registered THEN snapshots \ {b} ELSE snapshots
      /\ UNCHANGED <<bundles, active, cache, worker, screen, creds, queue, loose, broken>>
  BY DEF Cancel, device, past
<1> SUFFICES ASSUME ~ broken', NEW a \in Accounts \ loose' PROVE Kept(a)'
  BY DEF Tidy
<1>1. ~ broken
  BY <1>0, Zenon
<1>2. Kept(a)
  BY <1>0, <1>1 DEF Tidy, AppInv
<1>3. a \notin bundles
  <2>1. screen.phase = "signed out"
    BY <1>0, <1>1 DEF AppInv, Placed
  <2> QED BY <1>2, <2>1 DEF Kept, Held
<1> QED BY <1>0, <1>2, <1>3 DEF Kept

LEMMA ObserveTidy == ASSUME AppInv, Observe PROVE Tidy'
<1>0. /\ registered' = registered \cup {screen.account} /\ screen.phase = "signed in"
      /\ UNCHANGED <<bundles, active, cache, snapshots, worker, screen, creds, queue, leaving,
                     loose, broken>>
  BY DEF Observe, device, memory, past
<1> SUFFICES ASSUME ~ broken', NEW a \in Accounts \ loose' PROVE Kept(a)'
  BY DEF Tidy
<1>1. ~ broken
  BY <1>0, Zenon
<1>2. Kept(a)
  BY <1>0, <1>1 DEF Tidy, AppInv
<1>3. screen.account \in bundles
  BY <1>0, <1>1 DEF AppInv, Basic, Placed, SignedIn, Signed
<1> QED BY <1>0, <1>2, <1>3 DEF Kept, Held

LEMMA WorkerTidy == ASSUME AppInv, NEW b \in Accounts, Worker(b) PROVE Tidy'
<1> TypeOK
  BY DEF AppInv, Basic
<1>0. UNCHANGED <<bundles, active, registered, screen, creds, queue, leaving, loose, broken>>
  BY DEF Worker, WorkerStarts, WorkerAnswered, WorkerStops, WorkerWrites, WorkerShows, device,
     widget, memory, past
<1> SUFFICES ASSUME ~ broken', NEW a \in Accounts \ loose' PROVE Kept(a)'
  BY DEF Tidy
<1>1. ~ broken
  BY <1>0, Zenon
<1>2. Kept(a)
  BY <1>0, <1>1 DEF Tidy, AppInv
<1>3. CASE a # b
  BY <1>0, <1>2, <1>3, ZenonT(30) DEF Worker, WorkerStarts, WorkerAnswered, WorkerStops, WorkerWrites,
     WorkerShows, device, widget, Kept, Held, TypeOK
<1>4. CASE a = b
  <2>1. a \in bundles \cap registered
    BY <1>2, <1>4 DEF Worker, WorkerStarts, WorkerAnswered, WorkerStops, WorkerWrites,
       WorkerShows, MayRefresh, Kept, Idle
  <2> QED BY <1>0, <1>2, <2>1 DEF Kept, Held
<1> QED BY <1>3, <1>4

LEMMA PressTidy == ASSUME AppInv, NEW op \in Ops, Press(op) PROVE Tidy'
<1> TypeOK /\ Waiting
  BY DEF AppInv, Basic
<1>0. /\ Settled
      /\ UNCHANGED <<bundles, active, cache, registered, snapshots, worker, screen, creds,
                     leaving, loose, broken>>
  BY DEF Press, device, widget, past
<1> SUFFICES ASSUME ~ broken', NEW a \in Accounts \ loose' PROVE Kept(a)'
  BY DEF Tidy
<1>1. ~ broken
  BY <1>0, Zenon
<1>2. Kept(a)
  BY <1>0, <1>1 DEF Tidy, AppInv
<1>3. a \in bundles => Held(a)'
  <2>1. queue # <<>> => queue'[1] = queue[1]
    BY Pressed, Queue
  <2>2. screen.phase \in {"bootstrap", "authorizing"} => queue # <<>>
    <3>1. screen.phase \in {"bootstrap", "authorizing"} => Len(queue) = 1
      BY <1>1 DEF AppInv, Placed, Bootstrapping, Authorizing
    <3> QED BY <3>1
  <2> QED BY <1>0, <1>2, <2>1, <2>2 DEF Kept, Held
<1> QED BY <1>0, <1>2, <1>3 DEF Kept

LEMMA NextTidy == AppInv /\ [Next]_vars => Tidy'
<1> SUFFICES ASSUME AppInv, [Next]_vars PROVE Tidy'
  OBVIOUS
<1>1. CASE UNCHANGED vars \/ Edit
  <2>1. UNCHANGED <<device, widget, worker, memory, loose, broken>>
    BY <1>1 DEF Edit, vars, past
  <2> SUFFICES ASSUME ~ broken', NEW a \in Accounts \ loose' PROVE Kept(a)'
    BY DEF Tidy
  <2>2. ~ broken
    BY <2>1, Zenon
  <2>3. Kept(a)
    BY <2>1, <2>2 DEF AppInv, Tidy
  <2> QED BY <2>1, <2>3 DEF Kept, Held, device, widget, memory
<1>2. CASE Core
  BY <1>2, StartTidy, AuthorizeTidy, RequestsTidy, SignedOutTidy, DieTidy, CancelTidy
     DEF Core, Throw
<1>3. CASE Kill
  BY <1>3, DieTidy DEF Kill
<1>4. ASSUME NEW a \in Accounts, Callback(a) PROVE Tidy'
  BY <1>4, AuthorizeTidy
<1> QED BY <1>1, <1>2, <1>3, <1>4, CloseTidy, ObserveTidy, PressTidy, WorkerTidy DEF Next

\* When an account has been signed out and cleared away, the device has nothing
\* of it left: whatever the app, the worker and the system did and in whatever
\* order, everything an account has here hangs on its bundle or is about to be
\* cancelled.
THEOREM SignOutLeavesNothing == Spec => []NothingLeftBehind
<1>1. Init => AppInv
  BY InitBasic, InitPlaced, InitTidy DEF AppInv
<1>2. AppInv /\ [Next]_vars => AppInv'
  BY NextBasic, NextPlaced, NextTidy DEF AppInv
<1>3. Spec => []AppInv
  BY <1>1, <1>2, PTL DEF Spec
<1>4. AppInv => NothingLeftBehind
  BY DEF AppInv, Tidy, Kept, Held, NothingLeftBehind, Out
<1> QED BY <1>3, <1>4, PTL
=============================================================================
