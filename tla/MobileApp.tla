------------------------------ MODULE MobileApp ------------------------------
(***************************************************************************)
(* The Android app: the core that runs one command at a time, the view     *)
(* model that presses commands and schedules background work, and the      *)
(* worker that refreshes an account's tasks for the widget.                *)
(*                                                                         *)
(* What the three share outlives the process: the credential store, the    *)
(* cache, and the widget's registrations and snapshots.  What the core     *)
(* keeps in memory does not.  A list of tasks is what it says of one task, *)
(* a version that the server counts up.                                    *)
(***************************************************************************)
EXTENDS Integers, Sequences

CONSTANTS
  Accounts,  \* accounts of one server
  None,      \* no account
  MaxEdits,  \* bound on the changes of the task
  MaxQueue,  \* bound on the commands pressed and not yet over
  MaxDeaths  \* bound on the times the process is killed or the app closed

ASSUME MobileAssumption ==
  /\ None \notin Accounts
  /\ MaxEdits \in Nat /\ MaxQueue \in Nat \ {0} /\ MaxDeaths \in Nat

VARIABLES
  version,     \* the server: the task as it is
  bundles,     \* the credential store: accounts with a bundle ...
  active,      \* ... and the active one
  cache,       \* the cache: per account, the version it has, or Nothing
  registered,  \* accounts whose work is enqueued and whose widget is registered
  snapshots,   \* accounts the widget has a snapshot of
  worker,      \* per account: how far a background refresh is, and what it got
  screen,      \* the core's MobileAppState
  creds,       \* the core's credentials
  queue,       \* the core's mutex: the command that has it and those that wait
  leaving,     \* accounts signed out of whose work is not cancelled yet
  acked,       \* history: the latest version a change of the user's was answered with
  loose,       \* history: accounts that were not, or not all, cleared away
  broken,      \* history: has a bundle not been deleted when it should?
  deaths       \* how often the process was killed or the app closed

device == <<bundles, active, cache>>
widget == <<registered, snapshots>>
memory == <<screen, creds, queue, leaving>>
past   == <<acked, loose, broken, deaths>>
vars   == <<version, device, widget, worker, memory, past>>

Nothing  == -1
Versions == 0 .. MaxEdits
Ops      == {"start", "authorize", "refresh", "loadMore", "update", "signOut"}
Phases   == {"bootstrap", "signed out", "authorizing", "signed in"}

\* The list shown: whose it is, what it says of the task, and where from.  The
\* core only tells a list that is all from the cache from the others.
NoList == [of |-> None, ver |-> Nothing, from |-> "nowhere"]
Lists  == [of : Accounts, ver : Versions, from : {"cache", "server", "both"}] \cup {NoList}

\* who: the account to sign out of, or the one that has logged in.
Stops    == {"waiting", "browser", "activate", "whoami", "fetch", "answer", "revoke"}
Commands == [op : Ops, at : Stops, got : Versions \cup {Nothing}, who : Accounts \cup {None}]

TypeOK ==
  /\ version \in Versions
  /\ bundles \subseteq Accounts /\ active \in Accounts \cup {None}
  /\ cache \in [Accounts -> Versions \cup {Nothing}]
  /\ registered \subseteq Accounts /\ snapshots \subseteq Accounts
  /\ worker \in [Accounts -> [at : {"idle", "fetch", "write", "show"},
                              got : Versions \cup {Nothing}]]
  /\ screen \in [phase : Phases, account : Accounts \cup {None}, list : Lists]
  /\ creds \in Accounts \cup {None}
  /\ queue \in Seq(Commands) /\ Len(queue) <= MaxQueue
  /\ leaving \subseteq Accounts
  /\ acked \in Versions \cup {Nothing} /\ loose \subseteq Accounts
  /\ broken \in BOOLEAN /\ deaths \in 0 .. MaxDeaths

\* To sign out, the view model remembers the account of the moment.
Command(op) ==
  [op |-> op, at |-> "waiting", got |-> Nothing,
   who |-> IF op = "signOut" THEN screen.account ELSE None]
Idle == [at |-> "idle", got |-> Nothing]

\* MobileAppState() of a new core, which the view model starts at once.
Opened == [phase |-> "bootstrap", account |-> None, list |-> NoList]
Starting == <<[op |-> "start", at |-> "waiting", got |-> Nothing, who |-> None]>>

\* A new installation.
Init ==
  /\ version = 0
  /\ bundles = {} /\ active = None
  /\ cache = [a \in Accounts |-> Nothing]
  /\ registered = {} /\ snapshots = {}
  /\ worker = [a \in Accounts |-> Idle]
  /\ screen = Opened /\ creds = None /\ queue = Starting
  /\ leaving = {}
  /\ acked = Nothing /\ loose = {} /\ broken = FALSE /\ deaths = 0

-----------------------------------------------------------------------------
(***************************************************************************)
(* What the commands are made of.                                          *)
(***************************************************************************)

\* CredentialStore.loadActive.
Stored == IF active \in bundles THEN active ELSE None

\* authenticatedScope's account.
Session == IF creds # None THEN creds ELSE Stored

\* requireAccountId: None if it throws.
AccountId == IF creds # None THEN creds ELSE screen.account

\* Mutant: a cache without a snapshot is shown all the same.
Unread(a, list) == [of |-> a, ver |-> cache[a], from |-> "cache"]

\* publishCachedTasks: what is shown once the cache of account a has been read.
Published(a, list) ==
  IF cache[a] = Nothing THEN list ELSE [of |-> a, ver |-> cache[a], from |-> "cache"]

\* The command at the head of the queue is op's, and has come to `at`.
Running(op, at) ==
  /\ queue # <<>>
  /\ queue[1].op = op
  /\ queue[1].at = at

\* An answer is handled on the main thread, where what follows a sign out runs
\* before anything else but the first steps of the next command.
Answering(op, at) == Running(op, at) /\ leaving = {}

GoOn(at, got) == queue' = [queue EXCEPT ![1].at = at, ![1].got = got]

\* The command lets go of the mutex.
End == queue' = Tail(queue)

\* The core is gone, and with it what it had in memory; the app is opened again
\* sooner or later.
Reopened ==
  /\ screen' = Opened /\ creds' = None /\ queue' = Starting
  /\ leaving' = {}

\* An account whose bundle is saved and that is not active yet.
HalfSaved == IF Running("authorize", "activate") THEN {queue[1].who} ELSE {}

\* The process is gone.
Die ==
  /\ Reopened
  /\ worker' = [a \in Accounts |-> Idle]
  /\ loose' = loose \cup leaving \cup HalfSaved
  /\ UNCHANGED <<version, device, widget, acked, broken>>

-----------------------------------------------------------------------------
(***************************************************************************)
(* Commands.                                                               *)
(***************************************************************************)

\* The sign-in page offers to connect, the pages behind it the rest.
Offered(op) ==
  CASE op = "authorize"              -> screen.phase = "signed out"
    [] op \in {"refresh", "signOut"} -> screen.phase = "signed in"
    [] op \in {"loadMore", "update"} -> screen.phase = "signed in" /\ screen.list # NoList
    [] OTHER                         -> FALSE

\* The first step of a command follows at once when it gets the mutex.
Settled == leaving = {} /\ ~ (queue # <<>> /\ queue[1].at = "waiting")

Press(op) ==
  /\ Settled /\ Len(queue) < MaxQueue /\ Offered(op)
  /\ queue' = Append(queue, Command(op))
  /\ UNCHANGED <<version, device, widget, worker, screen, creds, leaving, past>>

\* restore: the stored account and its cache are shown, and then confirmed.
Restore ==
  /\ Running("start", "waiting")
  /\ creds' = Stored
  /\ screen' = [phase |-> "bootstrap", account |-> Stored,
                list |-> IF Stored = None THEN NoList ELSE Published(Stored, NoList)]
  /\ GoOn("whoami", Nothing)
  /\ UNCHANGED <<version, device, widget, worker, leaving, past>>

\* The credential store cannot be read, or what it has not be decrypted.
RestoreUnreadable ==
  /\ Running("start", "waiting")
  /\ screen' = [Opened EXCEPT !.phase = "signed out"]
  /\ loose' = loose \cup bundles
  /\ End
  /\ UNCHANGED <<version, device, widget, worker, creds, leaving, acked, broken, deaths>>

\* authConfig and currentUser: whoever is stored is signed in, answered or not.
Restored(answered) ==
  /\ Answering("start", "whoami")
  /\ screen' = [screen EXCEPT !.phase =
                  IF screen.account = None THEN "signed out" ELSE "signed in"]
  /\ IF answered /\ screen.account # None THEN GoOn("fetch", Nothing) ELSE End
  /\ UNCHANGED <<version, device, widget, worker, creds, leaving, past>>

Authorize ==
  /\ Running("authorize", "waiting")
  /\ screen' = [screen EXCEPT !.phase = "authorizing"]
  /\ GoOn("browser", Nothing)
  /\ UNCHANGED <<version, device, widget, worker, creds, leaving, past>>

\* exchangeCallback: the user has logged in as a, and the bundle is saved ...
Callback(a) ==
  /\ Answering("authorize", "browser")
  /\ bundles' = bundles \cup {a}
  /\ queue' = [queue EXCEPT ![1].at = "activate", ![1].who = a]
  /\ UNCHANGED <<version, active, cache, widget, worker, screen, creds, leaving, past>>

\* ... and then made the active one, in a commit of its own.
Activated ==
  /\ Answering("authorize", "activate")
  /\ active' = queue[1].who /\ creds' = queue[1].who
  /\ GoOn("whoami", Nothing)
  /\ UNCHANGED <<version, bundles, cache, widget, worker, screen, leaving, past>>

Authorized ==
  /\ Answering("authorize", "whoami")
  /\ screen' = [phase |-> "signed in", account |-> creds,
                list |-> Published(creds, screen.list)]
  /\ GoOn("fetch", Nothing)
  /\ UNCHANGED <<version, device, widget, worker, creds, leaving, past>>

\* A refusal, a token that cannot be had, a store that does not take the bundle
\* or the active account, or a user that cannot be read.  A commit that fails
\* may have been seen by the process all the same.
NotAuthorized ==
  /\ \E at \in {"browser", "activate", "whoami"} : Answering("authorize", at)
  /\ active' \in IF queue[1].at = "activate" THEN {active, queue[1].who} ELSE {active}
  /\ screen' = [screen EXCEPT !.phase = "signed out"]
  /\ loose' = IF queue[1].at = "browser" THEN loose ELSE loose \cup {queue[1].who}
  /\ End
  /\ UNCHANGED <<version, bundles, cache, widget, worker, creds, leaving, acked, broken, deaths>>

\* refreshMyTasksInternal shows the cache first ...
Refresh ==
  /\ Running("refresh", "waiting") /\ AccountId # None
  /\ screen' = [screen EXCEPT !.list = Published(AccountId, @)]
  /\ GoOn("fetch", Nothing)
  /\ UNCHANGED <<version, device, widget, worker, creds, leaving, past>>

\* ... and throws, outside of what catches, if no one is signed in any more.
Throw ==
  /\ Running("refresh", "waiting") /\ AccountId = None
  /\ Die /\ UNCHANGED deaths

\* A list without a cursor has no more; without a session there is no request.
Begin ==
  /\ Running("loadMore", "waiting") \/ Running("update", "waiting")
  /\ IF Session = None \/ (queue[1].op = "loadMore" /\ screen.list = NoList)
     THEN End
     ELSE GoOn("fetch", Nothing)
  /\ UNCHANGED <<version, device, widget, worker, screen, creds, leaving, past>>

\* The request is served.  An update changes the task.
Serve ==
  /\ queue # <<>> /\ Answering(queue[1].op, "fetch")
  /\ version' = IF queue[1].op = "update" THEN version + 1 ELSE version
  /\ version' \in Versions
  /\ creds' = Session
  /\ GoOn("answer", version')
  /\ UNCHANGED <<device, widget, worker, screen, leaving, past>>

\* The request or its answer is lost, or the cache cannot be written: loading()
\* shows the error.
RequestFails ==
  /\ queue # <<>>
  /\ Answering(queue[1].op, "fetch") \/ Answering(queue[1].op, "answer")
  /\ End
  /\ UNCHANGED <<version, device, widget, worker, screen, creds, leaving, past>>

\* Of start, authorize and refresh: the list is what the server says.
Listed ==
  /\ \E op \in {"start", "authorize", "refresh"} : Answering(op, "answer")
  /\ cache' = [cache EXCEPT ![AccountId] = queue[1].got]
  /\ screen' = [screen EXCEPT !.list = [of |-> Session, ver |-> queue[1].got, from |-> "server"]]
  /\ End
  /\ UNCHANGED <<version, bundles, active, widget, worker, creds, leaving, past>>

\* loadMoreMyTasks: what is shown stays in front of the next page, and the
\* whole goes into the cache as if it were new.
LoadedMore ==
  /\ Answering("loadMore", "answer")
  /\ cache' = [cache EXCEPT ![AccountId] = screen.list.ver]
  /\ screen' = [screen EXCEPT !.list.from = IF @ = "cache" THEN "both" ELSE @]
  /\ End
  /\ UNCHANGED <<version, bundles, active, widget, worker, creds, leaving, past>>

\* Mutant: the row that was sent is left as it was.
AsItWas(list, got) == list

\* replaceBy: the task is replaced where it is shown.
Replaced(list, got) == IF list = NoList THEN list ELSE [list EXCEPT !.ver = got]

Updated ==
  /\ Answering("update", "answer")
  /\ screen' = [screen EXCEPT !.list = Replaced(@, queue[1].got)]
  /\ acked' = queue[1].got
  /\ End
  /\ UNCHANGED <<version, device, widget, worker, creds, leaving, loose, broken, deaths>>

-----------------------------------------------------------------------------
(***************************************************************************)
(* Signing out.                                                            *)
(***************************************************************************)

\* What is left to the view model when the core has signed out.
Left == IF queue[1].who = None THEN leaving ELSE leaving \cup {queue[1].who}

\* Mutant: the screen is signed out and keeps its list.
StillThere(phase) == [screen EXCEPT !.phase = phase, !.account = None]

\* A new MobileAppState.
Fresh(phase) == [Opened EXCEPT !.phase = phase]

SignOut ==
  /\ Running("signOut", "waiting") /\ Session # None
  /\ GoOn("revoke", Nothing)
  /\ UNCHANGED <<version, device, widget, worker, screen, creds, leaving, past>>

NobodyToSignOut ==
  /\ Running("signOut", "waiting") /\ Session = None
  /\ screen' = Fresh("signed out")
  /\ leaving' = Left
  /\ End
  /\ UNCHANGED <<version, device, widget, worker, creds, past>>

\* Revoked or not, the bundle of account a is deleted, then forgotten as the
\* active one, and its cache cleared; each may fail, the first two as one.
Deleted(a, kept) ==
  /\ "bundle" \in kept => "active" \in kept
  /\ bundles' = IF "bundle" \in kept THEN bundles ELSE bundles \ {a}
  /\ active'  = IF "active" \in kept THEN active ELSE None
  /\ cache'   = IF "cache" \in kept THEN cache ELSE [cache EXCEPT ![a] = Nothing]
  /\ broken'  = (broken \/ "bundle" \in kept)

\* A background refresh may be too late to cancel.
SignedOut(kept) ==
  /\ Answering("signOut", "revoke")
  /\ Deleted(Session, kept)
  /\ loose' = IF "cache" \in kept \/ worker[Session] # Idle THEN loose \cup {Session}
              ELSE loose \ ({Session} \cap registered)
  /\ creds' = None
  /\ screen' = Fresh("signed out")
  /\ leaving' = Left
  /\ End
  /\ UNCHANGED <<version, widget, worker, acked, deaths>>

\* onCleared: the activity is finished, and its view model's commands are
\* cancelled with it while the process and its workers live on.  A sign out
\* that waits for the server deletes all the same, but nothing comes after it.
\* Between the two commits of a sign in nothing suspends.
Close(kept) ==
  /\ deaths < MaxDeaths /\ leaving = {} /\ HalfSaved = {}
  /\ IF Running("signOut", "revoke")
     THEN Deleted(Session, kept) /\ loose' = loose \cup {Session}
     ELSE kept = {} /\ UNCHANGED <<device, loose, broken>>
  /\ Reopened
  /\ deaths' = deaths + 1
  /\ UNCHANGED <<version, widget, worker, acked>>

\* The view model goes on: AndroidBackgroundScheduler.cancel.
Cancel(a) ==
  /\ a \in leaving
  /\ leaving' = leaving \ {a}
  /\ registered' = registered \ {a}
  /\ snapshots' = IF a \in registered THEN snapshots \ {a} ELSE snapshots
  /\ UNCHANGED <<version, device, worker, screen, creds, queue, past>>

\* The view model sees the state: scheduleAfterAuthorization.  (Its
\* scheduledScopeKey only spares it saying so twice.)
Observe ==
  /\ leaving = {}
  /\ screen.phase = "signed in" /\ screen.account \notin registered
  /\ registered' = registered \cup {screen.account}
  /\ UNCHANGED <<version, device, snapshots, worker, memory, past>>

-----------------------------------------------------------------------------
(***************************************************************************)
(* The background refresh of an account, the server, and the system.       *)
(***************************************************************************)

\* Mutant: a refresh does not look who is signed in.
Enqueued(a) == a \in registered

\* doWork begins.  (A bound: one refresh at a time; two of two accounts share
\* nothing.)
MayRefresh(a) == a \in registered /\ active = a /\ a \in bundles

WorkerStarts(a) ==
  /\ (\A b \in Accounts : worker[b] = Idle) /\ MayRefresh(a)
  /\ worker' = [worker EXCEPT ![a].at = "fetch"]
  /\ UNCHANGED <<version, device, widget, memory, past>>

WorkerAnswered(a) ==
  /\ worker[a].at = "fetch"
  /\ worker' = [worker EXCEPT ![a] = [at |-> "write", got |-> version]]
  /\ UNCHANGED <<version, device, widget, memory, past>>

\* The request fails, or the work has been cancelled.
WorkerStops(a) ==
  /\ worker[a].at = "fetch"
  /\ worker' = [worker EXCEPT ![a] = Idle]
  /\ UNCHANGED <<version, device, widget, memory, past>>

\* Writing does not suspend, so that it is not cancelled either.
WorkerWrites(a) ==
  /\ worker[a].at = "write"
  /\ cache' = [cache EXCEPT ![a] = worker[a].got]
  /\ worker' = [worker EXCEPT ![a] = [at |-> "show", got |-> Nothing]]
  /\ UNCHANGED <<version, bundles, active, widget, memory, past>>

WorkerShows(a) ==
  /\ worker[a].at = "show"
  /\ snapshots' = snapshots \cup {a}
  /\ worker' = [worker EXCEPT ![a] = Idle]
  /\ UNCHANGED <<version, device, registered, memory, past>>

\* Someone else changes the task.
Edit ==
  /\ version < MaxEdits
  /\ version' = version + 1
  /\ UNCHANGED <<device, widget, worker, memory, past>>

Kill ==
  /\ deaths < MaxDeaths
  /\ deaths' = deaths + 1
  /\ Die

Core ==
  \/ Activated
  \/ Restore \/ RestoreUnreadable \/ (\E works \in BOOLEAN : Restored(works))
  \/ Authorize \/ Authorized \/ NotAuthorized
  \/ Refresh \/ Throw \/ Begin \/ Serve \/ RequestFails
  \/ Listed \/ LoadedMore \/ Updated
  \/ SignOut \/ NobodyToSignOut \/ (\E kept \in SUBSET {"bundle", "active", "cache"} : SignedOut(kept))
  \/ (\E a \in Accounts : Cancel(a))

Worker(a) == WorkerStarts(a) \/ WorkerAnswered(a) \/ WorkerStops(a) \/ WorkerWrites(a) \/ WorkerShows(a)

Next ==
  \/ Core \/ Observe \/ Edit \/ Kill
  \/ (\E kept \in SUBSET {"bundle", "active", "cache"} : Close(kept))
  \/ (\E op \in Ops : Press(op))
  \/ (\E a \in Accounts : Callback(a) \/ Worker(a))

Spec == Init /\ [][Next]_vars
-----------------------------------------------------------------------------
(***************************************************************************)
(* Properties.                                                             *)
(***************************************************************************)

\* The tasks shown are those of the account shown, across every sign in, sign
\* out, restart and failed request in between; but for a credential store that
\* fails.
ListsOfAccount == broken \/ screen.list.of \in {None, screen.account}

\* Nothing runs and nobody is signed in.
Out == screen.phase = "signed out" /\ queue = <<>> /\ leaving = {}

\* Once signed out, an account has left nothing on the device: no bundle, no
\* cache, no work, no snapshot; but for the accounts of loose: those that were
\* signed out in the middle of a refresh, that were half authorized, whose cache
\* could not be cleared, or whose sign out was over, by the end of the process or
\* of the activity, before it cancelled the work.
NothingLeftBehind ==
  Out /\ ~ broken => \A a \in Accounts \ loose :
           a \notin bundles \cup registered \cup snapshots /\ cache[a] = Nothing

\* A change the server has acknowledged to the user is not taken back by a list
\* from the server; but for one that loadMore has put behind an old cache.
AcknowledgedEditStays == screen.list.from = "server" => screen.list.ver >= acked
=============================================================================
