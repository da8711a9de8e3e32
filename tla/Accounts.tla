------------------------------ MODULE Accounts ------------------------------
(***************************************************************************)
(* The accounts of the user-interface isolate: TdlibMultiManager, the      *)
(* start and the end of each TdlibUserManager, the authorization state it  *)
(* hears, CurrentAccount, the account pages, and the launch that restores  *)
(* the databases found on disk (TdlibRunner.fromUIThread, BootstrapPage).  *)
(*                                                                         *)
(* A process may die at any step; what is left is the database directories *)
(* (disk), the sessions TDLib keeps in them (signedIn) and the settings    *)
(* written so far (saved).  Settings.put returns before it has written     *)
(* anything: the values on their way are the sequence writes.              *)
(*                                                                         *)
(* A client is named when its creation begins; the order of client ids     *)
(* plays no part, only the order in which users enter the map _users.      *)
(***************************************************************************)
EXTENDS Naturals, Sequences, FiniteSets

CONSTANTS Clients,      \* TDLib clients of one process
          NoClient,     \* the -1 of CurrentAccount
          MaxClients,   \* TdlibMultiManager.maxClients
          MaxLaunches,  \* bound: processes in a behaviour
          MaxTaps       \* bound: what the user and the servers may ask for

ASSUME MaxClientsAssumption == MaxClients \in Nat \ {0}
ASSUME NoClientAssumption == NoClient \notin Clients
ASSUME BoundsAssumption == MaxLaunches \in Nat /\ MaxTaps \in Nat

Databases == 0 .. MaxClients - 1

(***************************************************************************)
(* step  how far TdlibUserManager._start is, then the destroy() of it:     *)
(*       detached once the providers are, closed once the client's streams *)
(*       are;                                                              *)
(* auth  what TDLib says; none until it has accepted the parameters;       *)
(* listeners  LogOut listeners CurrentAccount has left on the providers;   *)
(* first, second  delete() calls waiting in the first and in the second    *)
(*       userManager.destroy() of destroy();                               *)
(* heard onAuthorized() has been run.                                      *)
(***************************************************************************)
VARIABLES client, users, current, phase, todo, disk, signedIn, saved, writes,
          launches, taps

vars == <<client, users, current, phase, todo, disk, signedIn, saved, writes,
          launches, taps>>

Steps == {"none", "starting", "attaching", "attached", "listening", "added",
          "detached", "closed"}
Authorizations == {"none", "wait", "ready", "loggingOut", "closed"}
Users == {users[i] : i \in DOMAIN users}

Client == [step : Steps, db : Databases, auth : Authorizations,
           listeners : Nat, first : Nat, second : Nat, heard : BOOLEAN]

TypeOK ==
  /\ client \in [Clients -> Client]
  /\ users \in Seq(Clients)
  /\ current \in Clients \cup {NoClient}
  /\ phase \in {"off", "subscribing", "closing", "restoring", "waiting", "shown", "wiped"}
  /\ todo \subseteq Databases
  /\ disk \subseteq Databases
  /\ signedIn \subseteq Databases
  /\ saved \in Databases
  /\ writes \in Seq(Databases)
  /\ launches \in 0 .. MaxLaunches
  /\ taps \in 0 .. MaxTaps

Fresh == [step |-> "none", db |-> 0, auth |-> "none", listeners |-> 0,
          first |-> 0, second |-> 0, heard |-> FALSE]

Init ==
  /\ client = [c \in Clients |-> Fresh]
  /\ users = <<>>
  /\ current = NoClient
  /\ phase = "off"
  /\ todo = {}
  /\ disk = {}
  /\ signedIn = {}
  /\ saved = 0          \* the default of SettingsEntries.lastDatabaseId
  /\ writes = <<>>
  /\ launches = 0
  /\ taps = 0

-----------------------------------------------------------------------------
(* TdlibMultiManager *)

Becomes(c, r) == client' = [client EXCEPT ![c] = r]

runningDatabases == {client[c].db : c \in Users}

\* The first user with the database, in the order of insertion.
fromDatabaseId(d) ==
  users[CHOOSE i \in DOMAIN users :
          /\ client[users[i]].db = d
          /\ \A j \in 1 .. i - 1 : client[users[j]].db # d]

\* create(id) up to its first await; the database is recorded as running
\* only when the user is added.
Create(c, d) ==
  /\ client[c].step = "none"
  /\ d \notin runningDatabases
  /\ Becomes(c, [client[c] EXCEPT !.step = "starting", !.db = d])

\* Mutant: the loop runs to maxClients inclusive.
FreeDatabasesOver == (0 .. MaxClients) \ runningDatabases

\* create() without an id: the loop has no break, so the last free one wins;
\* with none free it throws.
FreeDatabases == Databases \ runningDatabases
LastFree(d) == d \in FreeDatabases /\ \A e \in FreeDatabases : e <= d

\* TdlibClient.start and TdlibParameters.init, which makes the directory.
ParametersInit(c) ==
  /\ client[c].step = "starting"
  /\ Becomes(c, [client[c] EXCEPT !.step = "attaching"])
  /\ disk' = disk \cup {client[c].db}
  /\ UNCHANGED <<users, current, phase, todo, signedIn, saved, writes, launches, taps>>

StepTo(c, from, to) ==
  /\ client[c].step = from
  /\ Becomes(c, [client[c] EXCEPT !.step = to])
  /\ UNCHANGED <<users, current, phase, todo, disk, signedIn, saved, writes, launches, taps>>

ProvidersAttached(c) == StepTo(c, "attaching", "attached")
ServicesAttached(c) == StepTo(c, "attached", "listening")

\* The end of create(): only now can box.user find the user.
UserAdded(c) ==
  /\ client[c].step = "listening"
  /\ Becomes(c, [client[c] EXCEPT !.step = "added"])
  /\ users' = Append(users, c)
  /\ UNCHANGED <<current, phase, todo, disk, signedIn, saved, writes, launches, taps>>

-----------------------------------------------------------------------------
(* CurrentAccount and the settings *)

\* The setter emits the id and leaves one more listener, never cancelled.
SetCurrent(c) ==
  /\ current' = c
  /\ Becomes(c, [client[c] EXCEPT !.listeners = @ + 1])

Put(d) == writes' = Append(writes, d)

\* Settings.put: the box writes one value after the other.
WriteSetting ==
  /\ writes # <<>>
  /\ saved' = Head(writes)
  /\ writes' = Tail(writes)
  /\ UNCHANGED <<client, users, current, phase, todo, disk, signedIn, launches, taps>>

-----------------------------------------------------------------------------
(* TdlibRunner.fromUIThread and the bootstrap page *)

\* _restoreSessions calls subscribe(); RxWorker is about what becomes of it.
Launch ==
  /\ phase = "off"
  /\ launches < MaxLaunches
  /\ launches' = launches + 1
  /\ phase' = "subscribing"
  /\ UNCHANGED <<client, users, current, todo, disk, signedIn, saved, writes, taps>>

\* Mutant: create() instead of create(0) on the first start.
SubscribedAnyDatabase ==
  /\ phase = "subscribing"
  /\ phase' = "closing"
  /\ todo' = IF disk = {} THEN {MaxClients - 1} ELSE disk
  /\ UNCHANGED <<client, users, current, disk, signedIn, saved, writes, launches, taps>>

\* subscribe() has succeeded: the databases on disk, or 0 when there is none.
Subscribed ==
  /\ phase = "subscribing"
  /\ phase' = "closing"
  /\ todo' = IF disk = {} THEN {0} ELSE disk
  /\ UNCHANGED <<client, users, current, disk, signedIn, saved, writes, launches, taps>>

\* _closeRedundantSessions has heard of every session it has asked to close.
SessionsClosed ==
  /\ phase = "closing"
  /\ phase' = "restoring"
  /\ UNCHANGED <<client, users, current, todo, disk, signedIn, saved, writes, launches, taps>>

RestoreNext(c) ==
  /\ phase = "restoring"
  /\ \A x \in Clients : client[x].step \in {"none", "added"}
  /\ \E d \in todo : Create(c, d) /\ todo' = todo \ {d}
  /\ UNCHANGED <<users, current, phase, disk, signedIn, saved, writes, launches, taps>>

\* The rest of fromUIThread.  When the last database is not running, every
\* database is deleted; what follows that is not modelled, since
\* AccountsSurvive shows that it does not come to it.
LoadLastDatabase ==
  /\ phase = "restoring" /\ todo = {}
  /\ \A x \in Clients : client[x].step \in {"none", "added"}
  /\ IF saved \in runningDatabases
     THEN LET c == fromDatabaseId(saved) IN
          SetCurrent(c) /\ Put(client[c].db) /\ phase' = "waiting" /\ UNCHANGED disk
     ELSE /\ Put(0) /\ phase' = "wiped" /\ disk' = {}
          /\ UNCHANGED <<client, current>>
  /\ UNCHANGED <<users, todo, signedIn, saved, launches, taps>>

\* Mutant: the page waits for Ready.
ShowReady ==
  /\ phase = "waiting"
  /\ client[current].auth = "ready"
  /\ phase' = "shown"
  /\ UNCHANGED <<client, users, current, todo, disk, signedIn, saved, writes, launches, taps>>

\* BootstrapPage._run: the first state that is not Loading, or the end of
\* the states.
Show ==
  /\ phase = "waiting"
  /\ client[current].auth # "none"
  /\ phase' = "shown"
  /\ UNCHANGED <<client, users, current, todo, disk, signedIn, saved, writes, launches, taps>>

ProcessEnds ==
  /\ client' = [c \in Clients |-> Fresh]
  /\ users' = <<>>
  /\ current' = NoClient
  /\ phase' = "off"
  /\ todo' = {}
  /\ writes' = <<>>
  /\ UNCHANGED <<disk, signedIn, saved, launches, taps>>

Crash == phase # "off" /\ ProcessEnds

-----------------------------------------------------------------------------
(* Authorization: AuthorizationStateProvider and _listenToAuthState *)

Open(c) == client[c].auth \in {"wait", "ready", "loggingOut"}

\* TDLib locks the database of a client it has given the parameters to.
Locked(d) == \E c \in Clients : Open(c) /\ client[c].db = d

\* A user manager hears the states from the end of _start on.
Hears(c) == client[c].step \in {"listening", "added"}

\* Mutant: the parameters are sent as soon as they are asked for.
SetParametersAtOnce(c) ==
  client[c].step \in {"attached", "listening", "added"} /\ client[c].auth = "none"

\* setTdlibParameters: box.user must exist, else it tries again five seconds
\* later; the model takes these to outlast the rest of create().
MaySetParameters(c) == client[c].step = "added" /\ client[c].auth = "none"

ParametersAccepted(c) ==
  /\ MaySetParameters(c)
  /\ ~ Locked(client[c].db)
  /\ LET ready == client[c].db \in signedIn IN
     Becomes(c, [client[c] EXCEPT !.auth = IF ready THEN "ready" ELSE "wait",
                                  !.heard = ready /\ Hears(c)])
  /\ UNCHANGED <<users, current, phase, todo, disk, signedIn, saved, writes, launches, taps>>

\* "Failed to send TDLib parameters, killing the app."
ParametersRefused(c) ==
  /\ MaySetParameters(c)
  /\ Locked(client[c].db)
  /\ ProcessEnds

Authorize(c) ==
  /\ phase = "shown" /\ taps < MaxTaps
  /\ client[c].auth = "wait" /\ client[c].step = "added"
  /\ Becomes(c, [client[c] EXCEPT !.auth = "ready", !.heard = Hears(c)])
  /\ signedIn' = signedIn \cup {client[c].db}
  /\ taps' = taps + 1
  /\ UNCHANGED <<users, current, phase, todo, disk, saved, writes, launches>>

-----------------------------------------------------------------------------
(* Leaving an account *)

\* delete(clientId) down to the first userManager.destroy(), which detaches
\* the providers and waits for TDLib; destroy() is given the database and
\* looks the user up again.  n calls begin at once.
Deleted(c) == fromDatabaseId(client[c].db)
BeginDelete(r, n) ==
  [r EXCEPT !.first = @ + n, !.step = IF @ = "added" THEN "detached" ELSE @]

\* The session was ended elsewhere.  Each LogOut listener on this account
\* deletes the current one.
RemoteLogOut(c) ==
  /\ taps < MaxTaps
  /\ client[c].auth = "ready"
  /\ signedIn' = signedIn \ {client[c].db}
  /\ LET n == IF client[c].step = "added" THEN client[c].listeners ELSE 0
         After(x) == IF n > 0 /\ x = Deleted(current) THEN BeginDelete(client[x], n)
                                                    ELSE client[x] IN
     client' = [x \in Clients |->
                  IF x = c THEN [After(x) EXCEPT !.auth = "loggingOut"] ELSE After(x)]
  /\ taps' = taps + 1
  /\ UNCHANGED <<users, current, phase, todo, disk, saved, writes, launches>>

\* TDLib closes a client it has logged out.
LoggedOut(c) ==
  /\ client[c].auth = "loggingOut"
  /\ Becomes(c, [client[c] EXCEPT !.auth = "closed"])
  /\ UNCHANGED <<users, current, phase, todo, disk, signedIn, saved, writes, launches, taps>>

LogOutTap ==
  /\ phase = "shown" /\ taps < MaxTaps
  /\ LET c == Deleted(current) IN Becomes(c, BeginDelete(client[c], 1))
  /\ taps' = taps + 1
  /\ UNCHANGED <<users, current, phase, todo, disk, signedIn, saved, writes, launches>>

\* TdlibClient._close: once Close is answered the streams are closed.
CloseAnswered(c) ==
  /\ client[c].first > 0 /\ client[c].step # "closed"
  /\ Becomes(c, [client[c] EXCEPT !.first = @ - 1, !.second = @ + 1,
                                  !.step = "closed", !.auth = "closed"])
  /\ UNCHANGED <<users, current, phase, todo, disk, signedIn, saved, writes, launches, taps>>

\* Mutant: destroy() calls userManager.destroy() once and returns.
DestroyReturns(c) ==
  /\ client[c].step = "closed"
  /\ client[c].second > 0
  /\ Becomes(c, [client[c] EXCEPT !.second = @ - 1])
  /\ users' = SelectSeq(users, LAMBDA u : u # c)
  /\ UNCHANGED <<current, phase, todo, disk, signedIn, saved, writes, launches, taps>>

\* invoke() on closed streams throws, so neither the second destroy() of a
\* call nor the first of a later one returns: the user stays in _users, the
\* directory is kept, and the caller's next lines do not run.
DestroyThrows(c) ==
  /\ client[c].step = "closed"
  /\ \/ /\ client[c].second > 0
        /\ Becomes(c, [client[c] EXCEPT !.second = @ - 1])
     \/ /\ client[c].first > 0
        /\ Becomes(c, [client[c] EXCEPT !.first = @ - 1])
  /\ UNCHANGED <<users, current, phase, todo, disk, signedIn, saved, writes, launches, taps>>

-----------------------------------------------------------------------------
(* The account page and the home page *)

AddTap(c) ==
  /\ phase = "shown" /\ taps < MaxTaps
  /\ \E d \in FreeDatabases : LastFree(d) /\ Create(c, d)
  /\ taps' = taps + 1
  /\ UNCHANGED <<users, current, phase, todo, disk, signedIn, saved, writes, launches>>

\* Mutant: the home page switches without saving.
SwitchUnsaved(c) ==
  /\ phase = "shown" /\ taps < MaxTaps
  /\ c \in Users /\ client[c].heard
  /\ SetCurrent(c)
  /\ taps' = taps + 1
  /\ UNCHANGED <<users, phase, todo, disk, signedIn, saved, writes, launches>>

\* _switchAccount to a known account, and HomePage opened for the user of a
\* notification.
SwitchAccount(c) ==
  /\ phase = "shown" /\ taps < MaxTaps
  /\ c \in Users /\ client[c].heard
  /\ SetCurrent(c) /\ Put(client[c].db)
  /\ taps' = taps + 1
  /\ UNCHANGED <<users, phase, todo, disk, signedIn, saved, launches>>

-----------------------------------------------------------------------------
Next ==
  \/ Launch \/ Subscribed \/ SessionsClosed \/ LoadLastDatabase \/ Show \/ Crash
  \/ WriteSetting
  \/ LogOutTap
  \/ \E c \in Clients :
       \/ RestoreNext(c) \/ ParametersInit(c) \/ ProvidersAttached(c)
       \/ ServicesAttached(c) \/ UserAdded(c)
       \/ ParametersAccepted(c) \/ ParametersRefused(c) \/ Authorize(c)
       \/ RemoteLogOut(c) \/ LoggedOut(c) \/ CloseAnswered(c) \/ DestroyThrows(c)
       \/ AddTap(c) \/ SwitchAccount(c)

Spec == Init /\ [][Next]_vars

\* The isolate runs what is ready, TDLib answers the start of a client; nobody
\* has to tap, and nothing has to crash.  Neither subscribe() nor the clean-up
\* of old sessions has to end: the one may wait for ever (SubscribeAnswers in
\* RxWorker), the other has no time-out.
Fairness ==
  /\ WF_vars(LoadLastDatabase) /\ WF_vars(Show)
  /\ \A c \in Clients :
       /\ WF_vars(RestoreNext(c)) /\ WF_vars(ParametersInit(c))
       /\ WF_vars(ProvidersAttached(c)) /\ WF_vars(ServicesAttached(c))
       /\ WF_vars(UserAdded(c))
       /\ WF_vars(ParametersAccepted(c)) /\ WF_vars(ParametersRefused(c))
FairSpec == Spec /\ Fairness

-----------------------------------------------------------------------------
(* Properties *)

\* CurrentAccount.user (fromClientId(clientId)!) finds a user in whatever
\* order accounts are restored, added, switched and left.
CurrentIsKnown ==
  /\ current # NoClient => current \in Users
  /\ phase \in {"waiting", "shown"} => current # NoClient

\* Once the settings are written, the next launch opens the account that was
\* shown last: the last value on its way to the box is its database.
CurrentIsSaved ==
  current # NoClient =>
    client[current].db = IF writes = <<>> THEN saved ELSE writes[Len(writes)]

\* Ready cannot be reported before _listenToAuthState listens, so every
\* account that is ready has had its onAuthorized() (push registration,
\* initial lists).
ReadyIsHeard == \A c \in Clients : client[c].auth = "ready" => client[c].heard

\* A crash at any step, lost settings, log-outs and accounts added in haste
\* never make a launch run the clean-up of fromUIThread, marked "this is
\* dangerous": no database directory disappears.
AccountsSurvive == [][disk \subseteq disk']_vars

\* A launch that has come past subscribe() and the clean-up of old sessions,
\* either of which may hold it for ever, comes to a page (or the process
\* ends): each database is restored and the account chosen reports a state.
LaunchEnds == phase = "restoring" ~> phase \in {"shown", "off"}

\* multi_manager.dart:110 "DB $id is already running": two clients of one
\* process never run the same database.
DatabaseRunsOnce ==
  \A i, j \in DOMAIN users : client[users[i]].db = client[users[j]].db => i = j

\* runner.dart:168 "In case of logout, it'll be set to -1 or first available
\* database": when a log-out is over, the account it closed is not current.
LogoutResets ==
  current # NoClient /\ client[current].step = "closed" =>
    client[current].first + client[current].second > 0
=============================================================================
