--------------------------- MODULE AccountsProofs ---------------------------
(***************************************************************************)
(* For any number of databases, clients, launches and requests: no launch  *)
(* deletes the accounts, the current account exists and is the one the     *)
(* settings remember, and no Ready goes unheard.                           *)
(***************************************************************************)
EXTENDS Accounts, SequenceTheorems, WellFoundedInduction, TLAPS

\* A user stays in the map once it is recorded.
Recorded == {c \in Clients : client[c].step \in {"added", "detached", "closed"}}
UsersAreRecorded == Users = Recorded

\* The directory of a client is made before its providers are attached.
DirectoriesMade ==
  \A c \in Clients : client[c].step \notin {"none", "starting"} => client[c].db \in disk

\* What the settings say, now or when they are written, is on disk; before
\* the first directory they say 0.
SavedIsOnDisk == saved \in disk \/ (disk = {} /\ saved = 0)
WritesAreOnDisk == \A i \in DOMAIN writes : writes[i] \in disk

\* Nothing is chosen or written while the databases are restored ...
NothingChosen ==
  phase \in {"off", "subscribing", "closing", "restoring"} => current = NoClient /\ writes = <<>>
StartIsFresh ==
  phase \in {"off", "subscribing", "closing"} => \A c \in Clients : client[c].step = "none"

\* ... and the saved one is among them: still to do, or already begun.
SavedIsRestored ==
  phase \in {"closing", "restoring"} =>
    \/ saved \in todo
    \/ \E c \in Clients : client[c].step # "none" /\ client[c].db = saved

\* On the first start only database 0 is begun.
FirstIsZero ==
  phase \in {"closing", "restoring"} /\ disk = {} =>
    /\ todo \subseteq {0}
    /\ \A c \in Clients : client[c].step # "none" => client[c].db = 0

NeverWiped == phase # "wiped"
\* delete() is only called on recorded users.
DeletedAreRecorded == \A c \in Clients : client[c].first > 0 => c \in Recorded

\* A LogOut listener is left by the setter of the current account.
ListenersNeedCurrent == \A c \in Clients : client[c].listeners > 0 => current # NoClient

IInv ==
  /\ TypeOK /\ CurrentIsKnown /\ CurrentIsSaved /\ ReadyIsHeard
  /\ UsersAreRecorded /\ DirectoriesMade /\ SavedIsOnDisk /\ WritesAreOnDisk
  /\ NothingChosen /\ StartIsFresh /\ SavedIsRestored /\ FirstIsZero
  /\ NeverWiped /\ DeletedAreRecorded /\ ListenersNeedCurrent

-----------------------------------------------------------------------------
(* Looking a user up *)

Less == {p \in Nat \X Nat : p[1] < p[2]}

\* A set of indexes that is not empty has a first one.
LEMMA FirstIndex ==
  ASSUME NEW I \in SUBSET Nat, I # {}
  PROVE  \E i \in I : \A j \in I : ~ (j < i)
<1>1. IsWellFoundedOn(Less, Nat)
  <2>1. OpToRel(<, Nat) = Less
    BY DEF OpToRel, Less
  <2> QED
    BY <2>1, NatLessThanWellFounded, Zenon
<1>2. PICK i \in I : \A j \in I : ~ (<<j, i>> \in Less)
  BY <1>1, WFMin
<1>3. ASSUME NEW j \in I, j < i PROVE FALSE
  <2>1. <<j, i>> \in Less
    BY <1>3 DEF Less
  <2> QED
    BY <1>2, <2>1
<1> QED
  BY <1>3

\* firstWhere finds the user of a database that is running.
LEMMA FromDatabaseIdProperties ==
  ASSUME TypeOK, NEW d \in runningDatabases
  PROVE  fromDatabaseId(d) \in Users /\ client[fromDatabaseId(d)].db = d
<1> DEFINE T == {i \in DOMAIN users : client[users[i]].db = d}
           P(i) == /\ client[users[i]].db = d
                   /\ \A j \in 1 .. i - 1 : client[users[j]].db # d
<1>1. users \in Seq(Clients) /\ DOMAIN users = 1 .. Len(users) /\ Len(users) \in Nat
  BY LenProperties DEF TypeOK
<1>2. T # {} /\ T \in SUBSET Nat
  BY <1>1 DEF runningDatabases, Users
<1>3. PICK i \in T : \A k \in T : ~ (k < i)
  <2> HIDE DEF T
  <2> QED BY <1>2, FirstIndex
<1>4. i \in DOMAIN users /\ P(i)
  <2>1. i \in 1 .. Len(users) /\ client[users[i]].db = d
    BY <1>1
  <2>2. ASSUME NEW j \in 1 .. i - 1, client[users[j]].db = d PROVE FALSE
    <3>1. j \in T /\ j < i
      BY <1>1, <2>1, <2>2
    <3> QED
      BY <1>3, <3>1
  <2> QED
    BY <1>1, <2>1, <2>2
<1> HIDE DEF P
<1>5. P(CHOOSE k \in DOMAIN users : P(k)) /\ (CHOOSE k \in DOMAIN users : P(k)) \in DOMAIN users
  BY <1>4
<1> QED
  BY <1>5 DEF P, fromDatabaseId, Users

-----------------------------------------------------------------------------
(* The inductive invariant *)

RecordedSteps == {"added", "detached", "closed"}

LEMMA BecomesProperties ==
  ASSUME TypeOK, NEW c \in Clients, NEW r \in Client, Becomes(c, r)
  PROVE  /\ client' \in [Clients -> Client]
         /\ client'[c] = r
         /\ \A x \in Clients : x # c => client'[x] = client[x]
BY DEF TypeOK, Becomes

\* A client may change in these ways without the invariant taking notice.
Alike(r, s) ==
  /\ r.db = s.db /\ r.listeners = s.listeners
  /\ r.step \in RecordedSteps <=> s.step \in RecordedSteps
  /\ r.step = "none" <=> s.step = "none"
  /\ r.step = "starting" <=> s.step = "starting"
  /\ s.auth = "ready" => s.heard
  /\ s.first > 0 => r.first > 0 \/ s.step \in RecordedSteps

Quiet ==
  /\ client' \in [Clients -> Client]
  /\ \A c \in Clients : Alike(client[c], client'[c])
  /\ UNCHANGED <<users, current, phase, todo, disk, saved, writes>>
  /\ signedIn' \subseteq Databases
  /\ launches' \in 0 .. MaxLaunches /\ taps' \in 0 .. MaxTaps

LEMMA QuietStep == ASSUME IInv, Quiet PROVE IInv'
<1>1. TypeOK'
  BY DEF IInv, TypeOK, Quiet
<1>2. CurrentIsKnown' /\ SavedIsOnDisk' /\ WritesAreOnDisk' /\ NothingChosen' /\ NeverWiped'
  BY DEF IInv, Quiet, CurrentIsKnown, Users, SavedIsOnDisk, WritesAreOnDisk, NothingChosen, NeverWiped
<1>3. CurrentIsSaved'
  <2>1. current # NoClient => client'[current].db = client[current].db
    BY DEF IInv, TypeOK, Quiet, Alike
  <2> QED
    BY <2>1 DEF IInv, Quiet, CurrentIsSaved
<1>4. ReadyIsHeard' /\ DirectoriesMade'
  BY DEF IInv, Quiet, Alike, ReadyIsHeard, DirectoriesMade
<1>5. UsersAreRecorded'
  <2>1. Recorded' = Recorded
    BY DEF Quiet, Alike, Recorded, RecordedSteps
  <2> QED
    BY <2>1 DEF IInv, Quiet, UsersAreRecorded, Users
<1>7. DeletedAreRecorded'
  BY DEF IInv, Quiet, Alike, DeletedAreRecorded, Recorded, RecordedSteps
<1>6. StartIsFresh' /\ SavedIsRestored' /\ FirstIsZero' /\ ListenersNeedCurrent'
  BY DEF IInv, Quiet, Alike, StartIsFresh, SavedIsRestored, FirstIsZero, ListenersNeedCurrent
<1> QED
  BY <1>1, <1>2, <1>3, <1>4, <1>5, <1>6, <1>7 DEF IInv

LEMMA QuietBecomes ==
  ASSUME IInv, NEW c \in Clients, NEW r \in Client, Becomes(c, r), Alike(client[c], r),
         UNCHANGED <<users, current, phase, todo, disk, saved, writes>>,
         signedIn' \subseteq Databases,
         launches' \in 0 .. MaxLaunches, taps' \in 0 .. MaxTaps
  PROVE  Quiet
<1>1. ASSUME NEW x \in Clients PROVE Alike(client[x], client'[x])
  <2>1. CASE x = c
    BY <2>1, BecomesProperties DEF IInv
  <2>2. CASE x # c
    <3>1. client'[x] = client[x]
      BY <2>2, BecomesProperties DEF IInv
    <3> QED
      BY <3>1 DEF IInv, ReadyIsHeard, Alike
  <2> QED
    BY <2>1, <2>2
<1> QED
  BY <1>1, BecomesProperties DEF IInv, Quiet

-----------------------------------------------------------------------------
(* Steps that change a client in such a way *)

LEMMA AttachQuiet ==
  ASSUME IInv, NEW c \in Clients, ProvidersAttached(c) \/ ServicesAttached(c)
  PROVE  Quiet
<1>1. CASE ProvidersAttached(c)
  <2> DEFINE r == [client[c] EXCEPT !.step = "attached"]
  <2>1. r \in Client /\ Alike(client[c], r)
    BY <1>1 DEF IInv, TypeOK, Client, Steps, Alike, RecordedSteps, ReadyIsHeard, ProvidersAttached, StepTo
  <2>2. Becomes(c, r)
    BY <1>1 DEF ProvidersAttached, StepTo
  <2> HIDE DEF r
  <2> QED
    BY <1>1, <2>1, <2>2, QuietBecomes DEF IInv, TypeOK, ProvidersAttached, StepTo
<1>2. CASE ServicesAttached(c)
  <2> DEFINE r == [client[c] EXCEPT !.step = "listening"]
  <2>1. r \in Client /\ Alike(client[c], r)
    BY <1>2 DEF IInv, TypeOK, Client, Steps, Alike, RecordedSteps, ReadyIsHeard, ServicesAttached, StepTo
  <2>2. Becomes(c, r)
    BY <1>2 DEF ServicesAttached, StepTo
  <2> HIDE DEF r
  <2> QED
    BY <1>2, <2>1, <2>2, QuietBecomes DEF IInv, TypeOK, ServicesAttached, StepTo
<1> QED
  BY <1>1, <1>2

\* Ready is only reported to a client that has been added, and so hears it.
LEMMA AuthorizationQuiet ==
  ASSUME IInv, NEW c \in Clients, ParametersAccepted(c) \/ Authorize(c) \/ LoggedOut(c)
  PROVE  Quiet
<1>1. CASE ParametersAccepted(c)
  <2> DEFINE ready == client[c].db \in signedIn
             r == [client[c] EXCEPT !.auth = IF ready THEN "ready" ELSE "wait",
                                    !.heard = ready /\ Hears(c)]
  <2>1. r \in Client /\ Alike(client[c], r)
    BY <1>1 DEF IInv, TypeOK, Client, Authorizations, Alike, RecordedSteps, ParametersAccepted, MaySetParameters, Hears
  <2>2. Becomes(c, r)
    BY <1>1 DEF ParametersAccepted
  <2> HIDE DEF r
  <2> QED
    BY <1>1, <2>1, <2>2, QuietBecomes DEF IInv, TypeOK, ParametersAccepted
<1>2. CASE Authorize(c)
  <2> DEFINE r == [client[c] EXCEPT !.auth = "ready", !.heard = Hears(c)]
  <2>1. r \in Client /\ Alike(client[c], r)
    BY <1>2 DEF IInv, TypeOK, Client, Authorizations, Alike, RecordedSteps, Authorize, Hears
  <2>2. Becomes(c, r)
    BY <1>2 DEF Authorize
  <2>3. signedIn' \subseteq Databases /\ taps' \in 0 .. MaxTaps
    BY <1>2, BoundsAssumption DEF IInv, TypeOK, Client, Authorize
  <2> HIDE DEF r
  <2> QED
    BY <1>2, <2>1, <2>2, <2>3, QuietBecomes DEF IInv, TypeOK, Authorize
<1>3. CASE LoggedOut(c)
  <2> DEFINE r == [client[c] EXCEPT !.auth = "closed"]
  <2>1. r \in Client /\ Alike(client[c], r)
    BY <1>3 DEF IInv, TypeOK, Client, Authorizations, Alike, RecordedSteps
  <2>2. Becomes(c, r)
    BY <1>3 DEF LoggedOut
  <2> HIDE DEF r
  <2> QED
    BY <1>3, <2>1, <2>2, QuietBecomes DEF IInv, TypeOK, LoggedOut
<1> QED
  BY <1>1, <1>2, <1>3

\* delete() finds a user when there is a current account.
LEMMA DeletedIsUser ==
  ASSUME IInv, current # NoClient
  PROVE  Deleted(current) \in Recorded /\ Deleted(current) \in Clients
<1>1. current \in Users /\ client[current].db \in runningDatabases
  BY DEF IInv, CurrentIsKnown, runningDatabases
<1>2. Deleted(current) \in Users
  BY <1>1, FromDatabaseIdProperties DEF IInv, Deleted
<1> QED
  BY <1>2 DEF IInv, UsersAreRecorded, Recorded

LEMMA BeginDeleteAlike ==
  ASSUME NEW r \in Client, NEW n \in Nat, r.step \in RecordedSteps, r.auth = "ready" => r.heard
  PROVE  BeginDelete(r, n) \in Client /\ Alike(r, BeginDelete(r, n))
<1>1. /\ BeginDelete(r, n).db = r.db /\ BeginDelete(r, n).listeners = r.listeners
      /\ BeginDelete(r, n).auth = r.auth /\ BeginDelete(r, n).heard = r.heard
      /\ BeginDelete(r, n).step \in RecordedSteps
  BY DEF Client, RecordedSteps, BeginDelete
<1>2. BeginDelete(r, n) \in Client
  <2> DEFINE k == r.first + n
             step == IF r.step = "added" THEN "detached" ELSE r.step
  <2>1. k \in Nat /\ step \in Steps
    BY DEF Client, Steps, RecordedSteps
  <2>2. BeginDelete(r, n) = [r EXCEPT !.first = k, !.step = step]
    BY DEF BeginDelete
  <2> HIDE DEF k, step
  <2> QED
    BY <2>1, <2>2 DEF Client
<1> QED
  BY <1>1, <1>2 DEF Alike, RecordedSteps

LEMMA LogOutTapQuiet == ASSUME IInv, LogOutTap PROVE Quiet
<1> DEFINE c == Deleted(current)
           r == BeginDelete(client[c], 1)
<1>1. c \in Clients /\ client[c].step \in RecordedSteps /\ client[c] \in Client
  BY DeletedIsUser DEF IInv, TypeOK, CurrentIsKnown, LogOutTap, Recorded, RecordedSteps
<1>2. client[c].auth = "ready" => client[c].heard
  BY <1>1 DEF IInv, ReadyIsHeard
<1>3. Becomes(c, r)
  BY DEF LogOutTap
<1> HIDE DEF c
<1>4. r \in Client /\ Alike(client[c], r)
  BY <1>1, <1>2, BeginDeleteAlike
<1>5. taps' \in 0 .. MaxTaps
  BY BoundsAssumption DEF LogOutTap, IInv, TypeOK
<1> HIDE DEF r
<1> QED
  BY <1>1, <1>3, <1>4, <1>5, QuietBecomes DEF IInv, TypeOK, LogOutTap

LEMMA RemoteLogOutQuiet ==
  ASSUME IInv, NEW c \in Clients, RemoteLogOut(c)
  PROVE  Quiet
<1> DEFINE n == IF client[c].step = "added" THEN client[c].listeners ELSE 0
           After(x) == IF n > 0 /\ x = Deleted(current) THEN BeginDelete(client[x], n)
                                                      ELSE client[x]
           New(x) == IF x = c THEN [After(x) EXCEPT !.auth = "loggingOut"] ELSE After(x)
<1>1. client' = [x \in Clients |-> New(x)]
  BY DEF RemoteLogOut
<1>2. n \in Nat
  BY DEF IInv, TypeOK, Client
<1>3. ASSUME NEW x \in Clients PROVE New(x) \in Client /\ Alike(client[x], New(x))
  <2>1. client[x] \in Client /\ (client[x].auth = "ready" => client[x].heard)
    BY DEF IInv, TypeOK, ReadyIsHeard
  <2>2. After(x) \in Client /\ Alike(client[x], After(x))
    <3>1. CASE n > 0 /\ x = Deleted(current)
      <4>1. current # NoClient
        BY <1>2, <3>1 DEF IInv, ListenersNeedCurrent
      <4>2. client[x].step \in RecordedSteps
        BY <3>1, <4>1, DeletedIsUser DEF Recorded, RecordedSteps
      <4> HIDE DEF n
      <4> QED
        BY <1>2, <2>1, <3>1, <4>2, BeginDeleteAlike
    <3>2. CASE ~ (n > 0 /\ x = Deleted(current))
      <4> HIDE DEF n
      <4> QED BY <2>1, <3>2 DEF Alike
    <3> QED
      BY <3>1, <3>2
  <2> HIDE DEF After
  <2> QED
    BY <2>2 DEF Client, Authorizations, Alike, RecordedSteps
<1> HIDE DEF New
<1>4. client' \in [Clients -> Client] /\ \A x \in Clients : Alike(client[x], client'[x])
  BY <1>1, <1>3
<1>5. /\ UNCHANGED <<users, current, phase, todo, disk, saved, writes>>
      /\ signedIn' \subseteq Databases
      /\ launches' \in 0 .. MaxLaunches /\ taps' \in 0 .. MaxTaps
  BY BoundsAssumption DEF RemoteLogOut, IInv, TypeOK
<1> QED
  BY <1>4, <1>5 DEF Quiet

LEMMA DestroyQuiet ==
  ASSUME IInv, NEW c \in Clients, CloseAnswered(c) \/ DestroyThrows(c)
  PROVE  Quiet
<1>1. client[c] \in Client /\ (client[c].auth = "ready" => client[c].heard)
  BY DEF IInv, TypeOK, ReadyIsHeard
<1>2. PICK r \in Client : Alike(client[c], r) /\ Becomes(c, r)
  <2>1. CASE CloseAnswered(c)
    <3> DEFINE r == [client[c] EXCEPT !.first = @ - 1, !.second = @ + 1,
                                      !.step = "closed", !.auth = "closed"]
    <3>1. client[c].first > 0 /\ Becomes(c, r)
      BY <2>1 DEF CloseAnswered
    <3>2. client[c].step \in RecordedSteps
      BY <3>1 DEF IInv, DeletedAreRecorded, Recorded, RecordedSteps
    <3>3. r \in Client
      <4> DEFINE first == client[c].first - 1
                 second == client[c].second + 1
      <4>1. first \in Nat /\ second \in Nat /\ "closed" \in Steps /\ "closed" \in Authorizations
        BY <1>1, <3>1 DEF Client, Steps, Authorizations
      <4>2. r = [client[c] EXCEPT !.first = first, !.second = second,
                                  !.step = "closed", !.auth = "closed"]
        OBVIOUS
      <4> HIDE DEF first, second, r
      <4> QED
        BY <1>1, <4>1, <4>2 DEF Client
    <3>4. Alike(client[c], r)
      BY <1>1, <3>2 DEF Client, Alike, RecordedSteps
    <3> HIDE DEF r
    <3> QED
      BY <3>1, <3>3, <3>4
  <2>2. CASE client[c].second > 0 /\ Becomes(c, [client[c] EXCEPT !.second = @ - 1])
    <3>1. [client[c] EXCEPT !.second = @ - 1] \in Client
      BY <1>1, <2>2 DEF Client
    <3>2. Alike(client[c], [client[c] EXCEPT !.second = @ - 1])
      BY <1>1 DEF Client, Alike
    <3> QED
      BY <2>2, <3>1, <3>2
  <2>3. CASE /\ client[c].step = "closed" /\ client[c].first > 0
             /\ Becomes(c, [client[c] EXCEPT !.first = @ - 1])
    <3>1. [client[c] EXCEPT !.first = @ - 1] \in Client
      BY <1>1, <2>3 DEF Client
    <3>2. Alike(client[c], [client[c] EXCEPT !.first = @ - 1])
      BY <1>1, <2>3 DEF Client, Alike, RecordedSteps
    <3> QED
      BY <2>3, <3>1, <3>2
  <2> QED
    BY <2>1, <2>2, <2>3 DEF DestroyThrows
<1>3. /\ UNCHANGED <<users, current, phase, todo, disk, saved, writes>>
      /\ signedIn' \subseteq Databases
      /\ launches' \in 0 .. MaxLaunches /\ taps' \in 0 .. MaxTaps
  BY DEF CloseAnswered, DestroyThrows, IInv, TypeOK
<1> QED
  BY <1>2, <1>3, QuietBecomes

-----------------------------------------------------------------------------
(* The other steps *)

LEMMA IInvInit == Init => IInv
<1> SUFFICES ASSUME Init PROVE IInv
  OBVIOUS
<1>1. TypeOK
  <2>1. Fresh \in Client
    BY MaxClientsAssumption DEF Fresh, Client, Steps, Authorizations, Databases
  <2> QED
    BY <2>1, MaxClientsAssumption, BoundsAssumption, EmptySeq DEF Init, TypeOK, Databases
<1>2. Users = {} /\ Recorded = {}
  BY DEF Init, Users, Recorded, Fresh
<1> QED
  BY <1>1, <1>2 DEF Init, IInv, Fresh, CurrentIsKnown, CurrentIsSaved, ReadyIsHeard, UsersAreRecorded,
     DirectoriesMade, SavedIsOnDisk, WritesAreOnDisk, NothingChosen, StartIsFresh, SavedIsRestored,
     FirstIsZero, NeverWiped, DeletedAreRecorded, ListenersNeedCurrent

LEMMA ProcessEndsStep == ASSUME IInv, ProcessEnds PROVE IInv'
<1>1. TypeOK'
  <2>1. Fresh \in Client
    BY MaxClientsAssumption DEF Fresh, Client, Steps, Authorizations, Databases
  <2> QED
    BY <2>1, EmptySeq DEF IInv, ProcessEnds, TypeOK
<1>2. Users' = {} /\ Recorded' = {}
  BY DEF ProcessEnds, Users, Recorded, Fresh
<1>3. SavedIsOnDisk'
  BY DEF ProcessEnds, IInv, SavedIsOnDisk
<1>4. \A c \in Clients : client'[c].step = "none" /\ client'[c].auth = "none"
                         /\ client'[c].first = 0 /\ client'[c].listeners = 0
  BY DEF ProcessEnds, Fresh
<1>5. phase' = "off" /\ current' = NoClient /\ writes' = <<>>
  BY DEF ProcessEnds
<1> QED
  BY <1>1, <1>2, <1>3, <1>4, <1>5 DEF IInv, CurrentIsKnown, CurrentIsSaved, ReadyIsHeard, UsersAreRecorded,
     DirectoriesMade, WritesAreOnDisk, NothingChosen, StartIsFresh, SavedIsRestored,
     FirstIsZero, NeverWiped, DeletedAreRecorded, ListenersNeedCurrent

\* No client has begun before the databases are restored.
LEMMA LaunchSteps == ASSUME IInv, Launch \/ Subscribed \/ SessionsClosed PROVE IInv'
<1>1. CASE Launch
  <2>1. TypeOK'
    BY <1>1, BoundsAssumption DEF IInv, TypeOK, Launch
  <2> QED
    BY <1>1, <2>1 DEF Launch, IInv, CurrentIsKnown, CurrentIsSaved, ReadyIsHeard, UsersAreRecorded, Users,
       Recorded, DirectoriesMade, SavedIsOnDisk, WritesAreOnDisk, NothingChosen, StartIsFresh,
       SavedIsRestored, FirstIsZero, NeverWiped, DeletedAreRecorded, ListenersNeedCurrent
<1>2. CASE Subscribed
  <2>1. TypeOK'
    BY <1>2, MaxClientsAssumption DEF IInv, TypeOK, Subscribed, Databases
  <2> QED
    BY <1>2, <2>1 DEF Subscribed, IInv, CurrentIsKnown, CurrentIsSaved, ReadyIsHeard, UsersAreRecorded, Users,
       Recorded, DirectoriesMade, SavedIsOnDisk, WritesAreOnDisk, NothingChosen, StartIsFresh,
       SavedIsRestored, FirstIsZero, NeverWiped, DeletedAreRecorded, ListenersNeedCurrent
<1>3. CASE SessionsClosed
  <2>1. TypeOK'
    BY <1>3 DEF IInv, TypeOK, SessionsClosed
  <2> QED
    BY <1>3, <2>1 DEF SessionsClosed, IInv, CurrentIsKnown, CurrentIsSaved, ReadyIsHeard, UsersAreRecorded, Users,
       Recorded, DirectoriesMade, SavedIsOnDisk, WritesAreOnDisk, NothingChosen, StartIsFresh,
       SavedIsRestored, FirstIsZero, NeverWiped, DeletedAreRecorded, ListenersNeedCurrent
<1> QED
  BY <1>1, <1>2, <1>3

LEMMA ShowStep == ASSUME IInv, Show PROVE IInv'
<1>1. TypeOK'
  BY DEF IInv, TypeOK, Show
<1>2. Users' = Users /\ Recorded' = Recorded
  BY DEF Show, Users, Recorded
<1> QED
  BY <1>1, <1>2 DEF Show, IInv, CurrentIsKnown, CurrentIsSaved, ReadyIsHeard, UsersAreRecorded,
     DirectoriesMade, SavedIsOnDisk, WritesAreOnDisk, NothingChosen, StartIsFresh, SavedIsRestored,
     FirstIsZero, NeverWiped, DeletedAreRecorded, ListenersNeedCurrent

\* The last value to be written stays the last one.
LEMMA WriteSettingStep == ASSUME IInv, WriteSetting PROVE IInv'
<1>1. writes \in Seq(Databases) /\ writes # <<>>
  BY DEF IInv, TypeOK, WriteSetting
<1>2. /\ Head(writes) = writes[1] /\ Len(writes) \in Nat \ {0}
      /\ DOMAIN writes = 1 .. Len(writes)
  BY <1>1, LenProperties, EmptySeq
<1>3. /\ saved' \in Databases /\ writes' \in Seq(Databases)
      /\ Len(writes') = Len(writes) - 1
      /\ \A i \in 1 .. Len(writes) - 1 : writes'[i] = writes[i + 1]
  BY <1>1, HeadTailProperties DEF WriteSetting
<1>4. TypeOK'
  BY <1>3 DEF IInv, TypeOK, WriteSetting
<1>5. SavedIsOnDisk' /\ WritesAreOnDisk'
  <2>1. saved' \in disk
    BY <1>2 DEF IInv, WritesAreOnDisk, WriteSetting
  <2>2. ASSUME NEW i \in DOMAIN writes' PROVE writes'[i] \in disk
    <3>1. i \in 1 .. Len(writes) - 1 /\ i + 1 \in DOMAIN writes
      BY <1>2, <1>3, LenProperties
    <3> QED
      BY <1>3, <3>1 DEF IInv, WritesAreOnDisk
  <2> QED
    BY <2>1, <2>2 DEF WriteSetting, SavedIsOnDisk, WritesAreOnDisk
<1>6. CurrentIsSaved'
  <2>1. CASE Len(writes) = 1
    <3>1. writes' = <<>>
      BY <1>3, <2>1, EmptySeq
    <3> QED
      BY <1>1, <1>2, <2>1, <3>1 DEF IInv, CurrentIsSaved, WriteSetting
  <2>2. CASE Len(writes) # 1
    <3>1. writes' # <<>> /\ writes'[Len(writes')] = writes[Len(writes)]
      <4>1. Len(writes') \in 1 .. Len(writes) - 1 /\ Len(writes') + 1 = Len(writes)
        BY <1>2, <1>3, <2>2
      <4>2. writes' # <<>>
        BY <4>1, EmptySeq
      <4> QED
        BY <1>3, <4>1, <4>2
    <3> QED
      BY <1>1, <3>1 DEF IInv, CurrentIsSaved, WriteSetting
  <2> QED
    BY <2>1, <2>2
<1>7. Users' = Users /\ Recorded' = Recorded
  BY DEF WriteSetting, Users, Recorded
<1>8. phase \notin {"off", "subscribing", "closing", "restoring"}
  BY <1>1 DEF IInv, NothingChosen
<1> QED
  BY <1>4, <1>5, <1>6, <1>7, <1>8 DEF WriteSetting, IInv, CurrentIsKnown, ReadyIsHeard, UsersAreRecorded,
     DirectoriesMade, NothingChosen, StartIsFresh, SavedIsRestored,
     FirstIsZero, NeverWiped, DeletedAreRecorded, ListenersNeedCurrent

\* A client that begins or goes on with its start, and is not recorded.
LEMMA StartStep ==
  ASSUME IInv, NEW c \in Clients, NEW r \in Client, Becomes(c, r),
         UNCHANGED <<users, current, phase, saved, writes>>,
         c \notin Recorded, r.step \notin RecordedSteps, r.step # "none",
         r.auth = client[c].auth, r.heard = client[c].heard,
         r.first = client[c].first, r.listeners = client[c].listeners,
         disk \subseteq disk', disk' \subseteq Databases,
         todo' \subseteq Databases, signedIn' \subseteq Databases,
         launches' \in 0 .. MaxLaunches, taps' \in 0 .. MaxTaps,
         r.step # "starting" => r.db \in disk',
         phase \notin {"off", "subscribing", "closing"}, SavedIsOnDisk', SavedIsRestored', FirstIsZero'
  PROVE  IInv'
<1>1. /\ client' \in [Clients -> Client] /\ client'[c] = r
      /\ \A x \in Clients : x # c => client'[x] = client[x]
  BY BecomesProperties DEF IInv
<1>2. TypeOK'
  BY <1>1 DEF IInv, TypeOK
<1>3. Recorded' = Recorded /\ Users' = Users
  BY <1>1 DEF Recorded, RecordedSteps, Users
<1>4. current # NoClient => current \in Clients /\ client'[current] = client[current]
  BY <1>1 DEF IInv, CurrentIsKnown, UsersAreRecorded, Recorded
<1>5. CurrentIsSaved' /\ CurrentIsKnown' /\ UsersAreRecorded'
  BY <1>3, <1>4 DEF IInv, CurrentIsSaved, CurrentIsKnown, UsersAreRecorded
<1>6. ReadyIsHeard' /\ DirectoriesMade' /\ DeletedAreRecorded' /\ ListenersNeedCurrent'
  BY <1>1, <1>3 DEF IInv, ReadyIsHeard, DirectoriesMade, DeletedAreRecorded, ListenersNeedCurrent
<1>7. WritesAreOnDisk' /\ NothingChosen' /\ StartIsFresh' /\ NeverWiped'
  BY DEF IInv, WritesAreOnDisk, NothingChosen, StartIsFresh, NeverWiped
<1> QED
  BY <1>2, <1>3, <1>5, <1>6, <1>7 DEF IInv

LEMMA RestoreNextStep == ASSUME IInv, NEW c \in Clients, RestoreNext(c) PROVE IInv'
<1>1. PICK d \in todo : Create(c, d) /\ todo' = todo \ {d}
  BY DEF RestoreNext
<1> DEFINE r == [client[c] EXCEPT !.step = "starting", !.db = d]
<1>2. /\ r \in Client /\ r.step = "starting" /\ r.db = d
      /\ r.auth = client[c].auth /\ r.heard = client[c].heard
      /\ r.first = client[c].first /\ r.listeners = client[c].listeners
  BY <1>1 DEF IInv, TypeOK, Client, Steps
<1>3. Becomes(c, r) /\ client[c].step = "none"
  BY <1>1 DEF Create
<1> HIDE DEF r
<1>4. client'[c] = r /\ \A x \in Clients : x # c => client'[x] = client[x]
  BY <1>2, <1>3, BecomesProperties DEF IInv
<1>5. phase = "restoring" /\ UNCHANGED <<users, current, phase, disk, signedIn, saved, writes, launches, taps>>
  BY DEF RestoreNext
<1>6. SavedIsOnDisk'
  BY <1>5 DEF IInv, SavedIsOnDisk
<1>7. SavedIsRestored'
  BY <1>1, <1>2, <1>3, <1>4, <1>5 DEF IInv, SavedIsRestored
<1>8. FirstIsZero'
  BY <1>1, <1>2, <1>4, <1>5 DEF IInv, FirstIsZero
<1>9. c \notin Recorded /\ r.step \notin RecordedSteps
  BY <1>2, <1>3 DEF Recorded, RecordedSteps
<1>10. todo' \subseteq Databases /\ signedIn' \subseteq Databases /\ disk' \subseteq Databases
       /\ launches' \in 0 .. MaxLaunches /\ taps' \in 0 .. MaxTaps
  BY <1>1, <1>5 DEF IInv, TypeOK
<1> QED
  BY <1>2, <1>3, <1>5, <1>6, <1>7, <1>8, <1>9, <1>10, StartStep

LEMMA AddTapStep == ASSUME IInv, NEW c \in Clients, AddTap(c) PROVE IInv'
<1>1. PICK d \in Databases : Create(c, d)
  BY DEF AddTap, FreeDatabases
<1> DEFINE r == [client[c] EXCEPT !.step = "starting", !.db = d]
<1>2. /\ r \in Client /\ r.step = "starting"
      /\ r.auth = client[c].auth /\ r.heard = client[c].heard
      /\ r.first = client[c].first /\ r.listeners = client[c].listeners
  BY <1>1 DEF IInv, TypeOK, Client, Steps
<1>3. Becomes(c, r) /\ client[c].step = "none"
  BY <1>1 DEF Create
<1> HIDE DEF r
<1>4. phase = "shown" /\ UNCHANGED <<users, current, phase, todo, disk, signedIn, saved, writes, launches>>
  BY DEF AddTap
<1>5. SavedIsOnDisk' /\ SavedIsRestored' /\ FirstIsZero'
  BY <1>4 DEF IInv, SavedIsOnDisk, SavedIsRestored, FirstIsZero
<1>6. c \notin Recorded /\ r.step \notin RecordedSteps
  BY <1>2, <1>3 DEF Recorded, RecordedSteps
<1>7. todo' \subseteq Databases /\ signedIn' \subseteq Databases /\ disk' \subseteq Databases
      /\ launches' \in 0 .. MaxLaunches /\ taps' \in 0 .. MaxTaps
  BY <1>4, BoundsAssumption DEF IInv, TypeOK, AddTap
<1> QED
  BY <1>2, <1>3, <1>4, <1>5, <1>6, <1>7, StartStep

\* The first directory is that of database 0, which the settings say.
LEMMA ParametersInitStep == ASSUME IInv, NEW c \in Clients, ParametersInit(c) PROVE IInv'
<1> DEFINE r == [client[c] EXCEPT !.step = "attaching"]
<1>1. /\ r \in Client /\ r.step = "attaching" /\ r.db = client[c].db
      /\ r.auth = client[c].auth /\ r.heard = client[c].heard
      /\ r.first = client[c].first /\ r.listeners = client[c].listeners
  BY DEF IInv, TypeOK, Client, Steps
<1>2. Becomes(c, r) /\ client[c].step = "starting" /\ disk' = disk \cup {client[c].db}
  BY DEF ParametersInit
<1> HIDE DEF r
<1>3. client'[c] = r /\ \A x \in Clients : x # c => client'[x] = client[x]
  BY <1>1, <1>2, BecomesProperties DEF IInv
<1>4. UNCHANGED <<users, current, phase, todo, signedIn, saved, writes, launches, taps>>
  BY DEF ParametersInit
<1>5. phase \in {"restoring", "waiting", "shown"}
  BY <1>2 DEF IInv, TypeOK, StartIsFresh, NeverWiped
<1>6. SavedIsOnDisk'
  <2>1. CASE saved \in disk
    BY <1>2, <1>4, <2>1 DEF SavedIsOnDisk
  <2>2. CASE disk = {} /\ saved = 0
    <3>1. phase = "restoring"
      <4>1. ASSUME phase \in {"waiting", "shown"} PROVE FALSE
        <5>1. current \in Recorded
          BY <4>1 DEF IInv, CurrentIsKnown, UsersAreRecorded
        <5> QED
          BY <2>2, <5>1 DEF IInv, DirectoriesMade, Recorded
      <4> QED
        BY <1>5, <4>1
    <3>2. client[c].db = 0
      BY <1>2, <2>2, <3>1 DEF IInv, FirstIsZero
    <3> QED
      BY <1>2, <1>4, <2>2, <3>2 DEF SavedIsOnDisk
  <2> QED
    BY <2>1, <2>2 DEF IInv, SavedIsOnDisk
<1>7. SavedIsRestored'
  BY <1>1, <1>2, <1>3, <1>4 DEF IInv, SavedIsRestored
<1>8. FirstIsZero'
  BY <1>2 DEF FirstIsZero
<1>9. c \notin Recorded /\ r.step \notin RecordedSteps
  BY <1>1, <1>2 DEF Recorded, RecordedSteps
<1>10. todo' \subseteq Databases /\ signedIn' \subseteq Databases /\ disk' \subseteq Databases
       /\ launches' \in 0 .. MaxLaunches /\ taps' \in 0 .. MaxTaps
  BY <1>2, <1>4 DEF IInv, TypeOK, Client
<1> QED
  BY <1>1, <1>2, <1>4, <1>5, <1>6, <1>7, <1>8, <1>9, <1>10, StartStep

LEMMA UserAddedStep == ASSUME IInv, NEW c \in Clients, UserAdded(c) PROVE IInv'
<1> DEFINE r == [client[c] EXCEPT !.step = "added"]
<1>1. /\ r \in Client /\ r.step = "added" /\ r.db = client[c].db
      /\ r.auth = client[c].auth /\ r.heard = client[c].heard
      /\ r.first = client[c].first /\ r.listeners = client[c].listeners
  BY DEF IInv, TypeOK, Client, Steps
<1>2. Becomes(c, r) /\ client[c].step = "listening" /\ users' = Append(users, c)
  BY DEF UserAdded
<1> HIDE DEF r
<1>3. /\ client' \in [Clients -> Client] /\ client'[c] = r
      /\ \A x \in Clients : x # c => client'[x] = client[x]
  BY <1>1, <1>2, BecomesProperties DEF IInv
<1>4. UNCHANGED <<current, phase, todo, disk, signedIn, saved, writes, launches, taps>>
  BY DEF UserAdded
<1>5. users' \in Seq(Clients) /\ Users' = Users \cup {c}
  <2>1. users \in Seq(Clients) /\ DOMAIN users = 1 .. Len(users) /\ Len(users) \in Nat
    BY LenProperties DEF IInv, TypeOK
  <2>2. /\ users' \in Seq(Clients) /\ DOMAIN users' = 1 .. Len(users) + 1
        /\ \A i \in 1 .. Len(users) : users'[i] = users[i]
        /\ users'[Len(users) + 1] = c
    BY <1>2, <2>1, AppendProperties, LenProperties
  <2> QED
    BY <2>1, <2>2 DEF Users
<1>6. Recorded' = Recorded \cup {c}
  BY <1>1, <1>3 DEF Recorded
<1>7. TypeOK'
  BY <1>3, <1>4, <1>5 DEF IInv, TypeOK
<1>8. UsersAreRecorded' /\ CurrentIsKnown'
  BY <1>4, <1>5, <1>6 DEF IInv, UsersAreRecorded, CurrentIsKnown
<1>9. CurrentIsSaved'
  <2>1. current # NoClient => client'[current].db = client[current].db
    BY <1>1, <1>3 DEF IInv, TypeOK
  <2> QED
    BY <1>4, <2>1 DEF IInv, CurrentIsSaved
<1>10. ReadyIsHeard' /\ DirectoriesMade' /\ ListenersNeedCurrent'
  BY <1>1, <1>2, <1>3, <1>4 DEF IInv, ReadyIsHeard, DirectoriesMade, ListenersNeedCurrent
<1>11. DeletedAreRecorded'
  BY <1>1, <1>3, <1>6 DEF IInv, DeletedAreRecorded
<1>12. SavedIsOnDisk' /\ WritesAreOnDisk' /\ NothingChosen' /\ NeverWiped'
  BY <1>4 DEF IInv, SavedIsOnDisk, WritesAreOnDisk, NothingChosen, NeverWiped
<1>13. StartIsFresh' /\ SavedIsRestored' /\ FirstIsZero'
  BY <1>1, <1>2, <1>3, <1>4 DEF IInv, StartIsFresh, SavedIsRestored, FirstIsZero
<1> QED
  BY <1>7, <1>8, <1>9, <1>10, <1>11, <1>12, <1>13 DEF IInv

\* A user becomes the current one and its database is put.
LEMMA ChooseStep ==
  ASSUME IInv, NEW c \in Users, SetCurrent(c), Put(client[c].db),
         phase' \in {"waiting", "shown"},
         UNCHANGED <<users, todo, disk, signedIn, saved, launches>>,
         taps' \in 0 .. MaxTaps
  PROVE  IInv'
<1> DEFINE r == [client[c] EXCEPT !.listeners = @ + 1]
<1>1. c \in Clients /\ client[c] \in Client /\ c \in Recorded
  BY DEF IInv, TypeOK, UsersAreRecorded, Recorded
<1>2. /\ r \in Client /\ r.step = client[c].step /\ r.db = client[c].db
      /\ r.auth = client[c].auth /\ r.heard = client[c].heard /\ r.first = client[c].first
  BY <1>1 DEF Client
<1>3. Becomes(c, r) /\ current' = c
  BY DEF SetCurrent
<1> HIDE DEF r
<1>4. /\ client' \in [Clients -> Client] /\ client'[c] = r
      /\ \A x \in Clients : x # c => client'[x] = client[x]
  BY <1>1, <1>2, <1>3, BecomesProperties DEF IInv
<1>5. \A x \in Clients : /\ client'[x].step = client[x].step /\ client'[x].db = client[x].db
                         /\ client'[x].auth = client[x].auth /\ client'[x].heard = client[x].heard
                         /\ client'[x].first = client[x].first
  BY <1>1, <1>2, <1>4
<1>6. client[c].db \in disk /\ client[c].db \in Databases
  BY <1>1 DEF IInv, DirectoriesMade, Recorded, Client
<1>7. /\ writes' \in Seq(Databases) /\ writes' # <<>> /\ Len(writes') = Len(writes) + 1
      /\ writes'[Len(writes')] = client[c].db
      /\ \A i \in DOMAIN writes' : writes'[i] \in disk
  <2>1. /\ writes \in Seq(Databases) /\ DOMAIN writes = 1 .. Len(writes)
        /\ Len(writes) \in Nat /\ writes' = Append(writes, client[c].db)
    BY LenProperties DEF IInv, TypeOK, Put
  <2>2. /\ writes' \in Seq(Databases) /\ writes' # <<>> /\ Len(writes') = Len(writes) + 1
        /\ \A i \in 1 .. Len(writes) : writes'[i] = writes[i]
        /\ writes'[Len(writes) + 1] = client[c].db
    BY <1>6, <2>1, AppendProperties
  <2>3. DOMAIN writes' = 1 .. Len(writes) + 1
    BY <2>2, LenProperties
  <2> QED
    BY <1>6, <2>1, <2>2, <2>3 DEF IInv, WritesAreOnDisk
<1>8. NoClient # c
  BY <1>1, NoClientAssumption
<1>9. TypeOK'
  BY <1>1, <1>3, <1>4, <1>7 DEF IInv, TypeOK
<1>10. Recorded' = Recorded /\ Users' = Users
  BY <1>5 DEF Recorded, Users
<1>11. CurrentIsKnown' /\ UsersAreRecorded'
  BY <1>3, <1>8, <1>10 DEF IInv, CurrentIsKnown, UsersAreRecorded
<1>12. CurrentIsSaved' /\ WritesAreOnDisk'
  BY <1>1, <1>3, <1>5, <1>7 DEF CurrentIsSaved, WritesAreOnDisk
<1>13. ReadyIsHeard' /\ DirectoriesMade' /\ DeletedAreRecorded' /\ ListenersNeedCurrent'
  BY <1>3, <1>5, <1>8, <1>10 DEF IInv, ReadyIsHeard, DirectoriesMade, DeletedAreRecorded, ListenersNeedCurrent
<1>14. SavedIsOnDisk' /\ NothingChosen' /\ StartIsFresh' /\ SavedIsRestored' /\ FirstIsZero' /\ NeverWiped'
  BY DEF IInv, SavedIsOnDisk, NothingChosen, StartIsFresh, SavedIsRestored, FirstIsZero, NeverWiped
<1> QED
  BY <1>9, <1>11, <1>12, <1>13, <1>14 DEF IInv

\* At the end of the restoration the saved database runs.
LEMMA SavedRuns ==
  ASSUME IInv, LoadLastDatabase
  PROVE  saved \in runningDatabases
<1>1. PICK c \in Clients : client[c].step # "none" /\ client[c].db = saved
  BY DEF LoadLastDatabase, IInv, SavedIsRestored
<1>2. c \in Users
  BY <1>1 DEF LoadLastDatabase, IInv, UsersAreRecorded, Recorded
<1> QED
  BY <1>1, <1>2 DEF runningDatabases

LEMMA LoadLastDatabaseStep == ASSUME IInv, LoadLastDatabase PROVE IInv' /\ disk' = disk
<1> DEFINE c == fromDatabaseId(saved)
<1>1. c \in Users
  BY SavedRuns, FromDatabaseIdProperties DEF IInv
<1>2. /\ SetCurrent(c) /\ Put(client[c].db) /\ phase' = "waiting"
      /\ UNCHANGED <<users, todo, disk, signedIn, saved, launches, taps>>
  BY SavedRuns DEF LoadLastDatabase
<1> HIDE DEF c
<1> QED
  BY <1>1, <1>2, ChooseStep DEF IInv, TypeOK

LEMMA SwitchAccountStep == ASSUME IInv, NEW c \in Clients, SwitchAccount(c) PROVE IInv'
<1>1. /\ c \in Users /\ SetCurrent(c) /\ Put(client[c].db) /\ phase' = "shown"
      /\ UNCHANGED <<users, todo, disk, signedIn, saved, launches>>
      /\ taps' \in 0 .. MaxTaps
  BY BoundsAssumption DEF SwitchAccount, IInv, TypeOK
<1> QED
  BY <1>1, ChooseStep

-----------------------------------------------------------------------------
(* The theorems *)

LEMMA IInvStep == ASSUME IInv, [Next]_vars PROVE IInv'
<1>1. CASE Launch \/ Subscribed \/ SessionsClosed
  BY <1>1, LaunchSteps
<1>2. CASE LoadLastDatabase
  BY <1>2, LoadLastDatabaseStep
<1>3. CASE Show
  BY <1>3, ShowStep
<1>4. CASE Crash
  BY <1>4, ProcessEndsStep DEF Crash
<1>5. CASE WriteSetting
  BY <1>5, WriteSettingStep
<1>6. CASE LogOutTap
  BY <1>6, LogOutTapQuiet, QuietStep
<1>7. ASSUME NEW c \in Clients, RestoreNext(c) \/ ParametersInit(c) \/ UserAdded(c) \/ AddTap(c) \/ SwitchAccount(c)
      PROVE  IInv'
  BY <1>7, RestoreNextStep, ParametersInitStep, UserAddedStep, AddTapStep, SwitchAccountStep
<1>8. ASSUME NEW c \in Clients, ParametersRefused(c) PROVE IInv'
  BY <1>8, ProcessEndsStep DEF ParametersRefused
<1>9. ASSUME NEW c \in Clients, \/ ProvidersAttached(c) \/ ServicesAttached(c)
                                \/ ParametersAccepted(c) \/ Authorize(c) \/ LoggedOut(c)
                                \/ RemoteLogOut(c) \/ CloseAnswered(c) \/ DestroyThrows(c)
      PROVE  IInv'
  BY <1>9, AttachQuiet, AuthorizationQuiet, RemoteLogOutQuiet, DestroyQuiet, QuietStep
<1>10. CASE UNCHANGED vars
  <2>1. Recorded' = Recorded /\ Users' = Users
    BY <1>10 DEF vars, Recorded, Users
  <2> QED
    BY <1>10, <2>1 DEF vars, IInv, TypeOK, CurrentIsKnown, CurrentIsSaved, ReadyIsHeard, UsersAreRecorded,
     DirectoriesMade, SavedIsOnDisk, WritesAreOnDisk, NothingChosen, StartIsFresh, SavedIsRestored,
     FirstIsZero, NeverWiped, DeletedAreRecorded, ListenersNeedCurrent
<1> QED
  BY <1>1, <1>2, <1>3, <1>4, <1>5, <1>6, <1>7, <1>8, <1>9, <1>10 DEF Next

LEMMA IInvAlways == Spec => []IInv
BY IInvInit, IInvStep, PTL DEF Spec

\* Every variable keeps its type, whatever the number of databases and clients.
THEOREM TypeCorrect == Spec => []TypeOK
<1>1. IInv => TypeOK
  BY DEF IInv
<1> QED
  BY <1>1, IInvAlways, PTL

\* The current account always exists, whatever is added, restored, left or
\* logged out, and whenever the process dies.
THEOREM CurrentAlwaysKnown == Spec => []CurrentIsKnown
<1>1. IInv => CurrentIsKnown
  BY DEF IInv
<1> QED
  BY <1>1, IInvAlways, PTL

\* The settings remember the current account, or are about to.
THEOREM CurrentAlwaysSaved == Spec => []CurrentIsSaved
<1>1. IInv => CurrentIsSaved
  BY DEF IInv
<1> QED
  BY <1>1, IInvAlways, PTL

\* No account is ready without its onAuthorized().
THEOREM ReadyAlwaysHeard == Spec => []ReadyIsHeard
<1>1. IInv => ReadyIsHeard
  BY DEF IInv
<1> QED
  BY <1>1, IInvAlways, PTL

\* No launch runs the clean-up of fromUIThread: no database is deleted.
THEOREM DatabasesSurvive == Spec => AccountsSurvive
<1>1. ASSUME IInv, [Next]_vars PROVE [disk \subseteq disk']_vars
  <2>1. CASE LoadLastDatabase
    BY <1>1, <2>1, LoadLastDatabaseStep
  <2>2. CASE Next /\ ~ LoadLastDatabase
    BY <2>2 DEF Next, Launch, Subscribed, SessionsClosed, Show, Crash, ProcessEnds, WriteSetting, LogOutTap, RestoreNext, ParametersInit,
       ProvidersAttached, ServicesAttached, StepTo, UserAdded, ParametersAccepted, ParametersRefused,
       Authorize, RemoteLogOut, LoggedOut, CloseAnswered, DestroyThrows, AddTap, SwitchAccount
  <2> QED
    BY <1>1, <2>1, <2>2
<1> QED
  BY <1>1, IInvAlways, PTL DEF Spec, AccountsSurvive

=============================================================================
