------------------------------ MODULE RxWorker ------------------------------
(***************************************************************************)
(* The receive manager (client/management/rx).  Exactly one isolate of the *)
(* process may call td_receive; the isolates that use TDLib (the UI's, the *)
(* push handler's) find it under a name in IsolateNameServer, spawn it     *)
(* when it is missing or silent, subscribe to it and get every TDLib       *)
(* object from it.  Isolates share nothing but the name server and ports,  *)
(* so every lookup, every message and every timeout is a step of its own.  *)
(***************************************************************************)
EXTENDS Naturals, Sequences, FiniteSets, SequencesExt

CONSTANTS Clients,      \* isolates with a TdlibReceiveManager
          None,
          MaxRestarts,  \* bound: work() calls that end in an exception
          MaxDisposals, \* bound: calls of dispose() per client
          MaxObjects    \* bound: objects TDLib produces

ASSUME RxWorkerAssumption ==
  /\ IsFiniteSet(Clients)
  /\ MaxRestarts \in Nat /\ MaxDisposals \in Nat /\ MaxObjects \in Nat
  /\ None \notin Clients \cup Nat /\ Clients \cap Nat = {}

\* A client spawns at most once and a failed worker restarts as a new one.
Workers == 1..(Cardinality(Clients) + MaxRestarts)

VARIABLES
  prompt,      \* the environment: TRUE when an isolate that reads its port
               \* always answers before the caller's timeout
  registered,  \* the port mapped to registrantId
  pc,          \* pc[c]: where client c's _init is
  reply,       \* reply[c]: what the worker it spawned sent to tmp
  token,       \* token[c]: _token
  disposals,   \* disposals[c]: calls of dispose() so far
  call,        \* call[p]: the sendMessage p awaits
  wpc,         \* wpc[w]: where worker w's work() is
  owner,       \* owner[w]: the client whose _spawn made w
  rx,          \* rx[w]: messages in _rx, buffered until it is listened to
  subs,        \* subs[w]: clients in _subs; the token of c there is <<w, c>>
  firstSub,    \* firstSub[w]: _firstSub.isCompleted
  receiver,    \* receiver[w]: the isolate that calls td_receive for w
  takenBy,     \* takenBy[n]: the worker whose receiver sent on TDLib's n-th object
  td,          \* td[w]: objects in _tdRx or waiting for the first subscription
  sent,        \* sent[c]: objects sent to the port of c
  exits        \* tokens whose exit listener is about to run

clientVars == <<pc, reply, token, disposals>>
workerVars == <<wpc, owner, subs, firstSub, receiver>>
objectVars == <<takenBy, td, sent>>
vars == <<prompt, registered, call, rx, exits, clientVars, workerVars, objectVars>>

Tokens == Workers \X Clients

ASSUME NoTokenAssumption == None \notin Tokens

Message ==
  [type : {"ping", "subscribe", "unsubscribe", "unmap"},
   from : Clients \cup Workers \cup {None},
   token : Tokens \cup {None}]

Call == [to : Workers, type : {"ping", "subscribe", "unmap"}, answered : BOOLEAN]

ClientPC == {"off", "pinging", "spawning", "subscribing", "subscribingToSpawned",
             "active", "stuck", "exited"}
WorkerPC == {"unborn", "looking", "unmapping", "registering", "starting",
             "running", "failed", "broken", "disposed"}

TypeOK ==
  /\ prompt \in BOOLEAN
  /\ registered \in Workers \cup {None}
  /\ pc \in [Clients -> ClientPC]
  /\ reply \in [Clients -> BOOLEAN \cup {None}]
  /\ token \in [Clients -> Tokens \cup {None}]
  /\ disposals \in [Clients -> 0..MaxDisposals]
  /\ call \in [Clients \cup Workers -> Call \cup {None}]
  /\ wpc \in [Workers -> WorkerPC]
  /\ owner \in [Workers -> Clients \cup {None}]
  /\ rx \in [Workers -> Seq(Message)]
  /\ subs \in [Workers -> SUBSET Clients]
  /\ firstSub \in [Workers -> BOOLEAN]
  /\ receiver \in [Workers -> {"none", "live", "killed"}]
  /\ takenBy \in Seq(Workers) /\ Len(takenBy) <= MaxObjects
  /\ td \in [Workers -> Seq(1..MaxObjects)]
  /\ sent \in [Clients -> Seq(1..MaxObjects)]
  /\ exits \subseteq Tokens

Init ==
  /\ prompt \in BOOLEAN
  /\ registered = None
  /\ pc = [c \in Clients |-> "off"]
  /\ reply = [c \in Clients |-> None]
  /\ token = [c \in Clients |-> None]
  /\ disposals = [c \in Clients |-> 0]
  /\ call = [p \in Clients \cup Workers |-> None]
  /\ wpc = [w \in Workers |-> "unborn"]
  /\ owner = [w \in Workers |-> None]
  /\ rx = [w \in Workers |-> <<>>]
  /\ subs = [w \in Workers |-> {}]
  /\ firstSub = [w \in Workers |-> FALSE]
  /\ receiver = [w \in Workers |-> "none"]
  /\ takenBy = <<>>
  /\ td = [w \in Workers |-> <<>>]
  /\ sent = [c \in Clients |-> <<>>]
  /\ exits = {}

-----------------------------------------------------------------------------
(* sendMessage *)

Post(w, m) == rx' = IF wpc[w] = "disposed" THEN rx ELSE [rx EXCEPT ![w] = Append(@, m)]

\* A bug: the request does not say what it asks for.
RequestUntyped(p, w, type) ==
  /\ Post(w, [from |-> p, token |-> None])
  /\ call' = [call EXCEPT ![p] = [to |-> w, type |-> type, answered |-> FALSE]]

\* A request to w whose answer p awaits.
Request(p, w, type) ==
  /\ Post(w, [type |-> type, from |-> p, token |-> None])
  /\ call' = [call EXCEPT ![p] = [to |-> w, type |-> type, answered |-> FALSE]]

Answered(p) == call[p] # None /\ call[p].answered

\* A closed port answers nobody, nor does one that is never listened to.
Silent(w) == wpc[w] \in {"broken", "disposed"}

\* A bug: a timeout that is shorter than an answer takes.
TimesOutEarly(p) == call[p] # None /\ ~call[p].answered

TimesOut(p) ==
  /\ call[p] # None /\ ~call[p].answered
  /\ prompt => Silent(call[p].to)

\* call after w's answer to message m; an answer that nobody awaits any more is lost.
AnswerTo(w, m) ==
  LET awaits(p) == m.from = p /\ call[p] # None /\ call[p].to = w /\ call[p].type = m.type
  IN [p \in DOMAIN call |-> IF awaits(p) THEN [call[p] EXCEPT !.answered = TRUE] ELSE call[p]]

-----------------------------------------------------------------------------
(* A client: TdlibReceiveManager *)

\* Any worker not spawned yet will do.
Unborn == { w \in Workers : wpc[w] = "unborn" }
NextWorker == CHOOSE w \in Unborn : TRUE

\* Worker w starts tdlibRxMain for client c.
Spawn(w, c) ==
  /\ w \in Unborn
  /\ wpc' = [wpc EXCEPT ![w] = "looking"]
  /\ owner' = [owner EXCEPT ![w] = c]

\* _subscribe once the port has been looked up; nothing completes
\* _initCompleter when no worker is registered.
Subscribe(c, state) ==
  IF registered = None
  THEN /\ pc' = [pc EXCEPT ![c] = "stuck"]
       /\ call' = [call EXCEPT ![c] = None]
       /\ UNCHANGED rx
  ELSE /\ pc' = [pc EXCEPT ![c] = state]
       /\ Request(c, registered, "subscribe")

\* The constructor runs _init.
Start(c) ==
  /\ pc[c] = "off"
  /\ \/ /\ registered # None
        /\ Request(c, registered, "ping")
        /\ pc' = [pc EXCEPT ![c] = "pinging"]
        /\ UNCHANGED <<wpc, owner>>
     \/ /\ registered = None
        /\ pc' = [pc EXCEPT ![c] = "spawning"]
        /\ Spawn(NextWorker, c)
        /\ UNCHANGED <<rx, call>>
  /\ UNCHANGED <<prompt, registered, reply, token, disposals, subs, firstSub, receiver,
                 objectVars, exits>>

PingAnswered(c) ==
  /\ pc[c] = "pinging" /\ Answered(c)
  /\ Subscribe(c, "subscribing")
  /\ UNCHANGED <<prompt, registered, reply, token, disposals, workerVars, objectVars, exits>>

PingTimesOut(c) ==
  /\ pc[c] = "pinging" /\ TimesOut(c)
  /\ registered' = None
  /\ pc' = [pc EXCEPT ![c] = "spawning"]
  /\ call' = [call EXCEPT ![c] = None]
  /\ Spawn(NextWorker, c)
  /\ UNCHANGED <<prompt, reply, token, disposals, rx, subs, firstSub, receiver, objectVars, exits>>

\* The handler of tmp.
WorkerReplies(c) ==
  /\ pc[c] = "spawning" /\ reply[c] # None
  /\ reply' = [reply EXCEPT ![c] = None]
  /\ IF reply[c] THEN Subscribe(c, "subscribingToSpawned")
     ELSE pc' = [pc EXCEPT ![c] = "stuck"] /\ UNCHANGED <<rx, call>>
  /\ UNCHANGED <<prompt, registered, token, disposals, workerVars, objectVars, exits>>

SubscribeAnswered(c) ==
  /\ pc[c] \in {"subscribing", "subscribingToSpawned"} /\ Answered(c)
  /\ token' = [token EXCEPT ![c] = <<call[c].to, c>>]
  /\ pc' = [pc EXCEPT ![c] = "active"]
  /\ call' = [call EXCEPT ![c] = None]
  /\ UNCHANGED <<prompt, registered, reply, disposals, rx, workerVars, objectVars, exits>>

\* A worker of one's own that does not answer is an exception.
SubscribeTimesOut(c) ==
  /\ pc[c] \in {"subscribing", "subscribingToSpawned"} /\ TimesOut(c)
  /\ call' = [call EXCEPT ![c] = None]
  /\ IF pc[c] = "subscribing"
     THEN pc' = [pc EXCEPT ![c] = "spawning"] /\ Spawn(NextWorker, c)
     ELSE pc' = [pc EXCEPT ![c] = "stuck"] /\ UNCHANGED <<wpc, owner>>
  /\ UNCHANGED <<prompt, registered, reply, token, disposals, rx, subs, firstSub, receiver,
                 objectVars, exits>>

\* dispose() awaits an answer that changes nothing.
Dispose(c) ==
  /\ pc[c] \notin {"off", "exited"}
  /\ disposals[c] < MaxDisposals
  /\ disposals' = [disposals EXCEPT ![c] = @ + 1]
  /\ registered # None
  /\ Post(registered, [type |-> "unsubscribe", from |-> None, token |-> token[c]])
  /\ UNCHANGED <<prompt, registered, pc, reply, token, call, workerVars, objectVars, exits>>

\* The client's isolate ends; only a finished _subscribe has added its listener.
Exit(c) ==
  /\ pc[c] \notin {"off", "exited"}
  /\ pc' = [pc EXCEPT ![c] = "exited"]
  /\ call' = [call EXCEPT ![c] = None]
  /\ exits' = IF token[c] = None THEN exits ELSE exits \cup {token[c]}
  /\ UNCHANGED <<prompt, registered, reply, token, disposals, rx, workerVars, objectVars>>

-----------------------------------------------------------------------------
(* A worker: TdlibReceiveManagerWorker *)

LookUp(w) ==
  /\ wpc[w] = "looking"
  /\ \/ /\ registered = None
        /\ wpc' = [wpc EXCEPT ![w] = "registering"]
        /\ UNCHANGED <<rx, call>>
     \/ /\ registered # None
        /\ Request(w, registered, "unmap")
        /\ wpc' = [wpc EXCEPT ![w] = "unmapping"]
  /\ UNCHANGED <<prompt, registered, clientVars, owner, subs, firstSub, receiver,
                 objectVars, exits>>

UnmapAnswered(w) ==
  /\ wpc[w] = "unmapping" /\ Answered(w)
  /\ wpc' = [wpc EXCEPT ![w] = "registering"]
  /\ call' = [call EXCEPT ![w] = None]
  /\ UNCHANGED <<prompt, registered, clientVars, rx, owner, subs, firstSub, receiver,
                 objectVars, exits>>

UnmapTimesOut(w) ==
  /\ wpc[w] = "unmapping" /\ TimesOut(w)
  /\ registered' = None
  /\ wpc' = [wpc EXCEPT ![w] = "registering"]
  /\ call' = [call EXCEPT ![w] = None]
  /\ UNCHANGED <<prompt, clientVars, rx, owner, subs, firstSub, receiver, objectVars, exits>>

\* A bug: a worker that cannot register tells nobody.
RegisterSilently(w) ==
  /\ wpc[w] = "registering"
  /\ registered' = IF registered = None THEN w ELSE registered
  /\ wpc' = [wpc EXCEPT ![w] = IF registered = None THEN "starting" ELSE "failed"]
  /\ UNCHANGED <<prompt, clientVars, call, rx, owner, subs, firstSub, receiver, objectVars, exits>>

Register(w) ==
  /\ wpc[w] = "registering"
  /\ IF registered = None
     THEN registered' = w /\ wpc' = [wpc EXCEPT ![w] = "starting"] /\ UNCHANGED reply
     ELSE /\ wpc' = [wpc EXCEPT ![w] = "failed"]
          /\ reply' = [reply EXCEPT ![owner[w]] = FALSE]
          /\ UNCHANGED registered
  /\ UNCHANGED <<prompt, pc, token, disposals, call, rx, owner, subs, firstSub, receiver,
                 objectVars, exits>>

\* The receiver isolate is up, the ports are listened to and the client is told.
Run(w) ==
  /\ wpc[w] = "starting"
  /\ wpc' = [wpc EXCEPT ![w] = "running"]
  /\ receiver' = [receiver EXCEPT ![w] = "live"]
  /\ reply' = [reply EXCEPT ![owner[w]] = TRUE]
  /\ UNCHANGED <<prompt, registered, pc, token, disposals, call, rx, owner, subs, firstSub,
                 objectVars, exits>>

Restarts == Cardinality({ w \in Workers : wpc[w] = "broken" })

\* The receiver cannot be spawned: tdlibRxMain begins again with a new worker,
\* and leaves the old one's port mapped.
Restart(w) ==
  /\ wpc[w] = "starting" /\ Restarts < MaxRestarts /\ NextWorker \in Unborn
  /\ wpc' = [wpc EXCEPT ![w] = "broken", ![NextWorker] = "looking"]
  /\ owner' = [owner EXCEPT ![NextWorker] = owner[w]]
  /\ UNCHANGED <<prompt, registered, clientVars, call, rx, subs, firstSub, receiver,
                 objectVars, exits>>

\* A bug: the name keeps pointing to the closed port.
DisposeMapped(w) ==
  /\ wpc' = [wpc EXCEPT ![w] = "disposed"]
  /\ receiver' = [receiver EXCEPT ![w] = "killed"]
  /\ rx' = [rx EXCEPT ![w] = <<>>]
  /\ UNCHANGED registered

\* A bug: the receiver goes on calling td_receive.
DisposeReceiving(w) ==
  /\ registered' = None
  /\ wpc' = [wpc EXCEPT ![w] = "disposed"]
  /\ rx' = [rx EXCEPT ![w] = <<>>]
  /\ UNCHANGED receiver

\* _dispose: the mapping is removed whoever's it is, the receiver is killed
\* (it ends when td_receive returns) and _rx is closed with what it holds.
DisposeWorker(w) ==
  /\ registered' = None
  /\ wpc' = [wpc EXCEPT ![w] = "disposed"]
  /\ receiver' = [receiver EXCEPT ![w] = "killed"]
  /\ rx' = [rx EXCEPT ![w] = <<>>]

Keep(w) ==
  /\ rx' = [rx EXCEPT ![w] = Tail(@)]
  /\ UNCHANGED <<registered, wpc, receiver>>

\* The first subscription completes _firstSub and so releases the objects that
\* _tdListener has taken from _tdRx and holds: any number of those that arrived.
HandleSubscribe(w, c) ==
  /\ subs' = [subs EXCEPT ![w] = @ \cup {c}]
  /\ firstSub' = [firstSub EXCEPT ![w] = TRUE]
  /\ \E held \in 0..(IF firstSub[w] THEN 0 ELSE Len(td[w])) :
       /\ sent' = [sent EXCEPT ![c] = @ \o SubSeq(td[w], 1, held)]
       /\ td' = [td EXCEPT ![w] = SubSeq(@, held + 1, Len(@))]
  /\ Keep(w)

\* A bug: an unsubscription without a token removes everybody.
UnsubscribeAll(w, t) ==
  LET left == IF t = None THEN {} ELSE { c \in subs[w] : <<w, c>> # t }
  IN /\ subs' = [subs EXCEPT ![w] = left]
     /\ IF left = {} THEN DisposeWorker(w) ELSE Keep(w)
     /\ UNCHANGED <<firstSub, sent, td>>

\* A bug: the worker outlives its last subscriber.
UnsubscribeKeeping(w, t) ==
  /\ subs' = [subs EXCEPT ![w] = { c \in @ : <<w, c>> # t }]
  /\ Keep(w)
  /\ UNCHANGED <<firstSub, sent, td>>

\* A token of another worker, or null, removes nobody.
HandleUnsubscribe(w, t) ==
  LET left == { c \in subs[w] : <<w, c>> # t }
  IN /\ subs' = [subs EXCEPT ![w] = left]
     /\ IF left = {} THEN DisposeWorker(w) ELSE Keep(w)
     /\ UNCHANGED <<firstSub, sent, td>>

\* _registrantListener on the next message.
RegistrantListener(w) ==
  /\ wpc[w] = "running" /\ rx[w] # <<>>
  /\ LET m == Head(rx[w])
     IN /\ call' = AnswerTo(w, m)
        /\ \/ m.type = "ping" /\ Keep(w) /\ UNCHANGED <<subs, firstSub, sent, td>>
           \/ m.type = "subscribe" /\ HandleSubscribe(w, m.from)
           \/ m.type = "unsubscribe" /\ HandleUnsubscribe(w, m.token)
           \/ m.type = "unmap" /\ DisposeWorker(w) /\ UNCHANGED <<subs, firstSub, sent, td>>
  /\ UNCHANGED <<prompt, clientVars, owner, takenBy, exits>>

\* The exit listener that _subscribe made for token t (unsubscribing closes it)
\* tells whoever is registered now.
ExitListener(t) ==
  /\ t \in exits
  /\ exits' = exits \ {t}
  /\ IF t[2] \in subs[t[1]] /\ registered # None
     THEN Post(registered, [type |-> "unsubscribe", from |-> None, token |-> t])
     ELSE UNCHANGED rx
  /\ UNCHANGED <<prompt, registered, clientVars, call, workerVars, objectVars>>

-----------------------------------------------------------------------------
(* Objects *)

\* A receiver gets TDLib's next object and sends it to its worker; a kill may
\* come between the two.
Receive(w) ==
  /\ receiver[w] \in {"live", "killed"}
  /\ Len(takenBy) < MaxObjects
  /\ takenBy' = Append(takenBy, w)
  /\ \/ td' = [td EXCEPT ![w] = Append(@, Len(takenBy'))]
     \/ receiver[w] = "killed" /\ UNCHANGED td
  /\ UNCHANGED <<prompt, registered, clientVars, call, rx, workerVars, sent, exits>>

\* A bug: objects are sent on before anybody has subscribed.
TdListenerAtOnce(w) ==
  /\ td[w] # <<>>
  /\ sent' = [c \in Clients |-> IF c \in subs[w] THEN Append(sent[c], Head(td[w])) ELSE sent[c]]
  /\ td' = [td EXCEPT ![w] = Tail(@)]
  /\ UNCHANGED <<prompt, registered, clientVars, call, rx, workerVars, takenBy, exits>>

\* _tdListener once there has been a subscriber; unmapping did not stop it.
TdListener(w) ==
  /\ firstSub[w] /\ td[w] # <<>>
  /\ sent' = [c \in Clients |-> IF c \in subs[w] THEN Append(sent[c], Head(td[w])) ELSE sent[c]]
  /\ td' = [td EXCEPT ![w] = Tail(@)]
  /\ UNCHANGED <<prompt, registered, clientVars, call, rx, workerVars, takenBy, exits>>

\* The kill takes effect.
ReceiverEnds(w) ==
  /\ receiver[w] = "killed"
  /\ receiver' = [receiver EXCEPT ![w] = "none"]
  /\ UNCHANGED <<prompt, registered, clientVars, call, rx, wpc, owner, subs, firstSub,
                 objectVars, exits>>

-----------------------------------------------------------------------------
ClientStep(c) ==
  \/ PingAnswered(c) \/ PingTimesOut(c) \/ WorkerReplies(c)
  \/ SubscribeAnswered(c) \/ SubscribeTimesOut(c)

WorkerStep(w) ==
  \/ LookUp(w) \/ UnmapAnswered(w) \/ UnmapTimesOut(w) \/ Register(w) \/ Run(w)
  \/ RegistrantListener(w)

Next ==
  \/ \E c \in Clients : Start(c) \/ ClientStep(c) \/ Dispose(c) \/ Exit(c)
  \/ \E w \in Workers : WorkerStep(w) \/ Restart(w) \/ Receive(w) \/ TdListener(w) \/ ReceiverEnds(w)
  \/ \E t \in Tokens : ExitListener(t)

Spec == Init /\ [][Next]_vars

\* Isolates are scheduled and timers fire; TDLib, exits and disposals need not happen.
FairSpec ==
  /\ Spec
  /\ \A c \in Clients : WF_vars(ClientStep(c))
  /\ \A w \in Workers : WF_vars(WorkerStep(w)) /\ WF_vars(ReceiverEnds(w))

-----------------------------------------------------------------------------
(* Properties *)

\* The name server never offers a closed port: a disposed worker is not the
\* registered one, however late the last messages to it and the unmappings are.
MappedWorkerServes == registered # None => wpc[registered] # "disposed"

\* td_receive must have one caller.  When isolates answer in time and no worker
\* breaks, a live receiver belongs to the registered worker, so there is one at
\* most, and the next worker finds it and kills it.
ReceiverIsReachable ==
  prompt /\ Restarts = 0 => \A w \in Workers : receiver[w] = "live" => registered = w

\* When isolates answer in time, no client gets objects from two workers: it
\* subscribes elsewhere only when its first request was lost.
OneSubscription ==
  prompt => \A c \in Clients, v, w \in Workers : c \in subs[v] \cap subs[w] => v = w

\* An object that reaches a worker before anybody has subscribed is not lost:
\* while the worker runs, it waits there or has been sent to somebody.
NothingMissed ==
  \A n \in DOMAIN takenBy :
    LET w == takenBy[n]
    IN wpc[w] = "running" => n \in ToSet(td[w]) \/ \E c \in Clients : n \in ToSet(sent[c])

\* Tokens of other workers, null tokens and late exits never end the
\* subscription of a client that has neither exited nor disposed of it.
NobodyElseUnsubscribes ==
  \A c \in Clients :
    token[c] # None /\ disposals[c] = 0 /\ pc[c] # "exited" => c \in subs[token[c][1]]

\* _firstSub, a Completer, is completed once: a worker that has lost all its
\* subscribers gets no new one.
FirstSubOnce ==
  [][\A w \in Workers : subs[w] = {} /\ subs'[w] # {} => ~firstSub[w]]_vars

\* However the workers of two clients replace and wait for each other, every
\* _init comes to an end.
InitEnds == \A c \in Clients : pc[c] # "off" ~> pc[c] \in {"active", "stuck", "exited"}

\* client.dart:122 of subscribe(): "Returns true if succeed."  Its future is
\* completed by success alone, so the caller of a failed one waits forever.
SubscribeAnswers == \A c \in Clients : pc[c] # "off" ~> pc[c] \in {"active", "exited"}
=============================================================================
