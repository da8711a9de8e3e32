--------------------------- MODULE RxWorkerProofs ---------------------------
(***************************************************************************)
(* For any number of isolates, restarts, disposals and objects, and        *)
(* whatever time-outs strike: the name server offers no closed port, a     *)
(* client loses its subscription by its own doing alone, and a worker's    *)
(* completer of the first subscription is completed once.                  *)
(***************************************************************************)
EXTENDS RxWorker, FiniteSetTheorems, SequenceTheorems, TLAPS

\* A client that may be unsubscribed: it has disposed, or its isolate is gone.
Excused(c) == disposals[c] > 0 \/ pc[c] = "exited"

\* What is in a port: clients subscribe, and an unsubscription that names a
\* token names one of an excused client.
Legit ==
  {m \in Message :
     /\ m.type = "subscribe" => m.from \in Clients
     /\ m.type = "unsubscribe" /\ m.token # None => Excused(m.token[2])}

PortsAreLegit == rx \in [Workers -> Seq(Legit)]

\* A client waits for an answer to "subscribe" in the states named so, and one
\* that has come was given by a worker that still serves it.
SubscribersServed ==
  \A c \in Clients :
    /\ pc[c] \in {"subscribing", "subscribingToSpawned"} =>
         call[c].type = "subscribe"
    /\ call[c] # None /\ call[c].type = "subscribe" /\ call[c].answered =>
         c \in subs[call[c].to] \/ Excused(c)

TokensAreOwn == \A c \in Clients : token[c] # None => token[c][2] = c
ExitsAreOver == \A t \in exits : pc[t[2]] = "exited"

\* Once it has had a subscriber, a worker runs with one or is disposed of.
FirstSubServed ==
  \A w \in Workers :
    firstSub[w] => wpc[w] = "disposed" \/ (wpc[w] = "running" /\ subs[w] # {})

IInv ==
  /\ TypeOK /\ MappedWorkerServes /\ NobodyElseUnsubscribes
  /\ PortsAreLegit /\ SubscribersServed /\ TokensAreOwn /\ ExitsAreOver
  /\ FirstSubServed

-----------------------------------------------------------------------------
(* Constants *)

LEMMA WorkersAreNumbers ==
  /\ Workers \subseteq Nat
  /\ None \notin Workers /\ None \notin Clients
  /\ Clients \cap Workers = {}
<1>1. Cardinality(Clients) + MaxRestarts \in Nat
  BY FS_CardinalityType, RxWorkerAssumption
<1> QED
  BY <1>1, RxWorkerAssumption DEF Workers

-----------------------------------------------------------------------------
(* Ports *)

\* A message that belongs to S keeps a port within S.
LEMMA PostKeeps ==
  ASSUME NEW S, rx \in [Workers -> Seq(S)], NEW w \in Workers, NEW m \in S, Post(w, m)
  PROVE  rx' \in [Workers -> Seq(S)]
<1>1. Append(rx[w], m) \in Seq(S)
  BY AppendProperties
<1> QED
  BY <1>1 DEF Post

\* An exited isolate does not come back, disposals are not forgotten.
Aged == \A c \in Clients : /\ Excused(c) => Excused(c)'
                           /\ pc[c] = "exited" => pc'[c] = "exited"

\* Hence what is legitimate stays so.
LEMMA LegitGrows ==
  ASSUME Aged
  PROVE  Legit \subseteq Legit'
BY DEF Legit, Message, Tokens, Aged

LEMMA LegitStays ==
  ASSUME NEW R, R \in [Workers -> Seq(Legit)],
         Aged
  PROVE  R \in [Workers -> Seq(Legit')]
<1>1. \A s \in Seq(Legit) : s \in Seq(Legit')
  BY LegitGrows, SeqMonotonic
<1> QED
  BY <1>1

LEMMA LegitPorts ==
  /\ PortsAreLegit => rx \in [Workers -> Seq(Message)]
  /\ PortsAreLegit' => rx' \in [Workers -> Seq(Message)]
<1>1. Legit \subseteq Message /\ Legit' \subseteq Message
  BY DEF Legit
<1>2. \A s : (s \in Seq(Legit) => s \in Seq(Message)) /\ (s \in Seq(Legit') => s \in Seq(Message))
  BY <1>1, SeqMonotonic
<1> QED
  BY <1>2 DEF PortsAreLegit

LEMMA PortsAfterPost ==
  ASSUME PortsAreLegit, NEW w \in Workers, NEW m \in Legit', Post(w, m),
         Aged
  PROVE  PortsAreLegit'
<1>1. rx \in [Workers -> Seq(Legit')]
  BY LegitStays DEF PortsAreLegit
<1> QED
  BY <1>1, PostKeeps DEF PortsAreLegit

LEMMA PortsUnchanged ==
  ASSUME PortsAreLegit, UNCHANGED rx, Aged
  PROVE  PortsAreLegit'
BY LegitStays DEF PortsAreLegit

-----------------------------------------------------------------------------
(* Steps that leave the subscriptions alone *)

LEMMA NextAges == ASSUME TypeOK, Next PROVE Aged
<1> SUFFICES ASSUME NEW c \in Clients
             PROVE  /\ Excused(c) => Excused(c)'
                    /\ pc[c] = "exited" => pc'[c] = "exited"
  BY DEF Aged
<1> USE DEF Excused, clientVars
<1>0. pc \in [Clients -> ClientPC] /\ disposals \in [Clients -> Nat]
  BY RxWorkerAssumption DEF TypeOK
<1>1. CASE \E d \in Clients : Start(d) \/ ClientStep(d)
  BY <1>0, <1>1 DEF ClientStep, Start, PingAnswered, PingTimesOut, WorkerReplies,
              SubscribeAnswered, SubscribeTimesOut, Subscribe
<1>2. CASE \E d \in Clients : Dispose(d) \/ Exit(d)
  BY <1>0, <1>2 DEF Dispose, Exit
<1>3. CASE \E w \in Workers : WorkerStep(w)
  BY <1>3 DEF WorkerStep, LookUp, UnmapAnswered, UnmapTimesOut, Register, Run,
              RegistrantListener
<1>4. CASE \E w \in Workers : Restart(w) \/ Receive(w) \/ TdListener(w) \/ ReceiverEnds(w)
  BY <1>4 DEF Restart, Receive, TdListener, ReceiverEnds
<1>5. CASE \E t \in Tokens : ExitListener(t)
  BY <1>5 DEF ExitListener
<1> QED
  BY <1>1, <1>2, <1>3, <1>4, <1>5 DEF Next

\* A request to the registered worker.
LEMMA RequestStep ==
  ASSUME IInv, NEW p \in Clients \cup Workers, NEW w \in Workers,
         NEW type \in {"ping", "subscribe", "unmap"}, type = "subscribe" => p \in Clients,
         Request(p, w, type), Aged
  PROVE  /\ PortsAreLegit'
         /\ call' \in [Clients \cup Workers -> Call \cup {None}]
         /\ call' = [call EXCEPT ![p] = [to |-> w, type |-> type, answered |-> FALSE]]
<1> DEFINE m == [type |-> type, from |-> p, token |-> None]
<1>1. m \in Legit'
  BY DEF Legit, Message
<1>2. PortsAreLegit'
  BY <1>1, PortsAfterPost DEF IInv, Request
<1>3. [to |-> w, type |-> type, answered |-> FALSE] \in Call
  BY DEF Call
<1> QED
  BY <1>2, <1>3 DEF IInv, TypeOK, Request

LEMMA SubscribeStep ==
  ASSUME IInv, NEW c \in Clients, NEW state \in ClientPC, Subscribe(c, state),
         state \in {"subscribing", "subscribingToSpawned"},
         Aged
  PROVE  /\ PortsAreLegit'
         /\ pc' \in [Clients -> ClientPC]
         /\ call' \in [Clients \cup Workers -> Call \cup {None}]
         /\ \A d \in Clients \ {c} : call'[d] = call[d] /\ pc'[d] = pc[d]
         /\ call'[c] # None => ~ call'[c].answered
         /\ pc'[c] \in {"subscribing", "subscribingToSpawned"} =>
              call'[c].type = "subscribe"
<1>1. /\ pc \in [Clients -> ClientPC] /\ call \in [Clients \cup Workers -> Call \cup {None}]
      /\ registered \in Workers \cup {None}
  BY DEF IInv, TypeOK
<1>2. CASE registered = None
  <2>1. PortsAreLegit'
    BY <1>2, PortsUnchanged DEF IInv, Subscribe
  <2> QED
    BY <1>1, <1>2, <2>1 DEF Subscribe, ClientPC
<1>3. CASE registered # None
  <2>1. /\ PortsAreLegit'
        /\ call' \in [Clients \cup Workers -> Call \cup {None}]
        /\ call' = [call EXCEPT ![c] = [to |-> registered, type |-> "subscribe",
                                        answered |-> FALSE]]
    BY <1>1, <1>3, RequestStep DEF Subscribe
  <2>2. pc' = [pc EXCEPT ![c] = state]
    BY <1>3 DEF Subscribe
  <2> QED
    BY <1>1, <2>1, <2>2
<1> QED
  BY <1>2, <1>3

\* A step that changes no subscription, token or object: a worker that runs or
\* is disposed of stays so and none is disposed of, the name is taken from or
\* given to another, and new calls have no answer yet.
Quiet ==
  /\ UNCHANGED <<prompt, token, disposals, exits, subs, firstSub, receiver, takenBy, td, sent>>
  /\ pc' \in [Clients -> ClientPC]
  /\ reply' \in [Clients -> BOOLEAN \cup {None}]
  /\ call' \in [Clients \cup Workers -> Call \cup {None}]
  /\ wpc' \in [Workers -> WorkerPC]
  /\ owner' \in [Workers -> Clients \cup {None}]
  /\ registered' \in {registered, None} \/ registered' \in {w \in Workers : wpc'[w] # "disposed"}
  /\ \A w \in Workers :
       wpc'[w] = wpc[w] \/ (wpc[w] \notin {"running", "disposed"} /\ wpc'[w] # "disposed")
  /\ \A c \in Clients :
       /\ call'[c] = call[c] \/ (call'[c] # None => ~ call'[c].answered)
       /\ \/ pc'[c] = pc[c] /\ call'[c] = call[c]
          \/ pc'[c] \in {"subscribing", "subscribingToSpawned"} => call'[c].type = "subscribe"

LEMMA QuietStep == ASSUME IInv, Quiet, Aged, PortsAreLegit' PROVE IInv'
<1>1. TypeOK'
  BY LegitPorts DEF IInv, TypeOK, Quiet
<1>2. MappedWorkerServes'
  BY DEF IInv, TypeOK, MappedWorkerServes, Quiet
<1>3. NobodyElseUnsubscribes' /\ TokensAreOwn' /\ ExitsAreOver'
  BY DEF IInv, TypeOK, NobodyElseUnsubscribes, TokensAreOwn, ExitsAreOver, Quiet, Aged, Tokens
<1>4. FirstSubServed'
  BY DEF IInv, FirstSubServed, Quiet
<1>5. SubscribersServed'
  <2> SUFFICES ASSUME NEW c \in Clients
               PROVE  /\ pc'[c] \in {"subscribing", "subscribingToSpawned"} =>
                           call'[c].type = "subscribe"
                      /\ call'[c] # None /\ call'[c].type = "subscribe" /\ call'[c].answered =>
                           c \in subs'[call'[c].to] \/ Excused(c)'
    BY DEF SubscribersServed
  <2> QED
    BY DEF IInv, SubscribersServed, Quiet, Aged
<1> QED
  BY <1>1, <1>2, <1>3, <1>4, <1>5 DEF IInv

LEMMA SpawnStep ==
  ASSUME TypeOK, NEW w, NEW c \in Clients, Spawn(w, c)
  PROVE  /\ wpc' \in [Workers -> WorkerPC]
         /\ owner' \in [Workers -> Clients \cup {None}]
         /\ \A v \in Workers :
              wpc'[v] = wpc[v] \/ (wpc[v] \notin {"running", "disposed"} /\ wpc'[v] # "disposed")
BY DEF TypeOK, Spawn, Unborn, WorkerPC

LEMMA StartStep == ASSUME IInv, NEW c \in Clients, Start(c), Aged PROVE IInv'
<1>0. TypeOK
  BY DEF IInv
<1>1. CASE registered # None
  <2>1. registered \in Workers
    BY <1>0, <1>1 DEF TypeOK
  <2>2. /\ PortsAreLegit'
        /\ call' \in [Clients \cup Workers -> Call \cup {None}]
        /\ call' = [call EXCEPT ![c] = [to |-> registered, type |-> "ping", answered |-> FALSE]]
    BY <1>1, <2>1, RequestStep DEF Start
  <2>3. Quiet
    BY <1>0, <1>1, <2>2, WorkersAreNumbers DEF Start, Quiet, TypeOK, ClientPC, objectVars
  <2> QED
    BY <2>2, <2>3, QuietStep
<1>2. CASE registered = None
  <2>1. PortsAreLegit'
    BY <1>2, PortsUnchanged DEF IInv, Start
  <2>2. Spawn(NextWorker, c)
    BY <1>2 DEF Start
  <2>3. Quiet
    BY <1>0, <1>2, <2>2, SpawnStep DEF Start, Quiet, TypeOK, ClientPC, objectVars
  <2> QED
    BY <2>1, <2>3, QuietStep
<1> QED
  BY <1>1, <1>2

LEMMA PingAnsweredStep == ASSUME IInv, NEW c \in Clients, PingAnswered(c), Aged PROVE IInv'
<1>1. Subscribe(c, "subscribing")
  BY DEF PingAnswered
<1>2. Quiet
  BY <1>1, SubscribeStep DEF IInv, TypeOK, ClientPC, PingAnswered, Quiet, workerVars, objectVars
<1> QED
  BY <1>1, <1>2, SubscribeStep, QuietStep DEF ClientPC

LEMMA PingTimesOutStep == ASSUME IInv, NEW c \in Clients, PingTimesOut(c), Aged PROVE IInv'
<1>1. Spawn(NextWorker, c)
  BY DEF PingTimesOut
<1>2. Quiet
  BY <1>1, SpawnStep DEF IInv, TypeOK, ClientPC, PingTimesOut, Quiet, objectVars
<1>3. PortsAreLegit'
  BY PortsUnchanged DEF IInv, PingTimesOut
<1> QED
  BY <1>2, <1>3, QuietStep

LEMMA WorkerRepliesStep == ASSUME IInv, NEW c \in Clients, WorkerReplies(c), Aged PROVE IInv'
<1>1. CASE reply[c]
  <2>1. Subscribe(c, "subscribingToSpawned")
    BY <1>1 DEF WorkerReplies
  <2>2. Quiet
    BY <2>1, SubscribeStep DEF IInv, TypeOK, ClientPC, WorkerReplies, Quiet, workerVars, objectVars
  <2> QED
    BY <2>1, <2>2, SubscribeStep, QuietStep DEF ClientPC
<1>2. CASE ~ reply[c]
  <2>1. PortsAreLegit'
    BY <1>2, PortsUnchanged DEF IInv, WorkerReplies
  <2>2. Quiet
    BY <1>2 DEF IInv, TypeOK, ClientPC, WorkerReplies, Quiet, workerVars, objectVars
  <2> QED
    BY <2>1, <2>2, QuietStep
<1> QED
  BY <1>1, <1>2

LEMMA SubscribeTimesOutStep ==
  ASSUME IInv, NEW c \in Clients, SubscribeTimesOut(c), Aged PROVE IInv'
<1>1. PortsAreLegit'
  BY PortsUnchanged DEF IInv, SubscribeTimesOut
<1>2. Quiet
  BY SpawnStep DEF IInv, TypeOK, ClientPC, SubscribeTimesOut, Quiet, objectVars
<1> QED
  BY <1>1, <1>2, QuietStep

LEMMA LookUpStep == ASSUME IInv, NEW w \in Workers, LookUp(w), Aged PROVE IInv'
<1>1. CASE registered = None
  <2>1. PortsAreLegit' /\ Quiet
    BY <1>1, PortsUnchanged
       DEF IInv, TypeOK, WorkerPC, LookUp, Quiet, clientVars, objectVars
  <2> QED
    BY <2>1, QuietStep
<1>2. CASE registered # None
  <2>1. registered \in Workers /\ Request(w, registered, "unmap")
    BY <1>2 DEF IInv, TypeOK, LookUp
  <2>2. /\ PortsAreLegit'
        /\ call' \in [Clients \cup Workers -> Call \cup {None}]
        /\ call' = [call EXCEPT ![w] = [to |-> registered, type |-> "unmap", answered |-> FALSE]]
    BY <2>1, RequestStep
  <2>3. \A c \in Clients : call'[c] = call[c]
    BY <2>2, WorkersAreNumbers DEF IInv, TypeOK
  <2>4. /\ UNCHANGED <<prompt, registered, clientVars, exits, owner, subs, firstSub, receiver,
                      objectVars>>
        /\ wpc' \in [Workers -> WorkerPC] /\ wpc[w] = "looking" /\ wpc'[w] = "unmapping"
        /\ \A v \in Workers \ {w} : wpc'[v] = wpc[v]
    BY <1>2 DEF IInv, TypeOK, WorkerPC, LookUp
  <2>5. Quiet
    BY <2>2, <2>3, <2>4 DEF IInv, TypeOK, Quiet, clientVars, objectVars
  <2> QED
    BY <2>2, <2>5, QuietStep
<1> QED
  BY <1>1, <1>2

LEMMA UnmapAnsweredStep == ASSUME IInv, NEW w \in Workers, UnmapAnswered(w), Aged PROVE IInv'
<1>1. PortsAreLegit'
  BY PortsUnchanged DEF IInv, UnmapAnswered
<1>2. /\ \A c \in Clients : call'[c] = call[c]
      /\ call' \in [Clients \cup Workers -> Call \cup {None}]
  BY WorkersAreNumbers DEF IInv, TypeOK, UnmapAnswered
<1>3. Quiet
  BY <1>2 DEF IInv, TypeOK, WorkerPC, UnmapAnswered, Quiet, clientVars, objectVars
<1> QED
  BY <1>1, <1>3, QuietStep

LEMMA UnmapTimesOutStep == ASSUME IInv, NEW w \in Workers, UnmapTimesOut(w), Aged PROVE IInv'
<1>1. PortsAreLegit'
  BY PortsUnchanged DEF IInv, UnmapTimesOut
<1>2. /\ \A c \in Clients : call'[c] = call[c]
      /\ call' \in [Clients \cup Workers -> Call \cup {None}]
  BY WorkersAreNumbers DEF IInv, TypeOK, UnmapTimesOut
<1>3. Quiet
  BY <1>2 DEF IInv, TypeOK, WorkerPC, UnmapTimesOut, Quiet, clientVars, objectVars
<1> QED
  BY <1>1, <1>3, QuietStep

LEMMA RegisterStep == ASSUME IInv, NEW w \in Workers, Register(w), Aged PROVE IInv'
<1>1. PortsAreLegit'
  BY PortsUnchanged DEF IInv, Register
<1>2. reply' \in [Clients -> BOOLEAN \cup {None}]
  BY DEF IInv, TypeOK, Register
<1>3. wpc' \in [Workers -> WorkerPC] /\ wpc[w] = "registering" /\ wpc'[w] \in {"starting", "failed"}
      /\ \A v \in Workers \ {w} : wpc'[v] = wpc[v]
  BY DEF IInv, TypeOK, WorkerPC, Register
<1>4. registered' \in {registered, w}
  BY DEF Register
<1>5. Quiet
  BY <1>2, <1>3, <1>4 DEF IInv, TypeOK, Register, Quiet, objectVars
<1> QED
  BY <1>1, <1>5, QuietStep

LEMMA RestartStep == ASSUME IInv, NEW w \in Workers, Restart(w), Aged PROVE IInv'
<1>1. PortsAreLegit'
  BY PortsUnchanged DEF IInv, Restart
<1>2. NextWorker \in Workers /\ wpc[NextWorker] = "unborn"
  BY DEF Restart, Unborn
<1>3. Quiet
  BY <1>2 DEF IInv, TypeOK, WorkerPC, Restart, Quiet, clientVars, objectVars
<1> QED
  BY <1>1, <1>3, QuietStep

-----------------------------------------------------------------------------
(* Objects *)

\* Nothing but objects and receivers changes.
OnlyObjects ==
  UNCHANGED <<prompt, registered, pc, reply, token, disposals, call, wpc, owner, rx, subs,
              firstSub, exits>>

LEMMA OnlyObjectsStep ==
  ASSUME IInv, OnlyObjects, Aged,
         receiver' \in [Workers -> {"none", "live", "killed"}],
         takenBy' \in Seq(Workers), Len(takenBy') <= MaxObjects,
         td' \in [Workers -> Seq(1..MaxObjects)],
         sent' \in [Clients -> Seq(1..MaxObjects)]
  PROVE  IInv'
<1>1. PortsAreLegit'
  BY PortsUnchanged DEF IInv, OnlyObjects
<1>2. TypeOK'
  BY DEF IInv, TypeOK, OnlyObjects
<1>3. MappedWorkerServes' /\ NobodyElseUnsubscribes' /\ TokensAreOwn' /\ ExitsAreOver'
  BY DEF IInv, MappedWorkerServes, NobodyElseUnsubscribes, TokensAreOwn, ExitsAreOver, OnlyObjects
<1>4. SubscribersServed' /\ FirstSubServed'
  BY DEF IInv, SubscribersServed, FirstSubServed, Excused, OnlyObjects
<1> QED
  BY <1>1, <1>2, <1>3, <1>4 DEF IInv

LEMMA ReceiveStep == ASSUME IInv, NEW w \in Workers, Receive(w), Aged PROVE IInv'
<1>1. /\ takenBy \in Seq(Workers) /\ Len(takenBy) < MaxObjects /\ Len(takenBy) \in Nat
      /\ takenBy' = Append(takenBy, w)
  BY LenProperties DEF IInv, TypeOK, Receive
<1>2. takenBy' \in Seq(Workers) /\ Len(takenBy') = Len(takenBy) + 1
  BY <1>1, AppendProperties
<1>3. Len(takenBy') \in 1..MaxObjects
  BY <1>1, <1>2, RxWorkerAssumption
<1>4. Append(td[w], Len(takenBy')) \in Seq(1..MaxObjects)
  BY <1>3, AppendProperties DEF IInv, TypeOK
<1>5. td' \in [Workers -> Seq(1..MaxObjects)]
  BY <1>4 DEF IInv, TypeOK, Receive
<1>6. OnlyObjects /\ UNCHANGED <<receiver, sent>>
  BY DEF Receive, OnlyObjects, clientVars, workerVars
<1>7. /\ receiver' \in [Workers -> {"none", "live", "killed"}]
      /\ sent' \in [Clients -> Seq(1..MaxObjects)]
      /\ Len(takenBy') <= MaxObjects
  BY <1>3, <1>6, RxWorkerAssumption DEF IInv, TypeOK
<1> QED
  BY <1>2, <1>5, <1>6, <1>7, OnlyObjectsStep

LEMMA TdListenerStep == ASSUME IInv, NEW w \in Workers, TdListener(w), Aged PROVE IInv'
<1>1. td[w] \in Seq(1..MaxObjects) /\ td[w] # <<>>
  BY DEF IInv, TypeOK, TdListener
<1>2. Head(td[w]) \in 1..MaxObjects /\ Tail(td[w]) \in Seq(1..MaxObjects)
  BY <1>1, HeadTailProperties
<1>3. td' \in [Workers -> Seq(1..MaxObjects)]
  BY <1>2 DEF IInv, TypeOK, TdListener
<1>4. \A c \in Clients : Append(sent[c], Head(td[w])) \in Seq(1..MaxObjects)
  BY <1>2, AppendProperties DEF IInv, TypeOK
<1>5. sent' \in [Clients -> Seq(1..MaxObjects)]
  BY <1>4 DEF IInv, TypeOK, TdListener
<1>6. OnlyObjects /\ UNCHANGED <<receiver, takenBy>>
  BY DEF TdListener, OnlyObjects, clientVars, workerVars
<1> QED
  BY <1>3, <1>5, <1>6, OnlyObjectsStep DEF IInv, TypeOK

LEMMA ReceiverEndsStep == ASSUME IInv, NEW w \in Workers, ReceiverEnds(w), Aged PROVE IInv'
<1>1. OnlyObjects /\ UNCHANGED <<takenBy, td, sent>>
  BY DEF ReceiverEnds, OnlyObjects, clientVars, objectVars
<1>2. receiver' \in [Workers -> {"none", "live", "killed"}]
  BY DEF IInv, TypeOK, ReceiverEnds
<1> QED
  BY <1>1, <1>2, OnlyObjectsStep DEF IInv, TypeOK

-----------------------------------------------------------------------------
(* Run, and a client's own steps that matter to its subscription *)

\* A worker that starts has never had a subscriber.
LEMMA RunStep == ASSUME IInv, NEW w \in Workers, Run(w), Aged PROVE IInv'
<1>1. PortsAreLegit'
  BY PortsUnchanged DEF IInv, Run
<1>2. TypeOK'
  BY <1>1, LegitPorts DEF IInv, TypeOK, WorkerPC, Run, objectVars
<1>3. MappedWorkerServes'
  BY DEF IInv, TypeOK, MappedWorkerServes, Run
<1>4. NobodyElseUnsubscribes' /\ TokensAreOwn' /\ ExitsAreOver'
  BY DEF IInv, NobodyElseUnsubscribes, TokensAreOwn, ExitsAreOver, Run
<1>5. SubscribersServed'
  BY DEF IInv, SubscribersServed, Excused, Run
<1>6. FirstSubServed'
  BY DEF IInv, TypeOK, FirstSubServed, Run
<1> QED
  BY <1>1, <1>2, <1>3, <1>4, <1>5, <1>6 DEF IInv

\* The answer means that the worker serves the client, unless it is excused.
LEMMA SubscribeAnsweredStep ==
  ASSUME IInv, NEW c \in Clients, SubscribeAnswered(c), Aged PROVE IInv'
<1>1. PortsAreLegit'
  BY PortsUnchanged DEF IInv, SubscribeAnswered
<1>2. /\ call[c] \in Call /\ call[c].type = "subscribe"
      /\ c \in subs[call[c].to] \/ Excused(c)
  BY DEF IInv, TypeOK, SubscribersServed, SubscribeAnswered, Answered
<1>3. <<call[c].to, c>> \in Tokens
  BY <1>2 DEF Call, Tokens
<1>4. TypeOK'
  BY <1>1, <1>3, LegitPorts
     DEF IInv, TypeOK, ClientPC, SubscribeAnswered, workerVars, objectVars
<1>5. MappedWorkerServes' /\ FirstSubServed'
  BY DEF IInv, MappedWorkerServes, FirstSubServed, SubscribeAnswered, workerVars
<1>6. NobodyElseUnsubscribes' /\ TokensAreOwn'
  <2>1. /\ token' = [token EXCEPT ![c] = <<call[c].to, c>>] /\ UNCHANGED <<subs, disposals>>
        /\ token \in [Clients -> Tokens \cup {None}]
        /\ pc[c] # "exited" /\ \A d \in Clients \ {c} : pc'[d] = pc[d]
        /\ disposals[c] \in Nat
    BY RxWorkerAssumption DEF IInv, TypeOK, SubscribeAnswered, workerVars
  <2>2. disposals[c] = 0 => c \in subs[call[c].to]
    BY <1>2, <2>1 DEF Excused
  <2> QED
    BY <2>1, <2>2 DEF IInv, NobodyElseUnsubscribes, TokensAreOwn
<1>7. ExitsAreOver'
  BY DEF IInv, TypeOK, ExitsAreOver, SubscribeAnswered, Aged, Tokens
<1>8. SubscribersServed'
  BY DEF IInv, TypeOK, SubscribersServed, SubscribeAnswered, Excused, workerVars
<1> QED
  BY <1>1, <1>4, <1>5, <1>6, <1>7, <1>8 DEF IInv

\* The token sent is the client's own, and the client is excused from now on.
LEMMA DisposeStep == ASSUME IInv, NEW c \in Clients, Dispose(c), Aged PROVE IInv'
<1> DEFINE m == [type |-> "unsubscribe", from |-> None, token |-> token[c]]
<1>1. registered \in Workers /\ Post(registered, m)
  BY DEF IInv, TypeOK, Dispose
<1>2. disposals[c] \in 0..MaxDisposals /\ disposals'[c] = disposals[c] + 1
      /\ disposals[c] < MaxDisposals /\ disposals' \in [Clients -> 0..MaxDisposals]
      /\ \A d \in Clients \ {c} : disposals'[d] = disposals[d]
  BY RxWorkerAssumption DEF IInv, TypeOK, Dispose
<1>3. Excused(c)'
  BY <1>2, RxWorkerAssumption DEF Excused
<1>4. m \in Legit'
  <2>1. m \in Message
    BY DEF IInv, TypeOK, Message
  <2>2. token[c] # None => token[c][2] = c
    BY DEF IInv, TokensAreOwn
  <2> QED
    BY <1>3, <2>1, <2>2 DEF Legit
<1>5. PortsAreLegit'
  BY <1>1, <1>4, PortsAfterPost DEF IInv
<1>6. TypeOK'
  BY <1>2, <1>5, LegitPorts DEF IInv, TypeOK, Dispose, workerVars, objectVars
<1>7. MappedWorkerServes' /\ FirstSubServed' /\ TokensAreOwn' /\ ExitsAreOver'
  BY DEF IInv, MappedWorkerServes, FirstSubServed, TokensAreOwn, ExitsAreOver, Dispose, workerVars
<1>8. NobodyElseUnsubscribes'
  BY <1>2, RxWorkerAssumption DEF IInv, NobodyElseUnsubscribes, Dispose, workerVars
<1>9. SubscribersServed'
  BY DEF IInv, SubscribersServed, Dispose, Aged, workerVars
<1> QED
  BY <1>5, <1>6, <1>7, <1>8, <1>9 DEF IInv

LEMMA ExitStep == ASSUME IInv, NEW c \in Clients, Exit(c), Aged PROVE IInv'
<1>1. PortsAreLegit'
  BY PortsUnchanged DEF IInv, Exit
<1>2. TypeOK'
  BY <1>1, LegitPorts DEF IInv, TypeOK, ClientPC, Exit, workerVars, objectVars
<1>3. MappedWorkerServes' /\ FirstSubServed'
  BY DEF IInv, MappedWorkerServes, FirstSubServed, Exit, workerVars
<1>4. NobodyElseUnsubscribes' /\ TokensAreOwn'
  BY DEF IInv, TypeOK, NobodyElseUnsubscribes, TokensAreOwn, Exit, workerVars
<1>5. ExitsAreOver'
  BY DEF IInv, TypeOK, ExitsAreOver, TokensAreOwn, Exit, Aged, Tokens
<1>6. SubscribersServed'
  BY DEF IInv, TypeOK, SubscribersServed, Exit, Aged, workerVars
<1> QED
  BY <1>1, <1>2, <1>3, <1>4, <1>5, <1>6 DEF IInv

\* A listener that runs late names the token of a client that has exited.
LEMMA ExitListenerStep == ASSUME IInv, NEW t \in Tokens, ExitListener(t), Aged PROVE IInv'
<1>1. Excused(t[2])'
  BY DEF IInv, ExitsAreOver, ExitListener, Excused, clientVars
<1>2. PortsAreLegit'
  <2>1. CASE t[2] \in subs[t[1]] /\ registered # None
    <3> DEFINE m == [type |-> "unsubscribe", from |-> None, token |-> t]
    <3>1. registered \in Workers /\ Post(registered, m)
      BY <2>1 DEF IInv, TypeOK, ExitListener
    <3>2. m \in Legit'
      BY <1>1 DEF Legit, Message
    <3> QED
      BY <3>1, <3>2, PortsAfterPost DEF IInv
  <2>2. CASE ~ (t[2] \in subs[t[1]] /\ registered # None)
    BY <2>2, PortsUnchanged DEF IInv, ExitListener
  <2> QED
    BY <2>1, <2>2
<1>3. TypeOK'
  BY <1>2, LegitPorts DEF IInv, TypeOK, ExitListener, clientVars, workerVars, objectVars
<1>4. MappedWorkerServes' /\ NobodyElseUnsubscribes' /\ TokensAreOwn' /\ FirstSubServed'
  BY DEF IInv, MappedWorkerServes, NobodyElseUnsubscribes, TokensAreOwn, FirstSubServed,
         ExitListener, clientVars, workerVars
<1>5. SubscribersServed' /\ ExitsAreOver'
  BY DEF IInv, SubscribersServed, ExitsAreOver, Excused, ExitListener, clientVars, workerVars
<1> QED
  BY <1>2, <1>3, <1>4, <1>5 DEF IInv

-----------------------------------------------------------------------------
(* A worker handles a message *)

LEMMA TakenPorts ==
  ASSUME IInv, NEW w \in Workers, rx[w] # <<>>, Keep(w) \/ DisposeWorker(w), Aged
  PROVE  PortsAreLegit' /\ Head(rx[w]) \in Legit
<1>1. rx[w] \in Seq(Legit)
  BY DEF IInv, PortsAreLegit
<1>2. Head(rx[w]) \in Legit /\ Tail(rx[w]) \in Seq(Legit) /\ <<>> \in Seq(Legit)
  BY <1>1, HeadTailProperties, EmptySeq
<1>3. rx' \in [Workers -> Seq(Legit)]
  BY <1>2 DEF IInv, PortsAreLegit, Keep, DisposeWorker
<1>4. rx' \in [Workers -> Seq(Legit')]
  BY <1>3, LegitStays
<1> QED
  BY <1>2, <1>4 DEF PortsAreLegit

\* An answer reaches the sender of the message alone, if it still waits.
LEMMA AnswerToStep ==
  ASSUME TypeOK, NEW w \in Workers, NEW m, call' = AnswerTo(w, m)
  PROVE  /\ call' \in [Clients \cup Workers -> Call \cup {None}]
         /\ \A c \in Clients :
              \/ call'[c] = call[c]
              \/ /\ m.from = c /\ call[c].to = w /\ call[c].type = m.type
                 /\ call'[c].to = w /\ call'[c].type = m.type
<1>1. call \in [Clients \cup Workers -> Call \cup {None}]
  BY DEF TypeOK
<1>2. ASSUME NEW p \in Clients \cup Workers, call'[p] # call[p]
      PROVE  /\ call'[p] \in Call /\ m.from = p /\ call[p].to = w /\ call[p].type = m.type
             /\ call'[p].to = w /\ call'[p].type = m.type
  <2>1. /\ call[p] \in Call /\ m.from = p /\ call[p].to = w /\ call[p].type = m.type
        /\ call'[p] = [call[p] EXCEPT !.answered = TRUE]
    BY <1>1, <1>2 DEF AnswerTo
  <2> QED
    BY <2>1 DEF Call
<1>3. call' = [p \in Clients \cup Workers |-> call'[p]]
  BY <1>1 DEF AnswerTo
<1>4. \A p \in Clients \cup Workers : call'[p] \in Call \cup {None}
  <2> SUFFICES ASSUME NEW p \in Clients \cup Workers PROVE call'[p] \in Call \cup {None}
    OBVIOUS
  <2> QED
    BY <1>1, <1>2
<1>5. call' \in [Clients \cup Workers -> Call \cup {None}]
  BY <1>3, <1>4
<1> QED
  BY <1>2, <1>5

\* What happens to the worker itself: it goes on, or is disposed of and unmapped.
LEMMA KeptOrDisposed ==
  ASSUME TypeOK, NEW w \in Workers, Keep(w) \/ DisposeWorker(w)
  PROVE  /\ wpc' \in [Workers -> WorkerPC]
         /\ receiver' \in [Workers -> {"none", "live", "killed"}]
         /\ registered' \in Workers \cup {None}
         /\ \A v \in Workers \ {w} : wpc'[v] = wpc[v]
         /\ wpc'[w] \in {wpc[w], "disposed"}
         /\ registered' = None \/ (registered' = registered /\ wpc' = wpc)
BY DEF TypeOK, WorkerPC, Keep, DisposeWorker

\* Every message leaves the client's variables and the mapping consistent ...
LEMMA HandledFrame ==
  ASSUME IInv, NEW w \in Workers, Aged, rx[w] # <<>>, Keep(w) \/ DisposeWorker(w),
         call' = AnswerTo(w, Head(rx[w])), UNCHANGED <<prompt, clientVars, owner, takenBy, exits>>,
         subs' \in [Workers -> SUBSET Clients], firstSub' \in [Workers -> BOOLEAN],
         td' \in [Workers -> Seq(1..MaxObjects)], sent' \in [Clients -> Seq(1..MaxObjects)]
  PROVE  TypeOK' /\ MappedWorkerServes' /\ PortsAreLegit' /\ TokensAreOwn' /\ ExitsAreOver'
<1> USE DEF clientVars
<1>1. PortsAreLegit'
  BY TakenPorts
<1>2. call' \in [Clients \cup Workers -> Call \cup {None}]
  BY AnswerToStep DEF IInv
<1>3. TypeOK'
  BY <1>1, <1>2, KeptOrDisposed, LegitPorts DEF IInv, TypeOK
<1>4. MappedWorkerServes'
  BY KeptOrDisposed DEF IInv, MappedWorkerServes
<1> QED
  BY <1>1, <1>3, <1>4 DEF IInv, TokensAreOwn, ExitsAreOver

\* ... so what is left is what it does to the subscriptions.
Handled(w) ==
  /\ wpc[w] = "running" /\ rx[w] # <<>>
  /\ call' = AnswerTo(w, Head(rx[w]))
  /\ UNCHANGED <<prompt, clientVars, owner, takenBy, exits>>

LEMMA UnchangedSubs ==
  ASSUME IInv, NEW w \in Workers, Aged, Handled(w), Head(rx[w]).type # "subscribe",
         Keep(w) \/ DisposeWorker(w), UNCHANGED <<subs, firstSub, sent, td>>
  PROVE  IInv'
<1>1. TypeOK' /\ MappedWorkerServes' /\ PortsAreLegit' /\ TokensAreOwn' /\ ExitsAreOver'
  BY HandledFrame DEF IInv, TypeOK, Handled
<1>2. NobodyElseUnsubscribes'
  BY DEF IInv, NobodyElseUnsubscribes, Handled, clientVars
<1>3. SubscribersServed'
  BY AnswerToStep DEF IInv, SubscribersServed, Excused, Handled, clientVars
<1>4. FirstSubServed'
  BY KeptOrDisposed DEF IInv, FirstSubServed, Handled
<1> QED
  BY <1>1, <1>2, <1>3, <1>4 DEF IInv

LEMMA HandleSubscribeStep ==
  ASSUME IInv, NEW w \in Workers, Aged, Handled(w), Head(rx[w]).type = "subscribe",
         HandleSubscribe(w, Head(rx[w]).from)
  PROVE  IInv'
<1> DEFINE c == Head(rx[w]).from
           O == 1..MaxObjects
<1>1. Keep(w) /\ c \in Clients
  BY TakenPorts DEF HandleSubscribe, Handled, Legit
<1>2. PICK held \in 0..(IF firstSub[w] THEN 0 ELSE Len(td[w])) :
        /\ sent' = [sent EXCEPT ![c] = @ \o SubSeq(td[w], 1, held)]
        /\ td' = [td EXCEPT ![w] = SubSeq(@, held + 1, Len(@))]
  BY DEF HandleSubscribe
<1>3. td[w] \in Seq(O) /\ Len(td[w]) \in Nat /\ \A i \in 1..Len(td[w]) : td[w][i] \in O
  BY LenProperties, ElementOfSeq DEF IInv, TypeOK
<1>4. held \in 0..Len(td[w])
  BY <1>3
<1>5. SubSeq(td[w], 1, held) \in Seq(O) /\ SubSeq(td[w], held + 1, Len(td[w])) \in Seq(O)
  <2>1. /\ \A i \in 1..held : td[w][i] \in O
        /\ \A i \in held + 1..Len(td[w]) : td[w][i] \in O
    BY <1>3, <1>4
  <2> HIDE DEF O
  <2> QED
    BY <1>3, <1>4, <2>1, SubSeqProperties
<1>6. sent[c] \o SubSeq(td[w], 1, held) \in Seq(O)
  BY <1>1, <1>5, ConcatProperties DEF IInv, TypeOK
<1>7. td' \in [Workers -> Seq(O)] /\ sent' \in [Clients -> Seq(O)]
  BY <1>1, <1>2, <1>5, <1>6 DEF IInv, TypeOK
<1>8. /\ subs' \in [Workers -> SUBSET Clients] /\ firstSub' \in [Workers -> BOOLEAN]
      /\ c \in subs'[w] /\ \A v \in Workers : subs[v] \subseteq subs'[v]
      /\ \A v \in Workers \ {w} : firstSub'[v] = firstSub[v]
  BY <1>1 DEF HandleSubscribe, IInv, TypeOK
<1>9. TypeOK' /\ MappedWorkerServes' /\ PortsAreLegit' /\ TokensAreOwn' /\ ExitsAreOver'
  BY <1>1, <1>7, <1>8, HandledFrame DEF Handled
<1>10. NobodyElseUnsubscribes'
  BY <1>8 DEF IInv, TypeOK, NobodyElseUnsubscribes, Handled, clientVars, Tokens
<1>11. SubscribersServed'
  <2> SUFFICES ASSUME NEW d \in Clients
               PROVE  /\ pc'[d] \in {"subscribing", "subscribingToSpawned"} =>
                           call'[d].type = "subscribe"
                      /\ call'[d] # None /\ call'[d].type = "subscribe" /\ call'[d].answered =>
                           d \in subs'[call'[d].to] \/ Excused(d)'
    BY DEF SubscribersServed
  <2>1. CASE call'[d] = call[d]
    BY <1>8, <2>1 DEF IInv, TypeOK, SubscribersServed, Excused, Handled, clientVars, Call
  <2>2. CASE call'[d] # call[d]
    BY <1>8, <2>2, AnswerToStep DEF IInv, Handled
  <2> QED
    BY <2>1, <2>2
<1>12. FirstSubServed'
  BY <1>1, <1>8 DEF IInv, FirstSubServed, Keep, Handled
<1> QED
  BY <1>9, <1>10, <1>11, <1>12 DEF IInv

\* Only an excused client is removed: the token that names it was legitimate.
LEMMA HandleUnsubscribeStep ==
  ASSUME IInv, NEW w \in Workers, Aged, Handled(w), Head(rx[w]).type = "unsubscribe",
         HandleUnsubscribe(w, Head(rx[w]).token)
  PROVE  IInv'
<1> DEFINE t == Head(rx[w]).token
           left == {c \in subs[w] : <<w, c>> # t}
<1>1. /\ Keep(w) \/ DisposeWorker(w)
      /\ subs' = [subs EXCEPT ![w] = left] /\ UNCHANGED <<firstSub, sent, td>>
      /\ left = {} => DisposeWorker(w)
  BY DEF HandleUnsubscribe
<1>2. Head(rx[w]) \in Legit
  BY <1>1, TakenPorts DEF Handled
<1>3. subs \in [Workers -> SUBSET Clients] /\ subs' \in [Workers -> SUBSET Clients]
  BY <1>1 DEF IInv, TypeOK
<1>4. \A c \in Clients, v \in Workers : c \in subs[v] => c \in subs'[v] \/ Excused(c)
  <2> SUFFICES ASSUME NEW c \in Clients, c \in subs[w], c \notin subs'[w] PROVE Excused(c)
    BY <1>1, <1>3
  <2>1. t = <<w, c>>
    BY <1>1, <1>3
  <2>2. <<w, c>> \in Tokens
    BY DEF Tokens
  <2>3. t # None
    BY <2>1, <2>2, NoTokenAssumption
  <2> QED
    BY <1>2, <2>1, <2>3 DEF Legit
<1>5. TypeOK' /\ MappedWorkerServes' /\ PortsAreLegit' /\ TokensAreOwn' /\ ExitsAreOver'
  BY <1>1, <1>3, HandledFrame DEF IInv, TypeOK, Handled
<1>6. NobodyElseUnsubscribes'
  BY <1>4 DEF IInv, TypeOK, NobodyElseUnsubscribes, Excused, Handled, clientVars, Tokens
<1>7. SubscribersServed'
  <2> SUFFICES ASSUME NEW d \in Clients
               PROVE  /\ pc'[d] \in {"subscribing", "subscribingToSpawned"} =>
                           call'[d].type = "subscribe"
                      /\ call'[d] # None /\ call'[d].type = "subscribe" /\ call'[d].answered =>
                           d \in subs'[call'[d].to] \/ Excused(d)'
    BY DEF SubscribersServed
  <2>1. CASE call'[d] = call[d]
    BY <1>4, <2>1 DEF IInv, TypeOK, SubscribersServed, Excused, Handled, clientVars, Call
  <2>2. CASE call'[d] # call[d]
    <3>1. call[d].type = "unsubscribe" /\ call'[d].type = "unsubscribe"
      BY <2>2, AnswerToStep DEF IInv, Handled
    <3> QED
      BY <3>1 DEF IInv, SubscribersServed, Handled, clientVars
  <2> QED
    BY <2>1, <2>2
<1>8. FirstSubServed'
  BY <1>1, <1>3 DEF IInv, TypeOK, FirstSubServed, Keep, DisposeWorker, Handled
<1> QED
  BY <1>5, <1>6, <1>7, <1>8 DEF IInv

LEMMA RegistrantListenerStep ==
  ASSUME IInv, NEW w \in Workers, RegistrantListener(w), Aged PROVE IInv'
<1>1. Handled(w)
  BY DEF RegistrantListener, Handled
<1>2. CASE Head(rx[w]).type = "ping"
  BY <1>1, <1>2, UnchangedSubs DEF RegistrantListener
<1>3. CASE Head(rx[w]).type = "subscribe"
  BY <1>1, <1>3, HandleSubscribeStep DEF RegistrantListener
<1>4. CASE Head(rx[w]).type = "unsubscribe"
  BY <1>1, <1>4, HandleUnsubscribeStep DEF RegistrantListener
<1>5. CASE Head(rx[w]).type = "unmap"
  BY <1>1, <1>5, UnchangedSubs DEF RegistrantListener
<1> QED
  BY <1>2, <1>3, <1>4, <1>5 DEF RegistrantListener

-----------------------------------------------------------------------------
(* The invariant *)

LEMMA InitIInv == Init => IInv
<1> SUFFICES ASSUME Init PROVE IInv
  OBVIOUS
<1>1. TypeOK
  BY RxWorkerAssumption, EmptySeq DEF Init, TypeOK, ClientPC, WorkerPC
<1>2. PortsAreLegit
  BY EmptySeq DEF Init, PortsAreLegit
<1> QED
  BY <1>1, <1>2 DEF Init, IInv, MappedWorkerServes, NobodyElseUnsubscribes, SubscribersServed,
                    TokensAreOwn, ExitsAreOver, FirstSubServed

LEMMA NextIInv == IInv /\ [Next]_vars => IInv'
<1> SUFFICES ASSUME IInv, [Next]_vars PROVE IInv'
  OBVIOUS
<1>1. ASSUME Next PROVE IInv'
  <2> USE <1>1
  <2>1. Aged
    BY NextAges DEF IInv
  <2>2. ASSUME NEW c \in Clients, Start(c) \/ ClientStep(c) PROVE IInv'
    BY <2>1, <2>2, StartStep, PingAnsweredStep, PingTimesOutStep, WorkerRepliesStep,
       SubscribeAnsweredStep, SubscribeTimesOutStep DEF ClientStep
  <2>3. ASSUME NEW c \in Clients, Dispose(c) \/ Exit(c) PROVE IInv'
    BY <2>1, <2>3, DisposeStep, ExitStep
  <2>4. ASSUME NEW w \in Workers, WorkerStep(w) PROVE IInv'
    BY <2>1, <2>4, LookUpStep, UnmapAnsweredStep, UnmapTimesOutStep, RegisterStep, RunStep,
       RegistrantListenerStep DEF WorkerStep
  <2>5. ASSUME NEW w \in Workers, Restart(w) \/ Receive(w) \/ TdListener(w) \/ ReceiverEnds(w)
        PROVE  IInv'
    BY <2>1, <2>5, RestartStep, ReceiveStep, TdListenerStep, ReceiverEndsStep
  <2>6. ASSUME NEW t \in Tokens, ExitListener(t) PROVE IInv'
    BY <2>1, <2>6, ExitListenerStep
  <2> QED
    BY <2>2, <2>3, <2>4, <2>5, <2>6 DEF Next
<1>2. ASSUME UNCHANGED vars PROVE IInv'
  <2>1. UNCHANGED <<prompt, registered, pc, reply, token, disposals, call, wpc, owner, rx, subs,
                    firstSub, receiver, takenBy, td, sent, exits>>
    BY <1>2 DEF vars, clientVars, workerVars, objectVars
  <2>2. Aged
    BY <2>1 DEF Aged, Excused
  <2> QED
    BY <2>1, <2>2, OnlyObjectsStep DEF OnlyObjects, IInv, TypeOK
<1> QED
  BY <1>1, <1>2

LEMMA IInvAlways == Spec => []IInv
<1> QED
  BY InitIInv, NextIInv, PTL DEF Spec

\* Every variable keeps its type.
THEOREM TypeCorrect == Spec => []TypeOK
<1>1. IInv => TypeOK
  BY DEF IInv
<1> QED
  BY <1>1, IInvAlways, PTL

\* However late unmappings, pings and unsubscriptions are, and whoever's name
\* they remove, IsolateNameServer never offers a port that has been closed.
THEOREM MappedAlwaysServes == Spec => []MappedWorkerServes
<1>1. IInv => MappedWorkerServes
  BY DEF IInv
<1> QED
  BY <1>1, IInvAlways, PTL

\* A client that has a token and has neither disposed nor exited is among the
\* subscribers of the worker that gave it, whatever the other isolates do.
THEOREM OnlyOwnersUnsubscribe == Spec => []NobodyElseUnsubscribes
<1>1. IInv => NobodyElseUnsubscribes
  BY DEF IInv
<1> QED
  BY <1>1, IInvAlways, PTL

\* Completer.complete() of _firstSub never throws: a worker without
\* subscribers that has had one is disposed of and handles no message.
THEOREM FirstSubCompletedOnce == Spec => FirstSubOnce
<1> DEFINE Once == \A w \in Workers : subs[w] = {} /\ subs'[w] # {} => ~firstSub[w]
<1>1. ASSUME IInv, [Next]_vars PROVE Once
  <2> SUFFICES ASSUME NEW w \in Workers, subs[w] = {}, subs'[w] # {}, firstSub[w] PROVE FALSE
    OBVIOUS
  <2>1. ASSUME NEW c \in Clients, Start(c) \/ ClientStep(c) \/ Dispose(c) \/ Exit(c) PROVE FALSE
    BY <2>1 DEF Start, ClientStep, PingAnswered, PingTimesOut, WorkerReplies, SubscribeAnswered,
                SubscribeTimesOut, Dispose, Exit, workerVars
  <2>2. ASSUME NEW v \in Workers, RegistrantListener(v) PROVE FALSE
    <3>1. v # w
      <4>1. wpc[v] = "running"
        BY <2>2 DEF RegistrantListener
      <4> QED
        BY <1>1, <4>1 DEF IInv, FirstSubServed
    <3>2. subs \in [Workers -> SUBSET Clients]
      BY <1>1 DEF IInv, TypeOK
    <3>3. \E S : subs' = [subs EXCEPT ![v] = S] \/ subs' = subs
      BY <2>2 DEF RegistrantListener, HandleSubscribe, HandleUnsubscribe
    <3> QED
      BY <3>1, <3>2, <3>3
  <2>3. ASSUME NEW v \in Workers,
               LookUp(v) \/ UnmapAnswered(v) \/ UnmapTimesOut(v) \/ Register(v) \/ Run(v)
        PROVE  FALSE
    BY <2>3 DEF LookUp, UnmapAnswered, UnmapTimesOut, Register, Run
  <2>4. ASSUME NEW v \in Workers, Restart(v) \/ Receive(v) \/ TdListener(v) \/ ReceiverEnds(v)
        PROVE  FALSE
    BY <2>4 DEF Restart, Receive, TdListener, ReceiverEnds, workerVars
  <2>5. ASSUME NEW t \in Tokens, ExitListener(t) PROVE FALSE
    BY <2>5 DEF ExitListener, workerVars
  <2>6. CASE UNCHANGED vars
    BY <2>6 DEF vars, workerVars
  <2> QED
    BY <1>1, <2>1, <2>2, <2>3, <2>4, <2>5, <2>6 DEF Next, WorkerStep
<1> QED
  BY <1>1, IInvAlways, PTL DEF Spec, FirstSubOnce

-----------------------------------------------------------------------------
(* Objects: none is lost while its worker runs *)

\* A receiver lives while its worker runs and is killed with it; objects come from
\* workers that run or did.
ReceiversServe ==
  /\ \A w \in Workers : /\ receiver[w] = "live" => wpc[w] = "running"
                        /\ receiver[w] = "killed" => wpc[w] = "disposed"
  /\ \A n \in DOMAIN takenBy : wpc[takenBy[n]] \in {"running", "disposed"}

ObjInv == ReceiversServe /\ NothingMissed

\* The n-th object waits at w, or somebody has it.
Kept(n, w) == n \in ToSet(td[w]) \/ \E c \in Clients : n \in ToSet(sent[c])

\* A step that moves no object: workers begin to run or are disposed of.
ObjectsStill ==
  /\ UNCHANGED objectVars
  /\ \A w \in Workers :
       /\ wpc[w] = "running" => wpc'[w] \in {"running", "disposed"}
       /\ wpc[w] = "disposed" => wpc'[w] = "disposed"
       /\ \/ receiver'[w] = receiver[w] /\ (wpc'[w] = wpc[w] \/ wpc[w] \notin {"running", "disposed"})
          \/ receiver'[w] = "none"
          \/ receiver'[w] = "live" /\ wpc'[w] = "running"
          \/ receiver'[w] = "killed" /\ wpc'[w] = "disposed"

LEMMA ObjectsStillKeep == ASSUME TypeOK, ObjInv, ObjectsStill PROVE ObjInv'
<1>1. takenBy' = takenBy /\ td' = td /\ sent' = sent
  BY DEF ObjectsStill, objectVars
<1>2. \A n \in DOMAIN takenBy : takenBy[n] \in Workers
  BY ElementOfSeq, LenProperties DEF TypeOK
<1>3. ReceiversServe'
  BY <1>1, <1>2 DEF ObjInv, ReceiversServe, ObjectsStill
<1>4. NothingMissed'
  <2>1. SUFFICES ASSUME NEW n \in DOMAIN takenBy, wpc'[takenBy[n]] = "running"
                 PROVE  Kept(n, takenBy[n])
    BY <1>1 DEF NothingMissed, Kept
  <2>2. wpc[takenBy[n]] = "running"
    BY <1>2, <2>1 DEF ObjInv, ReceiversServe, ObjectsStill
  <2> QED
    BY <2>2 DEF ObjInv, NothingMissed, Kept
<1> QED
  BY <1>3, <1>4 DEF ObjInv

\* What sequences keep when elements move from one to another.
LEMMA ToSets ==
  ASSUME NEW T, NEW s \in Seq(T)
  PROVE  /\ \A e \in T : /\ Append(s, e) \in Seq(T)
                         /\ ToSet(Append(s, e)) = ToSet(s) \cup {e}
         /\ s # <<>> => ToSet(s) = {Head(s)} \cup ToSet(Tail(s))
<1>1. Len(s) \in Nat /\ DOMAIN s = 1..Len(s)
  BY LenProperties
<1>2. ASSUME NEW e \in T PROVE Append(s, e) \in Seq(T) /\ ToSet(Append(s, e)) = ToSet(s) \cup {e}
  <2> DEFINE t == Append(s, e)
  <2>1. /\ t \in Seq(T) /\ Len(t) = Len(s) + 1 /\ t[Len(s) + 1] = e
        /\ \A i \in 1..Len(s) : t[i] = s[i]
    BY AppendProperties
  <2>2. DOMAIN t = 1..(Len(s) + 1)
    BY <2>1, LenProperties
  <2> HIDE DEF t
  <2>3. 1..(Len(s) + 1) = 1..Len(s) \cup {Len(s) + 1}
    BY <1>1
  <2>4. ToSet(t) = {t[i] : i \in 1..Len(s)} \cup {t[Len(s) + 1]}
    BY <2>2, <2>3 DEF ToSet
  <2>5. {t[i] : i \in 1..Len(s)} = ToSet(s)
    BY <1>1, <2>1 DEF ToSet
  <2> QED
    BY <2>1, <2>4, <2>5 DEF t
<1>3. ASSUME s # <<>> PROVE ToSet(s) = {Head(s)} \cup ToSet(Tail(s))
  <2>1. /\ Head(s) = s[1] /\ Tail(s) \in Seq(T) /\ Len(Tail(s)) = Len(s) - 1
        /\ \A i \in 1..(Len(s) - 1) : Tail(s)[i] = s[i + 1]
    BY <1>3, HeadTailProperties
  <2>2. Len(s) > 0 /\ DOMAIN Tail(s) = 1..(Len(s) - 1)
    BY <1>1, <1>3, <2>1, EmptySeq, LenProperties
  <2>3. ASSUME NEW e \in ToSet(s) PROVE e \in {Head(s)} \cup ToSet(Tail(s))
    <3>1. PICK i \in 1..Len(s) : e = s[i]
      BY <1>1 DEF ToSet
    <3>2. CASE i = 1
      BY <2>1, <3>1, <3>2
    <3>3. CASE i # 1
      <4>1. i - 1 \in 1..(Len(s) - 1) /\ (i - 1) + 1 = i
        BY <1>1, <3>3
      <4>2. Tail(s)[i - 1] = s[(i - 1) + 1]
        BY <2>1, <4>1
      <4> QED
        BY <2>2, <3>1, <4>1, <4>2 DEF ToSet
    <3> QED
      BY <3>2, <3>3
  <2>4. ASSUME NEW e \in ToSet(Tail(s)) PROVE e \in ToSet(s)
    <3>1. PICK i \in 1..(Len(s) - 1) : e = Tail(s)[i]
      BY <2>2 DEF ToSet
    <3>2. i + 1 \in 1..Len(s) /\ e = s[i + 1]
      BY <1>1, <2>1, <3>1
    <3> QED
      BY <1>1, <3>2 DEF ToSet
  <2>5. Head(s) \in ToSet(s)
    BY <1>1, <2>1, <2>2 DEF ToSet
  <2> QED
    BY <2>3, <2>4, <2>5
<1> QED
  BY <1>2, <1>3

LEMMA Split ==
  ASSUME NEW T, NEW s \in Seq(T), NEW t \in Seq(T), NEW k \in 0..Len(s)
  PROVE  /\ ToSet(s) \subseteq ToSet(t \o SubSeq(s, 1, k)) \cup ToSet(SubSeq(s, k + 1, Len(s)))
         /\ ToSet(t) \subseteq ToSet(t \o SubSeq(s, 1, k))
<1>1. Len(s) \in Nat /\ DOMAIN s = 1..Len(s) /\ Len(t) \in Nat /\ DOMAIN t = 1..Len(t)
      /\ k \in Nat /\ k <= Len(s)
  BY LenProperties
<1> DEFINE a == SubSeq(s, 1, k)
           b == SubSeq(s, k + 1, Len(s))
<1>2. a \in Seq(T) /\ Len(a) = k /\ \A i \in 1..k : a[i] = s[i]
  <2>1. /\ a \in Seq(T) /\ Len(a) = IF 1 <= k THEN k - 1 + 1 ELSE 0
        /\ \A i \in 1..(k - 1 + 1) : a[i] = s[1 + i - 1]
    BY <1>1, SubSeqProperties
  <2>2. \A i \in 1..k : i \in 1..(k - 1 + 1) /\ 1 + i - 1 = i
    BY <1>1
  <2> QED
    BY <1>1, <2>1, <2>2
<1>3. b \in Seq(T) /\ Len(b) = Len(s) - k /\ \A i \in 1..(Len(s) - k) : b[i] = s[k + i]
  <2>1. /\ b \in Seq(T) /\ Len(b) = IF k + 1 <= Len(s) THEN Len(s) - (k + 1) + 1 ELSE 0
        /\ \A i \in 1..(Len(s) - (k + 1) + 1) : b[i] = s[(k + 1) + i - 1]
    BY <1>1, SubSeqProperties
  <2>2. \A i \in 1..(Len(s) - k) : i \in 1..(Len(s) - (k + 1) + 1) /\ (k + 1) + i - 1 = k + i
    BY <1>1
  <2> HIDE DEF b
  <2>3. Len(b) = Len(s) - k
    <3>1. Len(b) = IF k + 1 <= Len(s) THEN Len(s) - (k + 1) + 1 ELSE 0
      BY <2>1
    <3>2. CASE k + 1 <= Len(s)
      <4>1. Len(s) - (k + 1) + 1 = Len(s) - k
        BY <1>1
      <4> QED
        BY <3>1, <3>2, <4>1
    <3>3. CASE ~(k + 1 <= Len(s))
      <4>1. Len(s) - k = 0
        <5>1. \A n, m \in Nat : m <= n /\ ~(m + 1 <= n) => n - m = 0
          OBVIOUS
        <5>2. Len(s) \in Nat /\ k \in Nat /\ k <= Len(s)
          BY <1>1
        <5> QED
          BY <3>3, <5>1, <5>2
      <4> QED
        BY <3>1, <3>3, <4>1
    <3> QED
      BY <3>2, <3>3
  <2>4. \A i \in 1..(Len(s) - k) : b[i] = s[k + i]
    <3>1. SUFFICES ASSUME NEW i \in 1..(Len(s) - k) PROVE b[i] = s[k + i]
      OBVIOUS
    <3>2. b[i] = s[(k + 1) + i - 1] /\ (k + 1) + i - 1 = k + i
      BY <2>1, <2>2
    <3> QED
      BY <3>2
  <2> QED
    BY <2>1, <2>3, <2>4
<1> HIDE DEF a, b
<1> DEFINE u == t \o a
<1>4. /\ u \in Seq(T) /\ Len(u) = Len(t) + k
      /\ \A i \in 1..(Len(t) + k) : u[i] = IF i <= Len(t) THEN t[i] ELSE a[i - Len(t)]
  BY <1>2, ConcatProperties
<1> HIDE DEF u
<1>5. DOMAIN u = 1..(Len(t) + k) /\ DOMAIN b = 1..(Len(s) - k)
  BY <1>3, <1>4, LenProperties
<1>6. ASSUME NEW e \in ToSet(t) PROVE e \in ToSet(u)
  <2>1. PICK i \in 1..Len(t) : e = t[i]
    BY <1>1 DEF ToSet
  <2>2. i \in 1..(Len(t) + k) /\ i <= Len(t)
    BY <1>1
  <2> QED
    BY <1>4, <1>5, <2>1, <2>2 DEF ToSet
<1>7. ASSUME NEW e \in ToSet(s) PROVE e \in ToSet(u) \cup ToSet(b)
  <2>1. PICK i \in 1..Len(s) : e = s[i]
    BY <1>1 DEF ToSet
  <2>2. CASE i <= k
    <3>1. Len(t) + i \in 1..(Len(t) + k) /\ ~(Len(t) + i <= Len(t)) /\ (Len(t) + i) - Len(t) = i /\ i \in 1..k
      BY <1>1, <2>2
    <3>2. u[Len(t) + i] = s[i]
      BY <1>2, <1>4, <3>1
    <3> QED
      BY <1>5, <2>1, <3>1, <3>2 DEF ToSet
  <2>3. CASE i > k
    <3>1. i - k \in 1..(Len(s) - k) /\ k + (i - k) = i
      BY <1>1, <2>3
    <3>2. b[i - k] = s[k + (i - k)]
      BY <1>3, <3>1
    <3> QED
      BY <1>5, <2>1, <3>1, <3>2 DEF ToSet
  <2> QED
    BY <1>1, <2>2, <2>3
<1> QED
  BY <1>6, <1>7 DEF u, a, b

LEMMA ClientsMoveNoObject ==
  ASSUME IInv, NEW c \in Clients, Start(c) \/ ClientStep(c) \/ Dispose(c) \/ Exit(c)
  PROVE  ObjectsStill
<1>1. UNCHANGED <<objectVars, receiver>>
  BY DEF Start, ClientStep, PingAnswered, PingTimesOut, WorkerReplies, SubscribeAnswered,
         SubscribeTimesOut, Dispose, Exit, workerVars
<1>2. wpc' = wpc \/ \E w \in Unborn : wpc' = [wpc EXCEPT ![w] = "looking"]
  BY DEF Start, ClientStep, PingAnswered, PingTimesOut, WorkerReplies, SubscribeAnswered,
         SubscribeTimesOut, Dispose, Exit, workerVars, Spawn
<1>3. wpc \in [Workers -> WorkerPC]
  BY DEF IInv, TypeOK
<1> QED
  BY <1>1, <1>2, <1>3 DEF ObjectsStill, Unborn

LEMMA WorkersMoveNoObject ==
  ASSUME IInv, ObjInv, NEW w \in Workers,
         \/ LookUp(w) \/ UnmapAnswered(w) \/ UnmapTimesOut(w) \/ Register(w) \/ Run(w)
         \/ Restart(w) \/ ReceiverEnds(w)
  PROVE  ObjectsStill
<1>1. wpc \in [Workers -> WorkerPC] /\ receiver \in [Workers -> {"none", "live", "killed"}]
  BY DEF IInv, TypeOK
<1>2. CASE LookUp(w) \/ UnmapAnswered(w) \/ UnmapTimesOut(w) \/ Register(w)
  BY <1>1, <1>2 DEF LookUp, UnmapAnswered, UnmapTimesOut, Register, ObjectsStill
<1>3. CASE Run(w)
  BY <1>1, <1>3 DEF Run, ObjectsStill
<1>4. CASE Restart(w)
  BY <1>1, <1>4 DEF Restart, Unborn, ObjectsStill
<1>5. CASE ReceiverEnds(w)
  BY <1>1, <1>5 DEF ReceiverEnds, ObjectsStill
<1> QED
  BY <1>2, <1>3, <1>4, <1>5

LEMMA ReceivedIsKept == ASSUME IInv, ObjInv, NEW w \in Workers, Receive(w) PROVE ObjInv'
<1>1. /\ takenBy \in Seq(Workers) /\ Len(takenBy) \in Nat /\ DOMAIN takenBy = 1..Len(takenBy)
      /\ td \in [Workers -> Seq(1..MaxObjects)] /\ MaxObjects \in Nat /\ Len(takenBy) < MaxObjects
  BY LenProperties, RxWorkerAssumption DEF IInv, TypeOK, Receive
<1> DEFINE n == Len(takenBy) + 1
<1>2. /\ takenBy' = Append(takenBy, w) /\ takenBy' \in Seq(Workers) /\ Len(takenBy') = n
      /\ takenBy'[n] = w /\ \A k \in 1..Len(takenBy) : takenBy'[k] = takenBy[k]
  BY <1>1, AppendProperties DEF Receive
<1>3. DOMAIN takenBy' = 1..n
  BY <1>2, LenProperties
<1>4. n \in 1..MaxObjects /\ 1..n = 1..Len(takenBy) \cup {n}
  BY <1>1
<1> HIDE DEF n
<1>5. UNCHANGED <<wpc, receiver, sent>>
  BY DEF Receive, workerVars
<1>6. wpc[w] \in {"running", "disposed"}
  BY DEF Receive, ObjInv, ReceiversServe
<1>7. ReceiversServe'
  BY <1>1, <1>2, <1>3, <1>4, <1>5, <1>6 DEF ObjInv, ReceiversServe
<1>8. ToSet(Append(td[w], n)) = ToSet(td[w]) \cup {n}
  BY <1>1, <1>4, ToSets
<1>9. \/ td' = [td EXCEPT ![w] = Append(@, n)]
      \/ td' = td /\ wpc[w] = "disposed"
  BY <1>2, <1>5 DEF Receive, ObjInv, ReceiversServe
<1>10. \A v \in Workers : ToSet(td[v]) \subseteq ToSet(td'[v])
  BY <1>1, <1>8, <1>9
<1>11. NothingMissed'
  <2>1. SUFFICES ASSUME NEW k \in 1..n, wpc[takenBy'[k]] = "running"
                 PROVE  k \in ToSet(td'[takenBy'[k]]) \/ \E c \in Clients : k \in ToSet(sent[c])
    BY <1>3, <1>5 DEF NothingMissed
  <2>2. CASE k = n
    <3>1. takenBy'[k] = w /\ wpc[w] = "running"
      BY <1>2, <2>1, <2>2
    <3>2. td'[w] = Append(td[w], n)
      <4>1. wpc[w] # "disposed"
        BY <3>1
      <4> QED
        BY <1>1, <1>9, <4>1
    <3>3. k \in ToSet(td'[w])
      BY <1>8, <2>2, <3>2
    <3> QED
      BY <3>1, <3>3
  <2>3. CASE k \in 1..Len(takenBy)
    <3>1. takenBy'[k] = takenBy[k] /\ takenBy[k] \in Workers
      BY <1>1, <1>2, <2>3, ElementOfSeq
    <3> QED
      BY <1>1, <1>10, <2>1, <2>3, <3>1 DEF ObjInv, NothingMissed
  <2> QED
    BY <1>4, <2>2, <2>3
<1> QED
  BY <1>7, <1>11 DEF ObjInv

\* An object leaves the queue for the ports of all subscribers, of which there is one.
LEMMA ForwardedIsSent == ASSUME IInv, ObjInv, NEW w \in Workers, TdListener(w) PROVE ObjInv'
<1>1. UNCHANGED <<wpc, receiver, takenBy>>
  BY DEF TdListener, workerVars
<1>2. /\ td \in [Workers -> Seq(1..MaxObjects)] /\ sent \in [Clients -> Seq(1..MaxObjects)]
      /\ td[w] # <<>> /\ firstSub[w] /\ subs \in [Workers -> SUBSET Clients]
  BY DEF IInv, TypeOK, TdListener
<1>3. Head(td[w]) \in 1..MaxObjects
  BY <1>2, HeadTailProperties
<1>4. ToSet(td[w]) = {Head(td[w])} \cup ToSet(Tail(td[w]))
  BY <1>2, ToSets
<1>5. \A c \in Clients : /\ ToSet(sent[c]) \subseteq ToSet(sent'[c])
                         /\ c \in subs[w] => Head(td[w]) \in ToSet(sent'[c])
  <2>1. \A c \in Clients : ToSet(Append(sent[c], Head(td[w]))) = ToSet(sent[c]) \cup {Head(td[w])}
    BY <1>2, <1>3, ToSets
  <2>2. \A c \in Clients : sent'[c] = IF c \in subs[w] THEN Append(sent[c], Head(td[w])) ELSE sent[c]
    BY DEF TdListener
  <2> QED
    BY <2>1, <2>2
<1>6. td'[w] = Tail(td[w]) /\ \A v \in Workers \ {w} : td'[v] = td[v]
  BY <1>2 DEF TdListener
<1>7. ReceiversServe'
  BY <1>1 DEF ObjInv, ReceiversServe
<1>8. NothingMissed'
  <2>1. SUFFICES ASSUME NEW k \in DOMAIN takenBy, wpc[takenBy[k]] = "running"
                 PROVE  k \in ToSet(td'[takenBy[k]]) \/ \E c \in Clients : k \in ToSet(sent'[c])
    BY <1>1 DEF NothingMissed
  <2>2. k \in ToSet(td[takenBy[k]]) \/ \E c \in Clients : k \in ToSet(sent[c])
    BY <2>1 DEF ObjInv, NothingMissed
  <2>3. takenBy[k] \in Workers
    BY ElementOfSeq, LenProperties DEF IInv, TypeOK
  <2>4. CASE takenBy[k] = w /\ k = Head(td[w])
    <3>1. subs[w] # {}
      BY <1>2, <2>1, <2>4 DEF IInv, FirstSubServed
    <3>2. PICK c \in subs[w] : TRUE
      BY <3>1
    <3> QED
      BY <1>2, <1>5, <2>4, <3>2
  <2>5. CASE ~(takenBy[k] = w /\ k = Head(td[w]))
    BY <1>4, <1>5, <1>6, <2>2, <2>3, <2>5
  <2> QED
    BY <2>4, <2>5
<1> QED
  BY <1>7, <1>8 DEF ObjInv

\* The first subscriber is sent what was held for it.
LEMMA HeldIsSent ==
  ASSUME IInv, ObjInv, NEW w \in Workers, NEW c \in Clients, HandleSubscribe(w, c),
         UNCHANGED takenBy
  PROVE  ObjInv'
<1>1. UNCHANGED <<wpc, receiver, takenBy>>
  BY DEF HandleSubscribe, Keep
<1>2. td \in [Workers -> Seq(1..MaxObjects)] /\ sent \in [Clients -> Seq(1..MaxObjects)]
  BY DEF IInv, TypeOK
<1>3. Len(td[w]) \in Nat
  BY <1>2, LenProperties
<1>4. PICK held \in 0..(IF firstSub[w] THEN 0 ELSE Len(td[w])) :
        /\ sent' = [sent EXCEPT ![c] = @ \o SubSeq(td[w], 1, held)]
        /\ td' = [td EXCEPT ![w] = SubSeq(@, held + 1, Len(@))]
  BY DEF HandleSubscribe
<1>5. held \in 0..Len(td[w])
  BY <1>3
<1>6. /\ ToSet(td[w]) \subseteq ToSet(sent[c] \o SubSeq(td[w], 1, held))
                                  \cup ToSet(SubSeq(td[w], held + 1, Len(td[w])))
      /\ ToSet(sent[c]) \subseteq ToSet(sent[c] \o SubSeq(td[w], 1, held))
  <2> DEFINE T == 1..MaxObjects
  <2>1. td[w] \in Seq(T) /\ sent[c] \in Seq(T)
    BY <1>2
  <2> HIDE DEF T
  <2> QED
    BY <1>5, <2>1, Split
<1>7. /\ ToSet(td[w]) \subseteq ToSet(sent'[c]) \cup ToSet(td'[w])
      /\ \A d \in Clients : ToSet(sent[d]) \subseteq ToSet(sent'[d])
      /\ \A v \in Workers \ {w} : td'[v] = td[v]
  <2>1. /\ sent'[c] = sent[c] \o SubSeq(td[w], 1, held)
        /\ td'[w] = SubSeq(td[w], held + 1, Len(td[w]))
        /\ \A v \in Workers \ {w} : td'[v] = td[v]
        /\ \A d \in Clients \ {c} : sent'[d] = sent[d]
    BY <1>2, <1>4
  <2> QED
    BY <1>6, <2>1
<1>8. ReceiversServe'
  BY <1>1 DEF ObjInv, ReceiversServe
<1>9. NothingMissed'
  <2>1. SUFFICES ASSUME NEW k \in DOMAIN takenBy, wpc[takenBy[k]] = "running"
                 PROVE  k \in ToSet(td'[takenBy[k]]) \/ \E d \in Clients : k \in ToSet(sent'[d])
    BY <1>1 DEF NothingMissed
  <2>2. k \in ToSet(td[takenBy[k]]) \/ \E d \in Clients : k \in ToSet(sent[d])
    BY <2>1 DEF ObjInv, NothingMissed
  <2>3. takenBy[k] \in Workers
    BY ElementOfSeq, LenProperties DEF IInv, TypeOK
  <2> QED
    BY <1>7, <2>2, <2>3
<1> QED
  BY <1>8, <1>9 DEF ObjInv

LEMMA HandledKeepsObjects ==
  ASSUME IInv, ObjInv, NEW w \in Workers, RegistrantListener(w) PROVE ObjInv'
<1>1. Handled(w)
  BY DEF RegistrantListener, Handled
<1>2. CASE Head(rx[w]).type = "subscribe"
  <2>1. HandleSubscribe(w, Head(rx[w]).from)
    BY <1>2 DEF RegistrantListener
  <2>2. rx[w] \in Seq(Legit)
    BY DEF IInv, PortsAreLegit
  <2>3. Head(rx[w]) \in Legit
    BY <1>1, <2>2, HeadTailProperties DEF Handled
  <2>4. Head(rx[w]).from \in Clients
    BY <1>2, <2>3 DEF Legit
  <2> QED
    BY <1>1, <2>1, <2>4, HeldIsSent DEF Handled
<1>3. CASE Head(rx[w]).type # "subscribe"
  <2>1. Keep(w) \/ DisposeWorker(w)
    BY <1>3 DEF RegistrantListener, HandleUnsubscribe
  <2>2. UNCHANGED <<takenBy, td, sent>>
    BY <1>3 DEF RegistrantListener, HandleUnsubscribe
  <2>3. wpc \in [Workers -> WorkerPC] /\ receiver \in [Workers -> {"none", "live", "killed"}]
    BY DEF IInv, TypeOK
  <2>4. ObjectsStill
    BY <2>1, <2>2, <2>3 DEF Keep, DisposeWorker, ObjectsStill, objectVars
  <2> QED
    BY <2>4, ObjectsStillKeep DEF IInv
<1> QED
  BY <1>2, <1>3

LEMMA ObjInvSteps == IInv /\ ObjInv /\ [Next]_vars => ObjInv'
<1> SUFFICES ASSUME IInv, ObjInv, [Next]_vars PROVE ObjInv'
  OBVIOUS
<1>0. TypeOK
  BY DEF IInv
<1>1. ASSUME NEW c \in Clients, Start(c) \/ ClientStep(c) \/ Dispose(c) \/ Exit(c) PROVE ObjInv'
  BY <1>0, <1>1, ClientsMoveNoObject, ObjectsStillKeep
<1>2. ASSUME NEW w \in Workers,
             \/ LookUp(w) \/ UnmapAnswered(w) \/ UnmapTimesOut(w) \/ Register(w) \/ Run(w)
             \/ Restart(w) \/ ReceiverEnds(w)
      PROVE  ObjInv'
  BY <1>0, <1>2, WorkersMoveNoObject, ObjectsStillKeep
<1>3. ASSUME NEW w \in Workers, RegistrantListener(w) PROVE ObjInv'
  BY <1>3, HandledKeepsObjects
<1>4. ASSUME NEW w \in Workers, Receive(w) \/ TdListener(w) PROVE ObjInv'
  BY <1>4, ReceivedIsKept, ForwardedIsSent
<1>5. ASSUME NEW t \in Tokens, ExitListener(t) PROVE ObjInv'
  <2>1. ObjectsStill
    BY <1>5 DEF ExitListener, ObjectsStill, workerVars
  <2> QED
    BY <1>0, <2>1, ObjectsStillKeep
<1>6. CASE UNCHANGED vars
  BY <1>6 DEF vars, objectVars, workerVars, ObjInv, ReceiversServe, NothingMissed
<1> QED
  BY <1>1, <1>2, <1>3, <1>4, <1>5, <1>6 DEF Next, WorkerStep

\* An object that reaches a worker before anybody has subscribed waits for the first
\* subscriber; none is lost between the queue and the ports while the worker runs.
THEOREM NoObjectMissed == Spec => []NothingMissed
<1>1. Init => ObjInv
  BY DEF Init, ObjInv, ReceiversServe, NothingMissed
<1>2. ObjInv => NothingMissed
  BY DEF ObjInv
<1> QED
  BY <1>1, <1>2, IInvAlways, ObjInvSteps, PTL DEF Spec

-----------------------------------------------------------------------------
(* One subscription: a client asks one worker at a time *)

\* A request of c to subscribe waits in the port of w.
Asks(w, c) == \E i \in DOMAIN rx[w] : rx[w][i].type = "subscribe" /\ rx[w][i].from = c

\* c is subscribed to w or may still be; a broken worker reads no message.
Place(c, w) == c \in subs[w] \/ (wpc[w] # "broken" /\ Asks(w, c))

BeforeAsking == {"off", "pinging", "spawning"}

Waits(c) ==
  /\ pc[c] \in {"subscribing", "subscribingToSpawned"}
  /\ call[c] # None /\ ~call[c].answered

OnePlace == \A c \in Clients, v, w \in Workers : Place(c, v) /\ Place(c, w) => v = w
NotYet == \A c \in Clients : pc[c] \in BeforeAsking => \A w \in Workers : ~Place(c, w)

\* While c waits, its one place is in the port of the worker it has asked.
Asking ==
  \A c \in Clients : Waits(c) =>
    \A w \in Workers : Place(c, w) => w = call[c].to /\ c \notin subs[w]

PortsAreClosed == \A w \in Workers, c \in Clients : wpc[w] = "disposed" => ~Asks(w, c)

OneInv == PortsAreClosed /\ (prompt => OnePlace /\ NotYet /\ Asking)

\* A step in which nobody asks or begins to wait, and nobody is subscribed.
Calm ==
  /\ UNCHANGED prompt
  /\ \A w \in Workers :
       /\ subs'[w] \subseteq subs[w]
       /\ wpc[w] = "broken" => wpc'[w] = "broken"
       /\ \A c \in Clients : Asks(w, c)' => Asks(w, c)
       /\ wpc'[w] = "disposed" => wpc[w] = "disposed" \/ \A c \in Clients : ~Asks(w, c)'
  /\ \A c \in Clients :
       /\ pc'[c] \in BeforeAsking => pc[c] \in BeforeAsking
       /\ Waits(c)' => Waits(c) /\ call'[c] = call[c]

LEMMA CalmKeeps == ASSUME OneInv, Calm PROVE OneInv'
<1>1. PortsAreClosed'
  BY DEF OneInv, PortsAreClosed, Calm
<1>2. \A c \in Clients, w \in Workers : Place(c, w)' => Place(c, w) /\ (c \in subs'[w] => c \in subs[w])
  BY DEF Calm, Place
<1>3. ASSUME prompt' PROVE OnePlace' /\ NotYet' /\ Asking'
  <2>1. OnePlace /\ NotYet /\ Asking
    BY <1>3 DEF OneInv, Calm
  <2>2. OnePlace'
    BY <1>2, <2>1 DEF OnePlace
  <2>3. NotYet'
    BY <1>2, <2>1 DEF NotYet, Calm
  <2>4. Asking'
    <3>1. SUFFICES ASSUME NEW c \in Clients, Waits(c)', NEW w \in Workers, Place(c, w)'
                   PROVE  w = call'[c].to /\ c \notin subs'[w]
      BY DEF Asking
    <3>2. Waits(c) /\ call'[c] = call[c] /\ subs'[w] \subseteq subs[w]
      BY <3>1 DEF Calm
    <3>3. Place(c, w)
      BY <1>2, <3>1
    <3> QED
      BY <2>1, <3>2, <3>3 DEF Asking
  <2> QED
    BY <2>2, <2>3, <2>4
<1> QED
  BY <1>1, <1>3 DEF OneInv

\* A message adds a request if it is one and the port is open.
LEMMA AskedByPost ==
  ASSUME PortsAreLegit, NEW w \in Workers, NEW m \in Message, Post(w, m)
  PROVE  \A v \in Workers, c \in Clients : Asks(v, c)' =>
           \/ Asks(v, c)
           \/ v = w /\ wpc[w] # "disposed" /\ m.type = "subscribe" /\ m.from = c
<1>1. SUFFICES ASSUME NEW v \in Workers, NEW c \in Clients, Asks(v, c)', ~Asks(v, c)
               PROVE  v = w /\ wpc[w] # "disposed" /\ m.type = "subscribe" /\ m.from = c
  OBVIOUS
<1>2. rx \in [Workers -> Seq(Message)]
  BY LegitPorts
<1>3. wpc[w] # "disposed" /\ rx' = [rx EXCEPT ![w] = Append(@, m)]
  BY <1>1 DEF Post, Asks
<1>4. v = w
  BY <1>1, <1>2, <1>3 DEF Asks
<1>5. /\ Len(rx[w]) \in Nat /\ DOMAIN rx[w] = 1..Len(rx[w])
      /\ Append(rx[w], m) \in Seq(Message) /\ Len(Append(rx[w], m)) = Len(rx[w]) + 1
      /\ Append(rx[w], m)[Len(rx[w]) + 1] = m
      /\ \A i \in 1..Len(rx[w]) : Append(rx[w], m)[i] = rx[w][i]
  BY <1>2, AppendProperties, LenProperties
<1>6. rx'[w] = Append(rx[w], m) /\ DOMAIN rx'[w] = 1..(Len(rx[w]) + 1)
  BY <1>2, <1>3, <1>5, LenProperties
<1>7. PICK i \in 1..(Len(rx[w]) + 1) : rx'[w][i].type = "subscribe" /\ rx'[w][i].from = c
  BY <1>1, <1>4, <1>6 DEF Asks
<1>8. i = Len(rx[w]) + 1
  <2>1. SUFFICES ASSUME i \in 1..Len(rx[w]) PROVE FALSE
    BY <1>5
  <2> QED
    BY <1>1, <1>4, <1>5, <1>6, <1>7, <2>1 DEF Asks
<1> QED
  BY <1>3, <1>4, <1>5, <1>6, <1>7, <1>8

LEMMA AskedNoMore ==
  ASSUME PortsAreLegit, NEW w \in Workers, rx[w] # <<>>, Keep(w) \/ DisposeWorker(w)
  PROVE  /\ \A v \in Workers, c \in Clients : Asks(v, c)' => Asks(v, c)
         /\ DisposeWorker(w) => \A c \in Clients : ~Asks(w, c)'
<1>1. rx \in [Workers -> Seq(Message)]
  BY LegitPorts
<1>2. CASE Keep(w)
  <2>1. rx'[w] = Tail(rx[w]) /\ \A v \in Workers \ {w} : rx'[v] = rx[v]
    BY <1>1, <1>2 DEF Keep
  <2>2. /\ Len(rx[w]) \in Nat /\ DOMAIN rx[w] = 1..Len(rx[w])
        /\ Tail(rx[w]) \in Seq(Message) /\ Len(Tail(rx[w])) = Len(rx[w]) - 1
        /\ \A i \in 1..(Len(rx[w]) - 1) : Tail(rx[w])[i] = rx[w][i + 1]
    BY <1>1, HeadTailProperties, LenProperties
  <2>3. DOMAIN Tail(rx[w]) = 1..(Len(rx[w]) - 1)
    BY <2>2, LenProperties
  <2>4. ASSUME NEW c \in Clients, Asks(w, c)' PROVE Asks(w, c)
    <3>1. PICK i \in 1..(Len(rx[w]) - 1) : rx'[w][i].type = "subscribe" /\ rx'[w][i].from = c
      BY <2>1, <2>3, <2>4 DEF Asks
    <3>2. i + 1 \in 1..Len(rx[w]) /\ rx'[w][i] = rx[w][i + 1]
      BY <2>1, <2>2
    <3> QED
      BY <2>2, <3>1, <3>2 DEF Asks
  <2>5. \A v \in Workers \ {w}, c \in Clients : Asks(v, c)' => Asks(v, c)
    BY <2>1 DEF Asks
  <2>6. DisposeWorker(w) => \A c \in Clients : ~Asks(w, c)'
    BY <1>1 DEF DisposeWorker, Asks
  <2> QED
    BY <2>4, <2>5, <2>6
<1>3. CASE DisposeWorker(w)
  BY <1>1, <1>3 DEF DisposeWorker, Asks
<1> QED
  BY <1>2, <1>3

\* An answer to a client ends its waiting.
LEMMA AnswerEndsWaiting ==
  ASSUME TypeOK, NEW w \in Workers, NEW m, call' = AnswerTo(w, m), UNCHANGED pc
  PROVE  \A c \in Clients : Waits(c)' =>
           /\ Waits(c) /\ call'[c] = call[c]
           /\ ~(m.from = c /\ call[c].to = w /\ call[c].type = m.type)
<1>1. SUFFICES ASSUME NEW c \in Clients, Waits(c)'
               PROVE  /\ Waits(c) /\ call'[c] = call[c]
                      /\ ~(m.from = c /\ call[c].to = w /\ call[c].type = m.type)
  OBVIOUS
<1>2. call \in [Clients \cup Workers -> Call \cup {None}] /\ DOMAIN call = Clients \cup Workers
  BY DEF TypeOK
<1> DEFINE aw == m.from = c /\ call[c] # None /\ call[c].to = w /\ call[c].type = m.type
<1>3. call'[c] = IF aw THEN [call[c] EXCEPT !.answered = TRUE] ELSE call[c]
  BY <1>2 DEF AnswerTo
<1>4. ~aw
  <2>1. SUFFICES ASSUME aw PROVE FALSE
    OBVIOUS
  <2>2. call[c] \in Call /\ call'[c] = [call[c] EXCEPT !.answered = TRUE]
    BY <1>2, <1>3, <2>1
  <2>3. call'[c].answered
    BY <2>2 DEF Call
  <2> QED
    BY <1>1, <2>3 DEF Waits
<1>5. call'[c] = call[c]
  BY <1>3, <1>4
<1> QED
  BY <1>1, <1>4, <1>5 DEF Waits

\* A message that asks for no subscription.
LEMMA CalmPost ==
  ASSUME PortsAreLegit, NEW w \in Workers, NEW m \in Message, Post(w, m), m.type # "subscribe"
  PROVE  \A v \in Workers, c \in Clients : Asks(v, c)' => Asks(v, c)
BY AskedByPost

LEMMA CalmStart == ASSUME IInv, NEW c \in Clients, Start(c) PROVE Calm
<1>1. /\ pc \in [Clients -> ClientPC] /\ call \in [Clients \cup Workers -> Call \cup {None}]
      /\ wpc \in [Workers -> WorkerPC] /\ registered \in Workers \cup {None}
      /\ pc[c] = "off" /\ UNCHANGED <<prompt, subs>>
  BY DEF IInv, TypeOK, Start
<1>2. CASE registered # None
  <2>1. Request(c, registered, "ping") /\ pc' = [pc EXCEPT ![c] = "pinging"] /\ wpc' = wpc
    BY <1>2 DEF Start
  <2>2. \A v \in Workers, d \in Clients : Asks(v, d)' => Asks(v, d)
    <3> DEFINE m == [type |-> "ping", from |-> c, token |-> None]
    <3>1. m \in Message /\ Post(registered, m) /\ m.type # "subscribe"
      BY <2>1 DEF Request, Message
    <3> HIDE DEF m
    <3> QED
      BY <1>1, <1>2, <3>1, CalmPost DEF IInv
  <2>3. pc'[c] = "pinging" /\ \A d \in Clients \ {c} : pc'[d] = pc[d] /\ call'[d] = call[d]
    BY <1>1, <2>1 DEF Request
  <2> QED
    BY <1>1, <2>1, <2>2, <2>3 DEF Calm, BeforeAsking, Waits
<1>3. CASE registered = None
  <2>1. Spawn(NextWorker, c) /\ pc' = [pc EXCEPT ![c] = "spawning"] /\ UNCHANGED <<rx, call>>
    BY <1>2, <1>3 DEF Start
  <2> QED
    BY <1>1, <2>1 DEF Calm, BeforeAsking, Waits, Asks, Spawn, Unborn
<1> QED
  BY <1>2, <1>3

LEMMA CalmPingTimesOut == ASSUME IInv, NEW c \in Clients, PingTimesOut(c) PROVE Calm
<1>1. /\ pc \in [Clients -> ClientPC] /\ call \in [Clients \cup Workers -> Call \cup {None}]
      /\ wpc \in [Workers -> WorkerPC]
  BY DEF IInv, TypeOK
<1> QED
  BY <1>1 DEF PingTimesOut, Calm, BeforeAsking, Waits, Asks, Spawn, Unborn

LEMMA CalmClient ==
  ASSUME IInv, NEW c \in Clients, SubscribeAnswered(c) \/ Dispose(c) \/ Exit(c) PROVE Calm
<1>1. /\ pc \in [Clients -> ClientPC] /\ call \in [Clients \cup Workers -> Call \cup {None}]
      /\ wpc \in [Workers -> WorkerPC] /\ registered \in Workers \cup {None}
      /\ token \in [Clients -> Tokens \cup {None}]
  BY DEF IInv, TypeOK
<1>2. CASE SubscribeAnswered(c) \/ Exit(c)
  BY <1>1, <1>2 DEF SubscribeAnswered, Exit, Calm, BeforeAsking, Waits, Asks, workerVars
<1>3. CASE Dispose(c)
  <2>1. \A v \in Workers, d \in Clients : Asks(v, d)' => Asks(v, d)
    <3> DEFINE m == [type |-> "unsubscribe", from |-> None, token |-> token[c]]
    <3>1. m \in Message /\ Post(registered, m) /\ m.type # "subscribe" /\ registered \in Workers
      BY <1>1, <1>3 DEF Dispose, Message
    <3> HIDE DEF m
    <3> QED
      BY <3>1, CalmPost DEF IInv
  <2> QED
    BY <1>1, <1>3, <2>1 DEF Dispose, Calm, Waits, workerVars
<1> QED
  BY <1>2, <1>3

LEMMA CalmWorker ==
  ASSUME IInv, NEW w \in Workers,
         \/ LookUp(w) \/ UnmapAnswered(w) \/ UnmapTimesOut(w) \/ Register(w) \/ Run(w)
         \/ Restart(w) \/ Receive(w) \/ TdListener(w) \/ ReceiverEnds(w)
  PROVE  Calm
<1>1. /\ call \in [Clients \cup Workers -> Call \cup {None}]
      /\ wpc \in [Workers -> WorkerPC] /\ registered \in Workers \cup {None}
  BY DEF IInv, TypeOK
<1>2. w \notin Clients
  BY WorkersAreNumbers
<1>3. CASE LookUp(w)
  <2>1. \A v \in Workers, d \in Clients : Asks(v, d)' => Asks(v, d)
    <3>1. CASE registered = None
      BY <1>3, <3>1 DEF LookUp, Asks
    <3>2. CASE registered # None
      <4> DEFINE m == [type |-> "unmap", from |-> w, token |-> None]
      <4>1. m \in Message /\ Post(registered, m) /\ m.type # "subscribe" /\ registered \in Workers
        BY <1>1, <1>3, <3>2 DEF LookUp, Request, Message
      <4> HIDE DEF m
      <4> QED
        BY <4>1, CalmPost DEF IInv
    <3> QED
      BY <3>1, <3>2
  <2>2. /\ UNCHANGED <<prompt, subs, pc>> /\ \A d \in Clients : call'[d] = call[d]
        /\ \A v \in Workers : wpc'[v] = wpc[v] \/ (wpc'[v] # "disposed" /\ wpc[v] = "looking")
    BY <1>1, <1>2, <1>3 DEF LookUp, Request, clientVars
  <2> QED
    BY <2>1, <2>2 DEF Calm, Waits
<1>4. CASE UnmapAnswered(w) \/ UnmapTimesOut(w)
  BY <1>1, <1>2, <1>4 DEF UnmapAnswered, UnmapTimesOut, clientVars, Calm, Waits, Asks
<1>5. CASE Register(w)
  BY <1>1, <1>5 DEF Register, Calm, Waits, Asks
<1>6. CASE Run(w)
  BY <1>1, <1>6 DEF Run, Calm, Waits, Asks
<1>7. CASE Restart(w)
  BY <1>1, <1>7 DEF Restart, Unborn, clientVars, Calm, Waits, Asks
<1>8. CASE Receive(w) \/ TdListener(w) \/ ReceiverEnds(w)
  BY <1>8 DEF Receive, TdListener, ReceiverEnds, clientVars, workerVars, Calm, Waits, Asks
<1> QED
  BY <1>3, <1>4, <1>5, <1>6, <1>7, <1>8

LEMMA CalmExitListener == ASSUME IInv, NEW t \in Tokens, ExitListener(t) PROVE Calm
<1>1. registered \in Workers \cup {None}
  BY DEF IInv, TypeOK
<1>2. \A v \in Workers, d \in Clients : Asks(v, d)' => Asks(v, d)
  <2>1. CASE t[2] \in subs[t[1]] /\ registered # None
    <3> DEFINE m == [type |-> "unsubscribe", from |-> None, token |-> t]
    <3>1. m \in Message /\ Post(registered, m) /\ m.type # "subscribe" /\ registered \in Workers
      BY <1>1, <2>1 DEF ExitListener, Message
    <3> HIDE DEF m
    <3> QED
      BY <3>1, CalmPost DEF IInv
  <2>2. CASE ~(t[2] \in subs[t[1]] /\ registered # None)
    BY <2>2 DEF ExitListener, Asks
  <2> QED
    BY <2>1, <2>2
<1> QED
  BY <1>2 DEF ExitListener, clientVars, workerVars, Calm, Waits

\* A message other than a request to subscribe.
LEMMA CalmHandled ==
  ASSUME IInv, NEW w \in Workers, RegistrantListener(w), Head(rx[w]).type # "subscribe"
  PROVE  Calm
<1>1. /\ Handled(w)
      /\ Keep(w) \/ DisposeWorker(w)
      /\ UNCHANGED subs \/ subs' = [subs EXCEPT ![w] = {c \in @ : <<w, c>> # Head(rx[w]).token}]
  BY DEF RegistrantListener, Handled, HandleUnsubscribe
<1>2. wpc \in [Workers -> WorkerPC] /\ subs \in [Workers -> SUBSET Clients]
  BY DEF IInv, TypeOK
<1>3. /\ \A v \in Workers, c \in Clients : Asks(v, c)' => Asks(v, c)
      /\ DisposeWorker(w) => \A c \in Clients : ~Asks(w, c)'
  BY <1>1, AskedNoMore DEF Handled, IInv
<1>4. \A c \in Clients : Waits(c)' => Waits(c) /\ call'[c] = call[c]
  BY <1>1, AnswerEndsWaiting DEF Handled, clientVars, IInv
<1>5. \A v \in Workers : /\ subs'[v] \subseteq subs[v]
                         /\ wpc[v] = "broken" => wpc'[v] = "broken"
                         /\ wpc'[v] = wpc[v] \/ (v = w /\ DisposeWorker(w))
  BY <1>1, <1>2 DEF Keep, DisposeWorker, Handled
<1> QED
  BY <1>1, <1>3, <1>4, <1>5 DEF Calm, Handled, clientVars

\* A client asks when it has no place yet, and so has one.
LEMMA AskingOnce ==
  ASSUME IInv, OneInv, NEW c \in Clients, NEW state \in {"subscribing", "subscribingToSpawned"},
         pc[c] \in BeforeAsking, Subscribe(c, state), UNCHANGED <<prompt, wpc, subs>>
  PROVE  OneInv'
<1>1. /\ pc \in [Clients -> ClientPC] /\ call \in [Clients \cup Workers -> Call \cup {None}]
      /\ registered \in Workers \cup {None}
  BY DEF IInv, TypeOK
<1>2. CASE registered = None
  <2>1. /\ \A d \in Clients \ {c} : pc'[d] = pc[d] /\ call'[d] = call[d]
        /\ pc'[c] = "stuck" /\ rx' = rx
    BY <1>1, <1>2 DEF Subscribe
  <2>2. Calm
    BY <2>1 DEF Calm, BeforeAsking, Waits, Asks
  <2> QED
    BY <2>2, CalmKeeps
<1>3. CASE registered # None
  <2> DEFINE m == [type |-> "subscribe", from |-> c, token |-> None]
  <2>1. m \in Message /\ Post(registered, m) /\ m.from = c /\ registered \in Workers
    BY <1>1, <1>3 DEF Subscribe, Request, Message
  <2> HIDE DEF m
  <2>2. \A v \in Workers, d \in Clients : Asks(v, d)' =>
          Asks(v, d) \/ (v = registered /\ wpc[v] # "disposed" /\ d = c)
    BY <2>1, AskedByPost DEF IInv
  <2>3. /\ \A d \in Clients \ {c} : pc'[d] = pc[d] /\ call'[d] = call[d]
        /\ pc'[c] = state /\ call'[c].to = registered
    BY <1>1, <1>3 DEF Subscribe, Request
  <2>4. PortsAreClosed'
    BY <2>2 DEF OneInv, PortsAreClosed
  <2>5. \A v \in Workers, d \in Clients : Place(d, v)' => Place(d, v) \/ (v = registered /\ d = c)
    BY <2>2 DEF Place
  <2>6. ASSUME prompt' PROVE OnePlace' /\ NotYet' /\ Asking'
    <3>1. OnePlace /\ NotYet /\ Asking
      BY <2>6 DEF OneInv
    <3>2. \A v \in Workers : ~Place(c, v)
      BY <3>1 DEF NotYet
    <3>3. OnePlace'
      BY <2>5, <3>1, <3>2 DEF OnePlace
    <3>4. NotYet'
      BY <2>3, <2>5, <3>1 DEF NotYet, BeforeAsking
    <3>5. Asking'
      <4>1. SUFFICES ASSUME NEW d \in Clients, Waits(d)', NEW w \in Workers, Place(d, w)'
                     PROVE  w = call'[d].to /\ d \notin subs'[w]
        BY DEF Asking
      <4>2. CASE d = c
        <5>1. c \notin subs[w]
          BY <3>2 DEF Place
        <5> QED
          BY <2>3, <2>5, <3>2, <4>1, <4>2, <5>1
      <4>3. CASE d # c
        <5>1. Place(d, w) /\ Waits(d)
          BY <2>3, <2>5, <4>1, <4>3 DEF Waits
        <5> QED
          BY <2>3, <3>1, <4>3, <5>1 DEF Asking
      <4> QED
        BY <4>2, <4>3
    <3> QED
      BY <3>3, <3>4, <3>5
  <2> QED
    BY <2>4, <2>6 DEF OneInv
<1> QED
  BY <1>2, <1>3

\* A prompt isolate gives up only on a port that is closed or never read: its request is lost.
LEMMA AskedAgain == ASSUME IInv, OneInv, NEW c \in Clients, SubscribeTimesOut(c) PROVE OneInv'
<1>1. /\ pc \in [Clients -> ClientPC] /\ call \in [Clients \cup Workers -> Call \cup {None}]
      /\ wpc \in [Workers -> WorkerPC]
  BY DEF IInv, TypeOK
<1>2. /\ UNCHANGED <<prompt, rx, subs>> /\ Waits(c)
      /\ call[c] \in Call /\ (prompt => Silent(call[c].to))
      /\ call' = [call EXCEPT ![c] = None]
      /\ pc' = [pc EXCEPT ![c] = "spawning"] \/ pc' = [pc EXCEPT ![c] = "stuck"]
      /\ \A w \in Workers : wpc'[w] = wpc[w] \/ (wpc[w] = "unborn" /\ wpc'[w] = "looking")
  BY <1>1 DEF SubscribeTimesOut, TimesOut, Waits, Spawn, Unborn
<1>3. \A w \in Workers, d \in Clients : Asks(w, d)' = Asks(w, d)
  BY <1>2 DEF Asks
<1>4. \A w \in Workers, d \in Clients : Place(d, w)' => Place(d, w)
  BY <1>2, <1>3 DEF Place
<1>5. PortsAreClosed'
  BY <1>2, <1>3 DEF OneInv, PortsAreClosed
<1>6. ASSUME prompt' PROVE OnePlace' /\ NotYet' /\ Asking'
  <2>1. OnePlace /\ NotYet /\ Asking /\ PortsAreClosed /\ Silent(call[c].to)
    BY <1>2, <1>6 DEF OneInv
  <2>2. \A w \in Workers : ~Place(c, w)
    BY <1>2, <2>1 DEF Asking, Place, Silent, PortsAreClosed
  <2>3. OnePlace'
    BY <1>4, <2>1 DEF OnePlace
  <2>4. NotYet'
    BY <1>1, <1>2, <1>4, <2>1, <2>2 DEF NotYet
  <2>5. Asking'
    <3>1. \A d \in Clients : Waits(d)' => Waits(d) /\ call'[d] = call[d]
      BY <1>1, <1>2 DEF Waits
    <3> QED
      BY <1>2, <1>4, <2>1, <3>1 DEF Asking
  <2> QED
    BY <2>3, <2>4, <2>5
<1> QED
  BY <1>5, <1>6 DEF OneInv

\* The request is taken from the port: the place in it becomes the subscription.
LEMMA AskedIsSubscribed ==
  ASSUME IInv, OneInv, NEW w \in Workers, RegistrantListener(w), Head(rx[w]).type = "subscribe"
  PROVE  OneInv'
<1> DEFINE m == Head(rx[w])
           c == m.from
<1>1. Handled(w) /\ HandleSubscribe(w, c) /\ Keep(w)
  BY DEF RegistrantListener, Handled, HandleSubscribe
<1>2. rx[w] \in Seq(Legit) /\ rx[w] # <<>>
  BY <1>1 DEF IInv, PortsAreLegit, Handled
<1>3. m \in Legit /\ m = rx[w][1] /\ 1 \in DOMAIN rx[w]
  <2>1. Len(rx[w]) \in Nat \ {0} /\ DOMAIN rx[w] = 1..Len(rx[w])
    BY <1>2, EmptySeq, LenProperties
  <2> QED
    BY <1>2, <2>1, HeadTailProperties
<1>4. c \in Clients /\ Asks(w, c)
  BY <1>3 DEF Legit, Asks
<1>5. \A v \in Workers, d \in Clients : Asks(v, d)' => Asks(v, d)
  BY <1>1, <1>2, AskedNoMore DEF IInv
<1>6. /\ UNCHANGED <<prompt, wpc, pc>> /\ wpc[w] = "running"
      /\ subs'[w] = subs[w] \cup {c} /\ \A v \in Workers \ {w} : subs'[v] = subs[v]
  BY <1>1 DEF Handled, HandleSubscribe, Keep, clientVars, IInv, TypeOK
<1>7. Place(c, w)
  BY <1>4, <1>6 DEF Place
<1>8. \A v \in Workers, d \in Clients : Place(d, v)' => Place(d, v)
  BY <1>5, <1>6, <1>7 DEF Place
<1>9. PortsAreClosed'
  BY <1>5, <1>6 DEF OneInv, PortsAreClosed
<1>10. ASSUME prompt' PROVE OnePlace' /\ NotYet' /\ Asking'
  <2>1. OnePlace /\ NotYet /\ Asking
    BY <1>6, <1>10 DEF OneInv
  <2>2. OnePlace'
    BY <1>8, <2>1 DEF OnePlace
  <2>3. NotYet'
    BY <1>6, <1>8, <2>1 DEF NotYet
  <2>4. Asking'
    <3>1. SUFFICES ASSUME NEW d \in Clients, Waits(d)', NEW v \in Workers, Place(d, v)'
                   PROVE  v = call'[d].to /\ d \notin subs'[v]
      BY DEF Asking
    <3>2. /\ Waits(d) /\ call'[d] = call[d]
          /\ ~(c = d /\ call[d].to = w /\ call[d].type = m.type)
      BY <1>1, <3>1, AnswerEndsWaiting DEF Handled, clientVars, IInv
    <3>3. Place(d, v)
      BY <1>8, <3>1
    <3>4. v = call[d].to /\ d \notin subs[v]
      BY <2>1, <3>2, <3>3 DEF Asking
    <3>5. d # c
      <4>1. SUFFICES ASSUME d = c PROVE FALSE
        OBVIOUS
      <4>2. call[c].to = w
        BY <1>7, <2>1, <3>2, <4>1 DEF Asking
      <4>3. call[c].type = "subscribe"
        BY <3>2, <4>1 DEF IInv, SubscribersServed, Waits
      <4> QED
        BY <3>2, <4>1, <4>2, <4>3
    <3> QED
      BY <1>6, <3>2, <3>4, <3>5
  <2> QED
    BY <2>2, <2>3, <2>4
<1> QED
  BY <1>9, <1>10 DEF OneInv

LEMMA OneInvSteps == IInv /\ OneInv /\ [Next]_vars => OneInv'
<1> SUFFICES ASSUME IInv, OneInv, [Next]_vars PROVE OneInv'
  OBVIOUS
<1>1. ASSUME NEW c \in Clients, PingAnswered(c) \/ WorkerReplies(c) PROVE OneInv'
  <2>1. pc[c] \in BeforeAsking /\ UNCHANGED <<prompt, wpc, subs>>
    BY <1>1 DEF PingAnswered, WorkerReplies, BeforeAsking, workerVars
  <2>2. CASE \E state \in {"subscribing", "subscribingToSpawned"} : Subscribe(c, state)
    BY <2>1, <2>2, AskingOnce
  <2>3. CASE WorkerReplies(c) /\ ~reply[c]
    <3>1. pc \in [Clients -> ClientPC]
      BY DEF IInv, TypeOK
    <3>2. Calm
      BY <2>1, <2>3, <3>1 DEF WorkerReplies, Calm, BeforeAsking, Waits, Asks
    <3> QED
      BY <3>2, CalmKeeps
  <2> QED
    BY <1>1, <2>2, <2>3 DEF PingAnswered, WorkerReplies
<1>2. ASSUME NEW c \in Clients, SubscribeTimesOut(c) PROVE OneInv'
  BY <1>2, AskedAgain
<1>3. ASSUME NEW c \in Clients,
             Start(c) \/ PingTimesOut(c) \/ SubscribeAnswered(c) \/ Dispose(c) \/ Exit(c)
      PROVE  OneInv'
  BY <1>3, CalmStart, CalmPingTimesOut, CalmClient, CalmKeeps
<1>4. ASSUME NEW w \in Workers,
             \/ LookUp(w) \/ UnmapAnswered(w) \/ UnmapTimesOut(w) \/ Register(w) \/ Run(w)
             \/ Restart(w) \/ Receive(w) \/ TdListener(w) \/ ReceiverEnds(w)
      PROVE  OneInv'
  BY <1>4, CalmWorker, CalmKeeps
<1>5. ASSUME NEW w \in Workers, RegistrantListener(w) PROVE OneInv'
  BY <1>5, AskedIsSubscribed, CalmHandled, CalmKeeps
<1>6. ASSUME NEW t \in Tokens, ExitListener(t) PROVE OneInv'
  BY <1>6, CalmExitListener, CalmKeeps
<1>7. CASE UNCHANGED vars
  <2>1. Calm
    BY <1>7 DEF vars, clientVars, workerVars, Calm, Waits, Asks
  <2> QED
    BY <2>1, CalmKeeps
<1> QED
  BY <1>1, <1>2, <1>3, <1>4, <1>5, <1>6, <1>7 DEF Next, ClientStep, WorkerStep

\* While isolates answer in time, a client that asks again does so because its first
\* request was lost: it is never subscribed to two workers.
THEOREM SubscribedOnce == Spec => []OneSubscription
<1>1. Init => OneInv
  BY DEF Init, OneInv, PortsAreClosed, OnePlace, NotYet, Asking, Place, Asks
<1>2. OneInv => OneSubscription
  BY DEF OneInv, OnePlace, Place, OneSubscription
<1> QED
  BY <1>1, <1>2, IInvAlways, OneInvSteps, PTL DEF Spec

-----------------------------------------------------------------------------
(* The one receiver *)

NoBroken == \A w \in Workers : wpc[w] # "broken"
Born(w) == wpc[w] # "unborn"

\* A worker that has registered is registered until it is disposed of.
RegisteredServes == \A w \in Workers : wpc[w] \in {"starting", "running"} => registered = w

\* Workers have owners of their own, and these wait for them or are past that.
OwnersAreOwn ==
  /\ \A v, w \in Workers : Born(v) /\ Born(w) /\ owner[v] = owner[w] => v = w
  /\ \A w \in Workers : Born(w) =>
       owner[w] \in Clients /\ pc[owner[w]] \notin {"off", "pinging", "subscribing"}

ReachInv == prompt /\ NoBroken => RegisteredServes /\ OwnersAreOwn

\* The UI's isolate and the push handler's.
TwoClients == Cardinality(Clients) <= 2

LEMMA AmongTwo ==
  ASSUME TwoClients, NEW a \in Clients, NEW b \in Clients, NEW c \in Clients
  PROVE  a = b \/ b = c \/ a = c
<1>1. SUFFICES ASSUME a # b, b # c, a # c PROVE FALSE
  OBVIOUS
<1>2. IsFiniteSet({a, b, c}) /\ Cardinality({a, b, c}) = 3
  <2>1. IsFiniteSet({a}) /\ Cardinality({a}) = 1
    BY FS_Singleton
  <2>2. IsFiniteSet({a} \cup {b}) /\ Cardinality({a} \cup {b}) = 2
    BY <1>1, <2>1, FS_AddElement
  <2>3. IsFiniteSet(({a} \cup {b}) \cup {c}) /\ Cardinality(({a} \cup {b}) \cup {c}) = 3
    BY <1>1, <2>2, FS_AddElement
  <2>4. ({a} \cup {b}) \cup {c} = {a, b, c}
    OBVIOUS
  <2> QED
    BY <2>3, <2>4
<1>3. {a, b, c} \subseteq Clients /\ IsFiniteSet(Clients)
  BY RxWorkerAssumption
<1>4. Cardinality({a, b, c}) <= Cardinality(Clients) /\ Cardinality(Clients) \in Nat
  BY <1>3, FS_Subset, FS_CardinalityType
<1> QED
  BY <1>2, <1>4 DEF TwoClients

\* A step that gives the name to nobody new, or a worker its owner.
LEMMA OwnersStay ==
  ASSUME TypeOK, OwnersAreOwn, UNCHANGED owner,
         \A w \in Workers : wpc'[w] = "unborn" <=> wpc[w] = "unborn",
         \A c \in Clients : pc'[c] \in {"off", "pinging", "subscribing"} =>
           \/ pc[c] \in {"off", "pinging", "subscribing"}
           \/ \A w \in Workers : Born(w) => owner[w] # c
  PROVE  OwnersAreOwn'
BY DEF OwnersAreOwn, Born

\* A client that has no worker gets one.
LEMMA OwnerSpawns ==
  ASSUME TypeOK, OwnersAreOwn, NEW w, NEW c \in Clients, Spawn(w, c),
         pc[c] \in {"off", "pinging", "subscribing"}, pc' = [pc EXCEPT ![c] = "spawning"]
  PROVE  OwnersAreOwn' /\ (RegisteredServes /\ registered' = registered => RegisteredServes')
<1>1. /\ wpc \in [Workers -> WorkerPC] /\ owner \in [Workers -> Clients \cup {None}]
      /\ pc \in [Clients -> ClientPC] /\ w \in Workers /\ wpc[w] = "unborn"
      /\ wpc' = [wpc EXCEPT ![w] = "looking"] /\ owner' = [owner EXCEPT ![w] = c]
  BY DEF TypeOK, Spawn, Unborn
<1>2. \A v \in Workers : Born(v) => owner[v] # c
  BY DEF OwnersAreOwn
<1>3. \A v \in Workers \ {w} : (Born(v)' <=> Born(v)) /\ owner'[v] = owner[v]
  BY <1>1 DEF Born
<1>4. owner'[w] = c /\ pc'[c] = "spawning" /\ \A d \in Clients \ {c} : pc'[d] = pc[d]
  BY <1>1
<1>5. OwnersAreOwn'
  <2>1. ASSUME NEW u \in Workers, NEW v \in Workers, Born(u)', Born(v)', owner'[u] = owner'[v]
        PROVE  u = v
    <3>1. CASE u = w /\ v # w
      BY <1>2, <1>3, <1>4, <2>1, <3>1
    <3>2. CASE v = w /\ u # w
      BY <1>2, <1>3, <1>4, <2>1, <3>2
    <3>3. CASE u # w /\ v # w
      BY <1>3, <2>1, <3>3 DEF OwnersAreOwn
    <3> QED
      BY <3>1, <3>2, <3>3
  <2>2. ASSUME NEW v \in Workers, Born(v)'
        PROVE  owner'[v] \in Clients /\ pc'[owner'[v]] \notin {"off", "pinging", "subscribing"}
    <3>1. CASE v = w
      BY <1>4, <3>1
    <3>2. CASE v # w
      BY <1>2, <1>3, <1>4, <2>2, <3>2 DEF OwnersAreOwn
    <3> QED
      BY <3>1, <3>2
  <2> QED
    BY <2>1, <2>2 DEF OwnersAreOwn
<1>6. RegisteredServes /\ registered' = registered => RegisteredServes'
  BY <1>1 DEF RegisteredServes
<1> QED
  BY <1>5, <1>6

\* With two clients, who waits in vain for a worker that is gone unmaps nobody: it
\* has no worker or its own does not run, and the other client's is the one gone.
LEMMA NobodyUnmapped ==
  ASSUME TwoClients, OwnersAreOwn, NEW v \in Workers, wpc[v] = "disposed", NEW c \in Clients,
         \/ \A w \in Workers : Born(w) => owner[w] # c
         \/ \E w \in Workers : Born(w) /\ owner[w] = c /\ wpc[w] \notin {"starting", "running"}
                               /\ w # v
  PROVE  \A u \in Workers : wpc[u] \notin {"starting", "running"}
<1>1. SUFFICES ASSUME NEW u \in Workers, wpc[u] \in {"starting", "running"} PROVE FALSE
  OBVIOUS
<1>2. Born(u) /\ Born(v) /\ u # v
  BY <1>1 DEF Born
<1>3. owner[u] # owner[v] /\ owner[u] \in Clients /\ owner[v] \in Clients
  BY <1>2 DEF OwnersAreOwn
<1>4. c = owner[u] \/ c = owner[v]
  BY <1>3, AmongTwo
<1>5. PICK w \in Workers : Born(w) /\ owner[w] = c /\ wpc[w] \notin {"starting", "running"} /\ w # v
  BY <1>2, <1>4
<1>6. w = u \/ w = v
  BY <1>2, <1>4, <1>5 DEF OwnersAreOwn
<1> QED
  BY <1>1, <1>5, <1>6

LEMMA ReachByClients ==
  ASSUME TwoClients, IInv, RegisteredServes, OwnersAreOwn, prompt, NoBroken, NEW c \in Clients,
         Start(c) \/ ClientStep(c) \/ Dispose(c) \/ Exit(c)
  PROVE  RegisteredServes' /\ OwnersAreOwn'
<1>1. /\ pc \in [Clients -> ClientPC] /\ wpc \in [Workers -> WorkerPC] /\ TypeOK
      /\ registered \in Workers \cup {None}
      /\ call \in [Clients \cup Workers -> Call \cup {None}]
  BY DEF IInv, TypeOK
<1>2. CASE Start(c)
  <2>1. CASE registered # None
    <3>1. /\ UNCHANGED <<registered, wpc, owner>> /\ pc[c] = "off"
          /\ \A d \in Clients \ {c} : pc'[d] = pc[d]
      BY <1>1, <1>2, <2>1 DEF Start
    <3> QED
      BY <1>1, <3>1, OwnersStay DEF RegisteredServes
  <2>2. CASE registered = None
    BY <1>1, <1>2, <2>2, OwnerSpawns DEF Start
  <2> QED
    BY <2>1, <2>2
<1>3. CASE PingTimesOut(c)
  <2>1. Spawn(NextWorker, c) /\ pc[c] = "pinging" /\ pc' = [pc EXCEPT ![c] = "spawning"]
    BY <1>3 DEF PingTimesOut
  <2>2. OwnersAreOwn'
    BY <1>1, <2>1, OwnerSpawns
  <2>3. call[c] \in Call /\ Silent(call[c].to)
    BY <1>1, <1>3 DEF PingTimesOut, TimesOut
  <2>4. call[c].to \in Workers /\ wpc[call[c].to] = "disposed"
    BY <2>3 DEF Silent, Call, NoBroken
  <2>5. \A w \in Workers : Born(w) => owner[w] # c
    BY <2>1 DEF OwnersAreOwn
  <2>6. \A u \in Workers : wpc[u] \notin {"starting", "running"}
    BY <2>4, <2>5, NobodyUnmapped
  <2>7. RegisteredServes'
    BY <1>1, <2>1, <2>6 DEF RegisteredServes, Spawn, Unborn
  <2> QED
    BY <2>2, <2>7
<1>4. CASE PingAnswered(c) \/ WorkerReplies(c)
  <2>1. /\ UNCHANGED <<registered, wpc, owner>>
        /\ \A d \in Clients \ {c} : pc'[d] = pc[d]
        /\ pc[c] = "pinging" \/ pc'[c] \in {"subscribingToSpawned", "stuck"}
    BY <1>1, <1>4 DEF PingAnswered, WorkerReplies, Subscribe, workerVars
  <2> QED
    BY <1>1, <2>1, OwnersStay DEF RegisteredServes
<1>5. CASE SubscribeAnswered(c) \/ Dispose(c) \/ Exit(c)
  <2>1. /\ UNCHANGED <<registered, wpc, owner>>
        /\ \A d \in Clients : pc'[d] = pc[d] \/ pc'[d] \in {"active", "exited"}
    BY <1>1, <1>5 DEF SubscribeAnswered, Dispose, Exit, workerVars
  <2> QED
    BY <1>1, <2>1, OwnersStay DEF RegisteredServes
<1>6. CASE SubscribeTimesOut(c)
  <2>1. CASE pc[c] = "subscribing"
    BY <1>1, <1>6, <2>1, OwnerSpawns DEF SubscribeTimesOut
  <2>2. CASE pc[c] # "subscribing"
    <3>1. /\ UNCHANGED <<registered, wpc, owner>>
          /\ \A d \in Clients : pc'[d] = pc[d] \/ pc'[d] = "stuck"
      BY <1>1, <1>6, <2>2 DEF SubscribeTimesOut
    <3> QED
      BY <1>1, <3>1, OwnersStay DEF RegisteredServes
  <2> QED
    BY <2>1, <2>2
<1> QED
  BY <1>2, <1>3, <1>4, <1>5, <1>6 DEF ClientStep

LEMMA ReachByWorkers ==
  ASSUME TwoClients, IInv, RegisteredServes, OwnersAreOwn, prompt, NoBroken, NEW w \in Workers,
         WorkerStep(w)
  PROVE  RegisteredServes' /\ OwnersAreOwn'
<1>1. /\ wpc \in [Workers -> WorkerPC] /\ TypeOK
      /\ registered \in Workers \cup {None} /\ None \notin Workers
      /\ call \in [Clients \cup Workers -> Call \cup {None}]
  BY WorkersAreNumbers DEF IInv, TypeOK
<1>2. /\ UNCHANGED <<pc, owner>>
      /\ \A v \in Workers : wpc'[v] = "unborn" <=> wpc[v] = "unborn"
  BY <1>1 DEF WorkerStep, LookUp, UnmapAnswered, UnmapTimesOut, Register, Run, RegistrantListener,
              HandleSubscribe, HandleUnsubscribe, Keep, DisposeWorker, clientVars
<1>3. OwnersAreOwn'
  BY <1>1, <1>2, OwnersStay
<1>4. CASE LookUp(w) \/ UnmapAnswered(w) \/ Run(w)
  BY <1>1, <1>3, <1>4 DEF LookUp, UnmapAnswered, Run, RegisteredServes
<1>5. CASE UnmapTimesOut(w)
  <2>1. call[w] \in Call /\ Silent(call[w].to) /\ wpc[w] = "unmapping"
    BY <1>1, <1>5 DEF UnmapTimesOut, TimesOut
  <2>2. call[w].to \in Workers /\ wpc[call[w].to] = "disposed" /\ w # call[w].to
    BY <2>1 DEF Silent, Call, NoBroken
  <2>3. Born(w) /\ owner[w] \in Clients
    BY <2>1 DEF Born, OwnersAreOwn
  <2>4. \A u \in Workers : wpc[u] \notin {"starting", "running"}
    BY <2>1, <2>2, <2>3, NobodyUnmapped
  <2>5. RegisteredServes'
    BY <1>1, <1>5, <2>4 DEF RegisteredServes, UnmapTimesOut
  <2> QED
    BY <1>3, <2>5
<1>6. CASE Register(w)
  BY <1>1, <1>3, <1>6 DEF Register, RegisteredServes
<1>7. CASE RegistrantListener(w)
  <2>1. wpc[w] = "running" /\ (Keep(w) \/ DisposeWorker(w))
    BY <1>7 DEF RegistrantListener, HandleSubscribe, HandleUnsubscribe
  <2> QED
    BY <1>1, <1>3, <2>1 DEF Keep, DisposeWorker, RegisteredServes
<1> QED
  BY <1>3, <1>4, <1>5, <1>6, <1>7 DEF WorkerStep

LEMMA ReachSteps == ASSUME TwoClients PROVE IInv /\ ReachInv /\ [Next]_vars => ReachInv'
<1> SUFFICES ASSUME IInv, ReachInv, [Next]_vars, prompt', NoBroken'
             PROVE  RegisteredServes' /\ OwnersAreOwn'
  BY DEF ReachInv
<1>1. CASE UNCHANGED vars
  BY <1>1 DEF vars, clientVars, workerVars, ReachInv, NoBroken, RegisteredServes, OwnersAreOwn, Born
<1>2. CASE Next
  <2>1. wpc \in [Workers -> WorkerPC] /\ TypeOK
    BY DEF IInv, TypeOK
  <2>2. UNCHANGED prompt
    BY <1>2 DEF Next, ClientStep, WorkerStep, Start, PingAnswered, PingTimesOut, WorkerReplies,
                SubscribeAnswered, SubscribeTimesOut, Dispose, Exit, LookUp, UnmapAnswered,
                UnmapTimesOut, Register, Run, RegistrantListener, Restart, Receive, TdListener,
                ReceiverEnds, ExitListener
  <2>3. \A w \in Workers : wpc[w] = "broken" => wpc'[w] = "broken"
    <3>1. ASSUME NEW c \in Clients, Start(c) \/ ClientStep(c) \/ Dispose(c) \/ Exit(c)
          PROVE  \A w \in Workers : wpc[w] = "broken" => wpc'[w] = "broken"
      BY <2>1, <3>1 DEF ClientStep, Start, PingAnswered, PingTimesOut, WorkerReplies,
         SubscribeAnswered, SubscribeTimesOut, Dispose, Exit, Spawn, Unborn, workerVars
    <3>2. ASSUME NEW v \in Workers, WorkerStep(v)
          PROVE  \A w \in Workers : wpc[w] = "broken" => wpc'[w] = "broken"
      BY <2>1, <3>2 DEF WorkerStep, LookUp, UnmapAnswered, UnmapTimesOut, Register, Run,
         RegistrantListener, HandleSubscribe, HandleUnsubscribe, Keep, DisposeWorker
    <3>3. ASSUME NEW v \in Workers, Restart(v) \/ Receive(v) \/ TdListener(v) \/ ReceiverEnds(v)
          PROVE  \A w \in Workers : wpc[w] = "broken" => wpc'[w] = "broken"
      BY <2>1, <3>3 DEF Restart, Unborn, Receive, TdListener, ReceiverEnds, workerVars
    <3>4. ASSUME NEW t \in Tokens, ExitListener(t)
          PROVE  \A w \in Workers : wpc[w] = "broken" => wpc'[w] = "broken"
      BY <3>4 DEF ExitListener, workerVars
    <3> QED
      BY <1>2, <3>1, <3>2, <3>3, <3>4 DEF Next
  <2>4. prompt /\ NoBroken
    BY <2>2, <2>3 DEF NoBroken
  <2>5. RegisteredServes /\ OwnersAreOwn
    BY <2>4 DEF ReachInv
  <2>6. ASSUME NEW c \in Clients, Start(c) \/ ClientStep(c) \/ Dispose(c) \/ Exit(c)
        PROVE  RegisteredServes' /\ OwnersAreOwn'
    BY <2>4, <2>5, <2>6, ReachByClients
  <2>7. ASSUME NEW w \in Workers, WorkerStep(w) PROVE RegisteredServes' /\ OwnersAreOwn'
    BY <2>4, <2>5, <2>7, ReachByWorkers
  <2>8. ASSUME NEW w \in Workers, Restart(w) PROVE FALSE
    BY <2>1, <2>8 DEF Restart, Unborn, NoBroken
  <2>9. ASSUME NEW w \in Workers, Receive(w) \/ TdListener(w) \/ ReceiverEnds(w)
        PROVE  RegisteredServes' /\ OwnersAreOwn'
    BY <2>1, <2>5, <2>9, OwnersStay
       DEF Receive, TdListener, ReceiverEnds, clientVars, workerVars, RegisteredServes
  <2>10. ASSUME NEW t \in Tokens, ExitListener(t) PROVE RegisteredServes' /\ OwnersAreOwn'
    BY <2>1, <2>5, <2>10, OwnersStay DEF ExitListener, clientVars, workerVars, RegisteredServes
  <2> QED
    BY <1>2, <2>6, <2>7, <2>8, <2>9, <2>10 DEF Next
<1> QED
  BY <1>1, <1>2

LEMMA NoneBroken == Restarts = 0 => NoBroken
<1> SUFFICES ASSUME Restarts = 0 PROVE NoBroken
  OBVIOUS
<1> DEFINE B == {w \in Workers : wpc[w] = "broken"}
<1>1. Cardinality(Clients) + MaxRestarts \in Nat
  BY FS_CardinalityType, RxWorkerAssumption
<1>2. IsFiniteSet(Workers)
  <2>1. 1 \in Int /\ Cardinality(Clients) + MaxRestarts \in Int
    BY <1>1
  <2> QED
    BY <2>1, FS_Interval DEF Workers
<1>3. IsFiniteSet(B)
  BY <1>2, FS_Subset
<1>4. B = {}
  BY <1>3, FS_EmptySet DEF Restarts
<1> QED
  BY <1>4 DEF NoBroken

\* While the two isolates answer in time and no worker breaks, the isolate that calls
\* td_receive is the registered worker's: the next one finds it and ends it.
THEOREM OneReceiver == ASSUME TwoClients PROVE Spec => []ReceiverIsReachable
<1>1. Init => ReachInv
  BY DEF Init, ReachInv, RegisteredServes, OwnersAreOwn, Born
<1>2. Init => ObjInv
  BY DEF Init, ObjInv, ReceiversServe, NothingMissed
<1>3. ReachInv /\ ObjInv => ReceiverIsReachable
  BY NoneBroken DEF ReachInv, ObjInv, ReceiversServe, RegisteredServes, ReceiverIsReachable
<1> QED
  BY <1>1, <1>2, <1>3, IInvAlways, ObjInvSteps, ReachSteps, PTL DEF Spec
=============================================================================
