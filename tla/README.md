# A verification of WatchGram

WatchGram is a Telegram client for watches: a Flutter application (Dart) over
TDLib, with a few native parts (Kotlin, C++, C). TDLib does the protocol; the
application's own logic is in how isolates share TDLib's single receive loop,
how accounts come and go, and how streams of updates become the lists a page
shows. The native part with logic of its own is the encoder that turns a voice
message into an Ogg Opus file. Those are what this directory models in TLA+,
checks with TLC and, where it matters most, proves with TLAPS.

Dart paths below are under `src/lib/src/`; `tdlib/` is short for
`common/tdlib/`. C and C++ paths are under `src/android/app/src/main/cpp/`.

1. [The system](#1-the-system)
2. [Modules](#2-modules)
3. [Runs](#3-runs)
4. [Proofs](#4-proofs)
5. [Where code and documentation
   disagree](#5-where-code-and-documentation-disagree)
6. [What is not modelled](#6-what-is-not-modelled)
7. [Plan](#7-plan)

## 1. The system

### How the parts interact

```
 TDLib (libtdjson; answers, updates)
   | td_receive                              ^ td_send
   v                                         |
 receive manager ---- ports ---->  TdlibClient (one per account and isolate)
 (worker isolate, found in                | streams of answers and updates
  IsolateNameServer)                      v
                     providers and services of the account (attach, onTdlibReady, onAuthorized)
                        |  chat lists, messages, files, notifications, proxies, options, ...
                        v
                     pages and blocs (bootstrap, setup, home, chat, chat_send, proxy, settings)

 TdlibUserManager = one account; TdlibMultiManager = all of them in an isolate;
 CurrentAccount = the one shown; Settings = what survives the process;
 TdlibRunner = the launch, from the UI or from a push message.

 voice page -- channel --> recorder thread (Kotlin) -- JNI --> OpusEncoder.cpp
                                                                  |
        file <-- pages -- ogg_packer.c <-- packets -- opusenc.c <-+ samples
                                          opus_header.c, picture.c: its headers
```

Dart runs one event at a time in an isolate and gives way only at an `await`. So
a handler without an await is one step of a model, and one with awaits is as
many steps as it has pieces between them. Isolates run in parallel and share
only ports, the name server, the settings box and the database directories. The
encoder has no thread of its own: it is a library whose calls one thread makes
one after the other, and what is hard about it is the order of the calls, limits
of buffers and pages, and failures in the middle of a call.

### Components

Status: **M** modelled, **P** partly, **-** not yet (see the plan) or not at
all.

| component | state it keeps | operations | hard behaviour | what makes it correct | |
|---|---|---|---|---|---|
| Receive manager (`tdlib/client/management/rx`) | the name registered, the subscribers and tokens of a worker, the receiver isolate, objects held for the first subscriber | client: `_init`, `_spawn`, `_subscribe`, `dispose`; worker: `work`, `_registrantListener`, `_tdListener`, `_dispose` | isolates race to register; time-outs of 0.3 to 2 s with late answers; exits; kill of a blocking isolate | one receiver, reachable; one subscription per client; nothing early is lost; every start ends | M |
| Chat lists (`tdlib/providers/chat_lists`) | one sorted list per folder, positions, last messages, drafts | six updates of TDLib | orders repeat; contents and positions come apart or together; folders come and go | sorted, no chat twice, latest contents, listeners told | P |
| Accounts (`multi_manager`, `user_manager`, `current_account`, `account.dart`) | users by client id, running databases, the current account, directories, the setting `lastDatabaseId` | create, delete, destroy, restore, switch, log-out here or elsewhere | awaits between choosing and recording; a call failing midway; a process dying anywhere | the current account exists and is the one saved; no launch wipes the databases | P |
| Launch of the UI (`runner.fromUIThread`, `bootstrap`) | where the launch is | subscribe, clean up, restore, choose, show | two waits that may never end; settings lost | a launch past those two comes to a page | P |
| Chat page (`pages/chat`) | containers, messages known, the `_uiReady` completer | open, load more, close | handlers of one bloc run concurrently; the chat moves meanwhile | no gap, one end marker per direction, opening and loading end | P |
| TDLib client (`tdlib/client/td`) | request ids, streams, polling | invoke, start, close | late answers after a time-out; the isolate that started a client is gone | an answer reaches its caller or the caller learns it failed | - |
| Authorization states | the last state | parameters, QR, code, password, log-out | states before anybody listens | every state reaches its page | - |
| Providers and services of an account | attach order, callbacks | attach, detach, `onTdlibReady`, `onAuthorized` | callbacks of the states above | each callback runs once | - |
| Launch from a push (`runner.fromPushPayload`, `closeRedundantSessions`) | sessions of the push isolate | start, wait, show, destroy | two isolates over one database; an old UI that is gone; failure of one step of several | a push ends, and leaves no client behind | - |
| Firebase service | device registration, listeners | register, background handler | background isolate; failures after return | a failing push still notifies | - |
| Notifications (provider and service) | groups; payloads shown, receivers saved | group updates, show, cancel, save | read-modify-write across awaits; chats of two accounts | what is shown is what TDLib holds | - |
| First run (`pages/setup`) | step of the wizard | next, back, authorize | settings read back before written | the page shown is the step saved | - |
| Settings (`common/settings`) | box of values, versions | put, load | put returns before it has written | readers see what was written | P |
| Files (`tdlib/providers/files`) | generations, downloads | start, stop | stop before start or after end | every generation is finished once | - |
| Proxies | list of proxies | add, enable, remove, refresh | overlapping refreshes | the list is the last one | - |
| Ogg Opus encoder (`libopusenc`: `ogg_packer.c`, `opusenc.c`, `opus_header.c`, `picture.c`) | a buffer of samples, the streams to come, a buffer of packets and its pages, comments and pictures | create, write, drain, chain, flush, pull pages, settings, destroy; comments and pictures | streams that end inside a frame; buffers that shift and grow under pages not handed out; failures of write, close, malloc, encode | what is in the file is what was written, for every stream; no assertion fails; files close once; headers read back | P |
| Voice messages (`recorder`, `voice.dart`, Kotlin, `OpusEncoder.cpp`) | state of the recorder | create, start, stop | page left while starting | no recording goes on unseen | P |
| Caches: options, scopes, connection, stickers, ... | last value of an update | one request or update each | none: no two steps interact | - | - |
| Sending a message, other pages, drawing | none that outlives the page | one request each | - | - | - |
| Android build, libopus, SpeexDSP | none, or third-party | - | - | - | - |

The hazards of each component, at their lines, are listed in `PROJECT.json`.

## 2. Modules

| module | models | extends or refines |
|---|---|---|
| `ChatPositions` | what chat lists promise: for every open list, which chat is where with which contents | abstract |
| `ChatLists` | `ChatListsProvider`, `ChatList`: sorted Dart lists | refines `ChatPositions` |
| `ChatListsProofs` | theorems, that `ChatLists` implements `ChatPositions` among them | `ChatLists`, TLAPS |
| `RxWorker` | `TdlibReceiveManager` (client), `TdlibReceiveManagerWorker` | |
| `RxWorkerProofs` | theorems | `RxWorker`, TLAPS |
| `Accounts` | accounts, current account, launch, settings put | |
| `AccountsProofs` | theorems | `Accounts`, TLAPS |
| `ChatBloc` | `ChatBloc` and what `ChatView` asks of it | |
| `ChatBlocProofs` | theorems | `ChatBloc`, TLAPS |
| `OggPages` | what the packer promises: packets in, pages out | abstract |
| `OggPacker` | `ogg_packer.c`: two buffers, pages as ranges of both | refines `OggPages` |
| `SumProofs` | lemmas on running sums of naturals | TLAPS |
| `OggPackerProofs` | theorems, that `OggPacker` implements `OggPages` among them | `OggPacker`, `SumProofs` |
| `OpusEnc` | `opusenc.c`: calls, streams, frames; `opusFinish` of `OpusEncoder.cpp` | composed with `OggPages` by INSTANCE |
| `OpusEncProofs` | theorems about the buffer and the assertions | `OpusEnc`, TLAPS |
| `OpusEncStreamsProofs` | theorems about the streams, their pages, what they play and their files | `OpusEncProofs`, `SumProofs` |
| `OpusTags` | `opus_header.c`, `picture.c`, the comments and headers of `opusenc.c` | |
| `MC...` | symmetry sets and values for TLC | the module they name |

A definition marked *Mutant* or *A bug* is not part of a model: it is a faulty
variant of the definition it precedes, that shows a property can fail.

### ChatLists and ChatPositions

`chats[l]` is `ChatList._chats` of the list `l`; `folders` and
`mainChatPosition` are `chatListsFolders` and `_mainChatPosition`. Each update
handler is synchronous, hence one action: `UpdateChatPosition`,
`UpdateChatLastMessage`, `UpdateChatDraftMessage`, `UpdateChatFolders`. The
helpers `updateChatPosition`, `InsertByOrder`, `WithoutChat`, ... are the
methods of `ChatList` on a sequence. Two variables are history only: `latest`
(the contents TDLib announced last) and `unseen` (chats whose entry changed with
no listener run since). The one behaviour that surprises is kept: leaving a list
(order 0) returns before `_update()`, so the page is not told.

The environment: TDLib announces any order (0 means "leave"), any message, any
list of folders without repetition; contents come without positions only for a
chat that is in no list, as the comment at `chat_lists.dart` says.

### RxWorker

Isolates share nothing but the name server and ports; every look-up, message and
time-out is one step. `registered` is the port under `registrantId`; `pc[c]` and
`wpc[w]` are the places of a client's `_init` and a worker's `work()` between
awaits; `call[p]` is the request whose answer `p` awaits; `rx[w]` is the
registration port's queue, `td[w]` the objects on the way from the receiver
isolate or held until `_firstSub`. The token of `c` at `w` is `<<w, c>>`. The
environment variable `prompt` splits behaviours in two: isolates that read their
port answer before time-outs, or time-outs strike at any time. A kill takes
effect when the blocking `td_receive` returns (`ReceiverEnds`), and an object
may be swallowed by it.

### Accounts

`client[c]` follows one TDLib client through `create()` (`starting` .. `added`),
its authorization and `destroy()`. `Clients` are named when created; `users` is
the insertion order of the map `_users`. `disk`, `signedIn` and `saved` survive
a crash, all else is reset by `ProcessEnds`. A launch goes through `phase`:
`subscribing` while it awaits `subscribe()` (`runner.dart:43`), `closing` while it
awaits `_closeRedundantSessions` (52), then `restoring`, `waiting` and a page. Both
of the first two may last for ever: the one since `subscribe()` may never answer
(`SubscribeAnswers`), the other since the clean-up waits for old clients without a
time-out. `Settings.put` returns before it
has written: `writes` is the queue, lost at a crash. `taps` bounds what users
and servers may ask for.

An assumption of the model, not of the code: the 5 s pause of
`setTdlibParameters` outlasts the rest of `create()`
(`authorization_state.dart:45-50` tries once more and then throws).

Two behaviours of the code shape the model. `destroy()` closes a client's
streams and then calls `userManager.destroy()` again, whose `invoke(Close)`
throws: so `_users` never shrinks, directories are never deleted and the
callers' next lines never run (`DestroyThrows`). And the `LogOut` listener that
each change of the current account leaves behind is not cancelled and deletes
the account that is *then* current (`RemoteLogOut`).

### ChatBloc

`containers` is `_containers`; a `LoadMore` carries the number `made`, since the
code compares containers by identity. `asked` holds the `LoadMore` events whose
handler waits for TDLib: the bloc's handlers are concurrent, and two may be for
one container. The handlers treat both ends alike, but the page asks only at the
newer end (`!older`, `view.dart:164-197`), so an older `LoadMore` stays for as
long as the page does; and it asks when its native list sends `onLoadMore`,
which `ChatListView.kt` of this revision never does. So the events are an input:
`Directions` says for which ends they come, and nothing makes them come.
`opening` is the place of `_preload`. TDLib's answers and updates reach the bloc
in one order, so the model delays only the request.

`GetChatHistory` is TDLib's and modelled from its use: the message asked from is
in the answer (as `_loadChunk` relies on), up to `-offset` newer ones, then
older ones up to `limit`. If TDLib made up for missing newer ones with older
ones, or returned fewer than it could, the code's end markers would differ; the
model does not cover that.

### OggPages and OggPacker

`OggPages` has no buffer: `pend` is what no page holds yet, `queue` the pages
made, `given` the one handed out last. It fixes what a page is (segments in
order, whether it begins inside a packet, where its last packet ends, first and
last of the stream) and leaves open when one is made, but that a packet is split
only if a page is too small for it alone.

`oggp` of `OggPacker` is `struct oggpacker`: its arrays are sequences (`buf`,
`lacing`, `pages`) beside their allocated sizes, its positions count from 0.
`pc` is the place in the call under way: `CommitPacket` starts a flush when the
page would overflow or the muxing delay is over, `MakePage` is one round of the
loop in `oggp_flush_page`, `AppendPacket` puts the packet behind it and flushes
again for the delay; `GetNextPage` writes a header over the bytes in front of
the page, in place, and hands it out; `Chain` and `NewStream` begin another
stream. A failing `realloc` is `GetNoPacketBuffer` or `AppendFails`; after the
second one bytes lie in the buffer without lacing values (`torn`), and the model
stops. So it does when the assertion on the `realloc` of the pages fails
(`PagesFail`), and when a packet is longer than what is allocated (`Overruns`):
`alloc_size` is the size of `alloc_buf`, behind whose first `MaxHeaderSize`
bytes `buf` begins, while `buf_size` becomes the whole of it when the buffer
grows. Bytes are named by their packet and place, so a shift that loses or
repeats one shows. The refinement maps pages still in the buffers to `queue` by
reading them out of both buffers.

### OpusEnc

`enc` is `struct OggOpusEnc`, `streams` its list of `EncStream`; the packer is
`OggPages`, which `OggPacker` implements. The code's calls are actions enabled
at `pc = "idle"`, each followed by its steps: `Write` (with `Begin`, `Fill`),
`Drain` (with `Pad`), `ContinueNew`, `ChainCurrent` and `ChainFails`,
`FlushHeader`, `GetPage`, `SetFrameDuration`, `SetDecisionDelay`,
`DeferredInit`, `Destroy`; the loop of `encode_buffer` is `EncodeFrame`,
`CommitPacket`, `FrameDone`, `NextStreamBegins`, `Chained`, `LoopEnds`;
`InitStream` and `Tags` are `init_stream`. `opusFinish` drains and destroys
whatever drain returned. An assertion on the way of the samples that does not
hold leads to `pc = "abort"`. Three calls that the library takes and does not
survive are actions of their own (`Misuse`) and end the model: a header flushed
when the first stream has been begun and another is chained (`twice`), a page
asked for before the first header (`nopacker`), and a write, a header or another
stream after a drain (`nostream`). `reader` is history only: what a decoder
knows from the pages written, against which the properties are stated; `starts`
notes how much had been written when a stream was made, and `marked` the files
whose last `chain_current` failed. The unit of time is 2.5 ms; samples are 48
kHz, so there is no resampler between two buffers.

A fault sets `unrecoverable`, as in the code: a write, a close, an allocation or
the encoder fails at the step where it is called. A `stream_create` that fails sets
nothing: `ChainFails` has then marked the file to stay open all the same (878), and
so it has when the encoder has failed before or waits for its deferred
initialisation.

### OpusTags

Everything is bytes: comment packets, image files, header packets. `objects` are
the `OggOpusComments`, with their `seen_file_icons`; `streams` the `EncStream`s
with the copy they took; `sent` the headers. `said` is history: what the caller
put into an object. An image file is a structure (chunks, segments, where it is
cut) of which `Bytes` makes the bytes that `extract_png_params`,
`extract_jpeg_params` and `extract_gif_params` parse, and `Truth` says what it
holds. `Decoded` reads a comment packet as a decoder does. Base64 keeps its
sextets as numbers.

## 3. Runs

All pass unless marked; the last column counts distinct states.

| run | question | instance | states |
|---|---|---|---|
| `chat_lists_order` | Are pages sorted, free of repetition, and listeners told, whatever updates come? | 3 chats, 2 pages, orders 0..2, no contents | 2908 |
| `chat_lists_contents` | Are contents never older than announced; is the abstract specification implemented? | 2 chats, 2 pages, a message, a draft | 9721 |
| `rx_worker_life` | One receiver, one subscription, nothing lost, nobody unsubscribed by others? | 2 isolates, a disposal each, 1 object | 870585 |
| `rx_worker_init` | Does every `_init` end? | 2 isolates, a worker that breaks and restarts | 150744 |
| `rx_subscribe_hangs` (violation) | Does `subscribe()` always answer? | 2 isolates | |
| `accounts_life` | Is the current account known and saved, `Ready` heard, do databases survive, does a launch past its two unbounded waits reach a page? | 2 databases, 3 clients a process, 3 processes, 3 requests | 19231 |
| `accounts_run_twice` (violation) | Does a database run once? | 3 clients, 2 taps | |
| `accounts_log_out` (violation) | Is the current account reset by a log-out? | 1 client | |
| `chat_bloc` | No gap, one end per direction; do opening and every load that is asked for end? | 5 messages, 1 deletion, 2 requests at a time for either end, answers of 2 and 3 | 13948 |
| `ogg_packer` | Is nothing lost or moved while buffers shift and grow; is the abstract packer implemented? | 3 packets of 1 or 7 lacing values, 2 streams, pages of 3 | 61058 |
| `opus_enc` | Do the files hold what was written, whatever is chained, set or fails; are they closed once; does every call return? | 50 samples in calls of 10 and 40, buffer of 49, 2 streams, 1 fault and 1 setting, or pulled pages | 908949 |
| `opus_tags` | Do a decoder and the image parsers read what was put in? | 2 objects, 2 comments, 5 image files and an icon, 3 encoders | 76172 |

**The bounds.** Chat lists: two chats of equal order plus one to move between or
around them need 3 chats and 2 placing orders; contents are per entry, so two
chats show mixing. Receive manager: 2 isolates reach every replacement of a
worker by another while its client is in any state; `rx_worker_init` adds a
third worker by a restart. Accounts: 2 databases tell "last free" from 0, three
processes let a crash fall between a change and its saving, twice. Chat: 5
messages with answers of 3 need at least two further loads, two requests at a
time race for one container. Events come for both ends, but none has to: so what
the page does, which asks at the newer end at most, is among the behaviours.

Packer: the format's 255 lacing values of 255 are scaled to pages of three
segments of two bytes. A packet of one lacing value leaves room on a page, one
of seven fills two pages and begins a third; three packets make the buffers
shift with pages waiting and grow with none; two streams let pages of the first
be handed out after the second began. Encoder: a buffer of 49 is what a drain
needs and hardly more, so it fills, shifts and is padded within 50 samples;
calls of 10 leave frames open, calls of 40 fill the buffer twice; two streams
end and begin inside one frame. Faults and settings come where pages go to a
callback (`PulledAlone`), since every page that may be pulled or left multiplies
the states; the theorems have them everywhere. Tags: bytes and lacing values are
the real ones; the room of a picture file starts at 40 bytes so that it grows.
The parsers are checked by themselves on some 1500 further files, cut at every
kind of place, as assumptions of `MCOpusTags`.

**What holds only under a condition.** `ReceiverIsReachable` and
`OneSubscription` say `prompt`: with arbitrary time-outs the code does leave two
receivers. `ReceiverIsReachable` also needs that no worker broke and no more
than two isolates: with three, TLC finds a 13-step behaviour in which a late
unmap or ping time-out removes the mapping of a third worker. The application
has two (the UI's and the push handler's). `LaunchEnds` is about a launch that
has come past `subscribe()` and the clean-up of old clients: either may hold it for
ever. `LoadingEnds` is about containers that are asked for more; it excepts an
answer without messages, which leaves its container for ever (`bloc.dart:391`), and
a failed request, which replaces the chat by an error. `StreamIsWellFormed`
excepts what follows a keyframe of another length than the frame after it: the
code puts it where a keyframe of the new length would end (`opusenc.c:694`);
its theorem is for a lookahead above 0, which every encoder of libopus has. The
properties of `OpusEnc` about samples end with the first failure, as the code's
own state does (`unrecoverable`). Frames are of 20 ms at least; no call shortens
them (`LastRequest`). `NeverAborts` is about the assertions on the way of the
samples; of the other two it says when alone they can fail (see 5). In `OggPacker`
`CommitPacket` is not called between the last packet of a stream and the next
stream, and a caller that would write past the allocation ends the model there:
what the code does otherwise is under 5. `HeadersReadBack` excepts a mapping with
more channels than streams decode to, for the same reason.

**Fairness.** `RxWorker!FairSpec`: weak fairness of each client's steps and each
worker's steps (an isolate is scheduled, a timer fires) and of `ReceiverEnds` (a
kill takes effect); none for exits, disposals, breaks or TDLib's objects.
`Accounts!FairSpec`: weak fairness of what the launch and TDLib do, but not of
`Subscribed` and `SessionsClosed`, which may never happen; none for taps and
crashes, and none for leaving an account. `ChatBloc!FairSpec`: weak fairness of
`_preload`, the page's timer and TDLib's answers. Asking for more is not fair:
it is up to the user and the native list. Nor are failures, new messages and
closing. `OpusEnc!FairSpec`: weak fairness of `Goes`, the steps inside a call:
it runs on one thread and waits for nobody. The calls themselves are not fair,
nor are faults: while one may strike the step that succeeds is there too.

**Deadlock** is checked for the chat lists. In the others the system may really
stop: every isolate gone or idle, the launches used up, the chat closed, the
packets and samples of an instance used up or the encoder gone.

## 4. Proofs

`tlapm` checks every step; nothing is assumed but the modules' `ASSUME`s, which
the runs evaluate.

| theorem | statement |
|---|---|
| `ChatListsProofs!TypeCorrect` | `Spec => []TypeOK` |
| `ChatListsProofs!PagesAreSorted` | `Spec => []OrderedByPosition` |
| `ChatListsProofs!ImplementsChatPositions` | `Spec => ImplementsPositions` |
| `ChatListsProofs!EntriesShowLatest` | `Spec => []ShowsLatestContent` |
| `ChatListsProofs!OnlyRemovalsUnnoticed` | `Spec => []StaleOnlyByRemoval` |
| `ChatListsProofs!UpdatesMoveOneChat` | `Spec => OneChatMoves` |
| `RxWorkerProofs!TypeCorrect` | `Spec => []TypeOK` |
| `RxWorkerProofs!MappedAlwaysServes` | `Spec => []MappedWorkerServes` |
| `RxWorkerProofs!OnlyOwnersUnsubscribe` | `Spec => []NobodyElseUnsubscribes` |
| `RxWorkerProofs!FirstSubCompletedOnce` | `Spec => FirstSubOnce` |
| `RxWorkerProofs!NoObjectMissed` | `Spec => []NothingMissed` |
| `RxWorkerProofs!SubscribedOnce` | `Spec => []OneSubscription` |
| `RxWorkerProofs!OneReceiver` | `Spec => []ReceiverIsReachable`, for at most two isolates |
| `AccountsProofs!TypeCorrect` | `Spec => []TypeOK` |
| `AccountsProofs!CurrentAlwaysKnown` | `Spec => []CurrentIsKnown` |
| `AccountsProofs!CurrentAlwaysSaved` | `Spec => []CurrentIsSaved` |
| `AccountsProofs!ReadyAlwaysHeard` | `Spec => []ReadyIsHeard` |
| `AccountsProofs!DatabasesSurvive` | `Spec => AccountsSurvive` |
| `ChatBlocProofs!TypesHold` | `Spec => []TypeOK` |
| `ChatBlocProofs!ListShowsWhatItKnows` | `Spec => []ListedAreKnown` |
| `ChatBlocProofs!OneContainerPerEnd` | `Spec => []OneEndEach` |
| `ChatBlocProofs!NothingSkipped` | `Spec => []NoGap` |
| `OggPackerProofs!TypeCorrect` | `Spec => []TypeOK` |
| `OggPackerProofs!PagesAlwaysTile` | `Spec => []PagesTile` |
| `OggPackerProofs!DelayAlwaysKept` | `Spec => DelayKept` |
| `OggPackerProofs!BytesAreAlwaysLaced` | `Spec => []BytesAreLaced` |
| `OggPackerProofs!PackerImplementsPages` | `Spec => ImplementsPages` |
| `OpusEncProofs!TypesHold` | `Spec => []TypeOK` |
| `OpusEncProofs!NoAssertionOnTheWayFails` | `Spec => []NeverAborts` |
| `OpusEncProofs!BufferHoldsUnencoded` | `Spec => []BufferIsUnencoded` |
| `OpusEncStreamsProofs!ClosedOnce` | `Spec => []FilesCloseOnce` |
| `OpusEncStreamsProofs!StreamsPlayTheirSamples` | `Spec => []StreamPlaysItsSamples` |
| `OpusEncStreamsProofs!StreamsAreWellFormed` | `Spec => StreamIsWellFormed`, for `Lookahead > 0` |

**Chat lists.** For any chats, finitely many folders, any orders (naturals with
0) and contents. Lemmas about the list operators carry the argument: removing an
entry keeps a sorted list sorted and, when it was free of repetition, removes
the only entry of its chat; inserting before the first smaller order keeps it
sorted and, when the chat was absent, free of repetition; changing contents
touches neither. An update maps each page by these operators, so `TypeOK` with
`OrderedByPosition` is inductive.

The refinement reads a page as a function: the entry of a chat is the only one
with its id (`EntryOfElement`), so an operator on the sequence is a change of
the function at one chat, and each handler is the abstract step with the same
name or a stutter. Two facts carry it: the entry of a chat that was inserted is
the one inserted, and that of any other chat is where it was. `None` is assumed
to be neither an entry nor what one shows (`NullAssumption`), as Dart's null is
no object. `ShowsLatestContent` is then inductive with the refinement: a handler
that changes contents changes the entries of that chat in every open list, and a
chat enters a list with the contents announced in the same update.
`StaleOnlyByRemoval` and `OneChatMoves` are read off the operators: only the
early return for order 0 changes a list without telling its listeners, and a
change at one chat leaves the others in the order they had.

**Receive manager.** For any finite set of isolates and any number of restarts,
disposals and objects; the time-outs are not restrained.
`NobodyElseUnsubscribes` is about what is under way, so `IInv` says what that
may be:

- `PortsAreLegit`: an unsubscription in any port that names a token names one of
  an *excused* client, which has disposed or whose isolate has exited;
  `ExitsAreOver`: an exit listener about to run is one of an exited isolate;
  `TokensAreOwn`: a client disposes with its own token. Clients stay excused, so
  a message that is legitimate when sent is so when handled (`LegitStays`);
- `SubscribersServed`: a client that awaits an answer to "subscribe" and has
  been sent it is a subscriber of that worker, or excused. The answer and the
  subscription are one step of the worker, the token comes a step later;
- `FirstSubServed`: a worker that has had a subscriber has one, or is disposed.

Most steps change none of these (`QuietStep`, `OnlyObjectsStep`); the lemmas of
the messages a worker handles carry the argument. That `None` is no token is
assumed (`NoTokenAssumption`).

The three other invariants have an inductive invariant each, on top of `IInv`:

- `ObjInv`, for `NothingMissed`: receivers run only for workers that run or did
  (`ReceiversServe`), so an object is taken up by a worker that will hand it on
  or hold it until `_firstSub`. Every step keeps an object where it is or moves
  it on (`Kept`);
- `OneInv`, for `OneSubscription`: a client has one *place* (`OnePlace`), where
  it is subscribed or its request lies in a port that may yet be read. It has
  none before it asks (`NotYet`), and while it waits its place is the port of
  the worker it has asked (`Asking`). What makes a second request safe is why
  the first was given up: among prompt isolates only if the port was closed
  (`PortsAreClosed`: a closed port holds no request) or is that of a broken
  worker, which reads nothing;
- `ReachInv`, for `ReceiverIsReachable`: a worker that has registered stays
  registered until disposed of (`RegisteredServes`), as workers have owners of
  their own, which wait for them or are past that (`OwnersAreOwn`). With two
  isolates nobody is left to remove the mapping of a worker in between
  (`AmongTwo`); with three the invariant fails, as said under 3, so the theorem
  assumes `TwoClients`.

**Accounts.** For any number of databases, clients, processes and requests. That
no launch wipes the databases depends on the whole history: the setting names a
database that has a directory, so the restore runs it, so `fromDatabaseId` finds
it. The inductive invariant `IInv` adds to `TypeOK`

- about the disk: `SavedIsOnDisk`, `WritesAreOnDisk` (a database that is saved
  or on its way to be has a directory, or nothing has been chosen yet),
  `DirectoriesMade` (so has any client past `ParametersInit`), `FirstIsZero`
  (before any directory the first launch creates database 0, the default of the
  setting), `NothingChosen`;
- about a launch: `SavedIsRestored` (the saved database is still to do,
  starting, or running), `StartIsFresh`, `NeverWiped`;
- about users: `UsersAreRecorded`, `DeletedAreRecorded`, `ListenersNeedCurrent`
  (a user in the map has been added; deletion and `LogOut` listeners concern
  users that are in it).

Each is needed by the next: without `FirstIsZero` a crash before the first
setting is written would leave a directory that the default does not name. TLC
checked `IInv` before it was proved. The proof has one step per action.

**Chat page.** For any number of messages, deletions and requests, any limits
(above 1 for what is loaded further, `LimitsAssumption`). What TDLib answers is
a set of ids around one of them; the model finds the ends of that set by ranks,
not by sorting, so that the answer is defined without recursion. `Ranks`,
`Sorted` and `LeftOut` say that the sorted answer has each id once and leaves
out only what is beyond its ends. The inductive invariant `IInv` is `TypeOK` and
`NoGap` with: messages known are messages sent; what handlers wait for are
`LoadMore` containers; and `ListInv`, which ties the list to the messages known:
each is shown, no other is, and one container other than a message stands for
each direction. The step that matters is an answer for a container that may have
been replaced meanwhile (`MoreLoadedInv`): if it is still there, `SpliceKeeps`
puts the answer and the next container in its place; if not, nothing changes.
`AnswerJoins` says why no message is left out: the answer begins at a message
already shown, so what lies between is in both or in neither.

**Packer.** For any sizes of segments, pages, headers and packets, any number of
packets and streams, any muxing delay, and allocations that fail. `TypeOK` alone
says that positions are naturals, which a shift could break: it subtracts the
position of the first page from all others. So the inductive invariant needs the
pages' order, and for that where each begins and ends. `IInv` is `TypeOK` with

- `Shape`: what is begun is filled (`Filled`), nothing is filled past the size
  it is compared with (`Room`), every page lies before what no page holds
  (`PagesInRange`), in order (`PagesInOrder`) and end to end (`PagesAdjoin`);
  and `Oversized`: lacing values for more than a page are one packet's, all full
  but the last. The code reckons the bytes of such a page as 255 times 255
  without adding them up (`ogg_packer.c:339`); this is why that many bytes are
  there;
- `Control`: what a call relies on from one step to the next: the packet about
  to be appended was asked for and fits the buffer, a flush begun has something
  to flush or ends, `cont` is what the last round left.

Each helper of the struct has a lemma that it keeps `Shape`: moving positions by
less than the first page's (`MovedKeeps`, `ShiftedKeeps`), growing
(`GrownBufKeeps`, ...), appending lacing values (`WithLacingKeeps`), making a
page (`WithPageKeeps`), handing one out (`HandedOutStays`). The steps of `Next`
cite them. The size the buffer is compared with is not what is allocated behind
it: `AllocInv` says that the two differ by `MaxHeaderSize` at most and that what
is committed lies in the allocation, which a step leaves only through
`Overruns`. TLC checked `IInv` on the instance of `ogg_packer` before it was
proved.

What the bytes are is proved on top of that, of the *content* of the struct
(`Content`): the lacing values and bytes of each page and of what waits, without
the positions where they lie. Each helper is described once by what it does to
the content: shifting and growing nothing (`MovedShowsTheSame`,
`GrownShowTheSame`), an append adds to what waits (`AppendedShows`), a flush cuts
a page off its front (`PageMade`, `CutShows`), a fetch takes the first page
(`HandedOutShows`). The invariant is `LInv`, that is `IInv` with

- `Flows`: every page has as many bytes as its lacing values add up to
  (`PagesLaced`), and so has what waits (`Laced`), unless a packet has lost its
  lacing values; and what waits ends with the last value of a packet
  (`LastEnds`), so that a rest that is carried on into the next page is
  recognised by its lacing values alone;
- `Counted`: packets and granule positions within the bounds of the model, which
  `OggPages` has as its sets of packets and positions. `BoundsAssumption` says
  that these bounds exist, nothing more.

`NextMaps` then takes each action to the step of `OggPages` with the same meaning
or to a stutter. In between are the segments: `Cut` of bytes by lacing values,
whose ends are running sums. `SumProofs` proves what is needed of those (they
exist, are unique, split where the sequence is split) by induction over the
length, from the least counterexample that a well-founded relation gives
(`LeastOf`); `CutJoins` and `CutSplits` carry it to segments, and `PacketIsCut`
says that `Segments` of a packet, as `OggPages` defines them, are what its lacing
values cut off. TLC checked `Flows` and `Counted` as well.

**Encoder.** For any calls, settings, chaining and failures, and any buffer that
has room for the padding, a drain's lookahead and two frames
(`BufferAssumption`, which is what `BUFFER_EXTRA` is for). Whether an assertion
on the way of the samples fails depends on the samples in the buffer, and these
on what every call did before; the inductive invariant `IInv` of `OpusEncProofs`
is

- `ControlInv`: where a call may be, and that what is under way knows its call;
- `StreamInv`: the streams end one after the other, the last at what is written,
  and only the first may have its headers out; the offset of a stream lies
  behind the samples encoded;
- `FrameInv`: the frame under way is in the buffer and begins before its stream
  ends; outside a frame nothing beyond the stream's end is encoded;
- `SamplesInv`: `BufferIsUnencoded`; while draining more is in the buffer than
  every stream needs, so the loop ends with the last stream and not for want of
  samples; and whenever a drain may come at most the longest frame and the delay
  are left in the buffer, so that the padding fits.

The last is the hard part: it holds at the end of the loop because the loop ends
only when a frame and the delay do not fit, and it is why the assertions in
`ope_encoder_drain` hold (`opusenc.c:829`, 849). `EndInv` says of the other two
assertions how alone they can fail: a stream is begun twice only with another
chained behind it, a stream is missing only after a drain.

`FileInv` of `OpusEncStreamsProofs` is about the files. The streams of the list
write to files in order, and one that closes its file is the last to write to it
(`InOrder`). Each file stands in one of three ways (`Standing`): a stream of the
list will close it, and nobody has; or the last `chain_current` on it failed, no
stream will close it and nobody has; or it is closed and no stream writes to it
(`Counts`). A `close()` that failed counts as tried. So when the encoder is gone
a file is open exactly if it is `marked`, also where the encoder records no
failure and a drain succeeds.

`PlayInv`, in the same module, is about what a stream plays. The number a reader
gets by subtracting the preskip in a stream's first page from the granule
position of its last one was decided at three different times, by the code that
begins the stream, by the code that sends its last packet, and by the calls that
chained it and the stream after it; so the invariant carries it from there to
the reader.

- `StartsInv`: a stream of the list ends where writing had come to when the next
  one was made, and the first one's preskip and offset add up to where it began,
  the lookahead on top. `NextStreamBegins` keeps this because the frame and its
  keyframe are added to the one and taken from the other (`opusenc.c:678-683`).
- `LastPacketInv`: a packet that ends a stream says where what it plays ends, and
  is flushed at once, so no packet of the next stream shares its page. `HeadInv`:
  nothing is before the header, which is flushed at once too. Both need a page to
  hold a packet (`PageAssumption`).
- `Follows`: some numbering of the queued pages counts a stream at each first
  page, from the stream the reader is in to the last one whose header is on a
  page; each first page tells the preskip of its stream, each last page agrees
  with it, and a stream with a last page on its way is over, so that writing and
  chaining, which move ends, no longer move its.

It is claimed as long as no call has failed: after a lost page the numbering does
not fit, and the property says nothing. TLC checked `IInv` and `PlayInv` on the
instance of `opus_enc` before they were proved.

`FormInv` is about the pages between the packer and the reader, as a line of
pages of which each follows the one before it; the property speaks of the two
pages at the reader's end of the line, while the code decides at the other end.

- `LineInv`: each queued page follows the one before it (`PageFollows`: numbers,
  kind of packets, granule position), and so would the page that what is pending
  makes now. `EndedInv`: behind the last page of a stream nothing is pending
  until the next stream begins. `ReadInv`: what the reader counted agrees with
  the page it was handed last.
- `PartInv`: the header and the tags are the pages 0 and 1 and have them to
  themselves.
- `ClockInv`: the encoder's clock, counted from the offset of the stream, less
  what is `Left` to hand over (a frame, while a stream is chained a frame and its
  keyframe) is where the packets in the packer end (`Reached`). A keyframe of
  another length than its frame breaks this, which is why the property excepts it.
- `BehindInv`: a stream ends behind the frame before the one under way, so the
  last packet is not longer than what it is cut by.

How long a page plays is a sum over its packets. The fold that defines it is
shown equal to a function of running sums (`DurationIsSum`), whose facts are in
`SumProofs`; from these come the two lemmas the steps need: an empty page plays
nothing, a packet more makes it that packet longer (`DurationGrows`).

The theorem assumes `Lookahead > 0` (`OPUS_GET_LOOKAHEAD` answers 2.5 ms at
least): with 0, a stream that is ended before any sample was written would end
where its only frame begins and not inside it. Like `PlayInv` it is claimed while
no call has failed, and TLC checked it on the same instance first.

**Model-checked only.** All liveness properties (`InitEnds`, `LaunchEnds`,
`OpeningEnds`, `LoadingEnds`, `CallsReturn`), since TLAPS has no fairness or
`ENABLED`. Everything about `OpusTags` (`PicturesReadBack`, `HeadersReadBack`),
whose parsers and Base64 are recursive over bytes.

## 5. Where code and documentation disagree

Each is a run that TLC finds violated, quoted with its lines in `PROJECT.json`.

- `SubscribeAnswers`: `subscribe()` "Returns true if succeed", but its future is
  completed by success alone; a caller whose start failed waits for ever.
- `DatabaseRunsOnce`: "DB $id is already running" guards `create(id)`, but
  `create()` chooses a database before an await and records it after: two quick
  taps on "Add account" start one database twice.
- `LogoutResets`: "In case of logout, it'll be set to -1 or first available
  database", but `destroy()` throws before that.

Three more are steps at which the models end; the properties bound when these come.

- `Overruns` of `OggPacker`: "The buffer will have size "bytes""
  (`ogg_packer.c:232`), but a buffer that has grown takes the room for a header,
  which lies in front of it, for its own (244-251): a later request may end up to
  282 bytes past the allocation, and no further (`PagesTile`).
- `FlushHeaderTwice` of `OpusEnc`: "assert(!enc->streams->stream_is_init)"
  (`opusenc.c:519`), but `ope_encoder_flush_header` tests the last stream (917-918)
  and begins the first: with a stream chained, and only then (`NeverAborts`),
  flushing the header twice fails the assertion.
- `GetPageTooSoon` of `OpusEnc`: "return 1 if there is a page available, 0 if not"
  (`opusenc.h:336`), but before the first header `ope_encoder_get_page` hands the
  packer's functions a null pointer (812-813).

Other behaviours met while modelling contradict no text and are kept as they
are: `active` stays true after `dispose()`; a worker that has had no subscriber yet
takes the token an exit listener sends for the last unsubscription and disposes of
itself (`worker.dart:111`); a client that exits between the
worker's answer and `addOnExitListener` leaks its subscription; the log-out page
closes the client and never logs out at the server, so the account is back after
a restart; at the newer end of a chat the next container is put before the
messages just loaded, and these repeat the one asked from (the page sorts the
ids it draws); `ChatBloc.dispose()` is never called; the subscription to new
messages is never made, so a chat marked as having no newer ones does not show
those that come.

Of the packer and the encoder:

- pages of a stream handed out after `oggp_chain` carry the serial number of the
  next one;
- `opusenc.c` ignores what `oggp_commit_packet` returns, so a failed allocation
  in the packer loses a packet silently and its bytes join the next page;
- a failing `close()` leaves the stream in the list, and `ope_encoder_destroy`
  closes it again; `ope_encoder_chain_current`, failing, has marked the file to
  stay open (878) and nobody closes it;
- a failing `init_stream` while the next stream begins does not stop the loop,
  which commits another packet before it ends;
- a setting of the serial number or the gain is accepted when the header is out;
  a gain is not checked for its 16 bits; after a drain there is no
  stream: `ope_encoder_continue_new_callbacks` asserts that there is one (904), a
  write, a header and `ope_encoder_chain_current` follow the pointer;
- a deferred initialization copies as many entries of the mapping as streams
  decode to, not as there are channels (513), and the header then holds bytes
  nobody has written;
- `ope_comments_add_picture` returns success, with the icon marked as seen, when
  its comment could not be stored;
- of two IHDR chunks the PNG parser takes the later one;
- at the end of a JPEG the parser reads one byte behind the data (`picture.c:201`),
  which `ope_comments_add_picture_from_memory` has not allocated; it does not use
  it, and the model does not read it.

Of what is not modelled, read for the inventory:

- the native functions are named `Java_ru_tdrk_handygram_...` while the class is
  in `clapps.be.watchgram`: the first call of a recording cannot be linked, and
  the error is not an `Exception`, which is what the channel's handler catches;
- leaving the voice page, or touching the button twice, while the first start is
  under way leaves a recorder nobody stops;
- the waveform of a recording of less than a hundred samples is filled in part;
  its array is reckoned one byte short of its 500 bits
  (`WaveformGenerator.cpp:90`); its first bucket is one sample; a decoder that
  fails is asked for ever;
- payloads of notifications are kept per database: the other account's
  notifications are found without one and cancelled, while an account's own are
  never found superfluous (`notifications.dart:188`); an empty group of mentions
  makes `first` throw; two groups of one chat share the first entry.

## 6. What is not modelled

- Within modelled components: `requestLoadingMoreChats` and the load flags of a
  page (they forward a request); `createLite`, `dispose` of the multi manager
  (push isolate); what `_closeRedundantSessions` does to each old client (in
  `Accounts` it is one step, which may never come); the lines after `destroy()`,
  which are never reached; what follows a wipe of the databases, shown not to
  happen; the handlers of `ChatBloc` for events that no page sends
  (`_loadChunk`, `_loadLatest`, `_cleanup`, `_viewMessage`),
  `_onMessagesUpdate`, which is never called, and `openChat`; of the encoder the
  resampler (`enc->re`), which is off at 48 kHz, the rate the recorder asks for
  first (44.1 kHz if the microphone refuses); the extrapolation behind the last
  sample (`lpc.h`), which changes values and not counts; frames below 20 ms;
  projection families, whose header holds a matrix; `OPE_GET` and codec
  settings, which pass a value through; packet callbacks; reading an image file
  from disk beyond its bytes and a failing allocation; the reads of the
  waveform.
- The recorder of voice messages: the native functions it drives cannot be
  linked in this revision (see 5), so every behaviour past its first call is one
  the program does not have.
- Data: texts, photos, names, pinned flags, sources of positions, samples and
  what the codec makes of them: opaque values.
- Drawing, layout, input, translations, libopus and SpeexDSP, and the caches
  that keep one value of one update: no two of their steps interact.
- TDLib itself, Android and Firebase: the environment, nondeterministic.

## 7. Plan

Done: `ChatPositions`, `ChatLists`, `RxWorker`, `Accounts`, `ChatBloc`, in this
order, the core first: the lists every page shows, the loop every account needs,
the accounts and their launch, one open chat; then the native encoder from
below: `OggPages`, `OggPacker`, `OpusEnc`, `OpusTags`.

Next modules, most important first:

1. `Notifications`: groups of the provider (`notifications.dart:43-104`), what
   the service shows, cancels and saves (`141-262`), receivers saved by
   read-modify-write. Abstract specification: the notifications shown are those
   TDLib holds. Runs: two accounts with one chat, two pushes.
2. `UserSession`: `invoke` with time-outs and late answers, the authorization
   states, the callbacks of providers. Composed with `Accounts` by the steps of
   a client. Runs: one client, three requests.
3. `PushSession`: a second isolate over the accounts' databases, the clean-up of
   clients of a dead UI, failures of each step, the background handler. It
   composes `RxWorker`'s promise (a client is subscribed or not) with
   `Accounts`'.
4. `Setup`: the wizard over `Settings.put`, and the authorization page.
5. `Files`, `Proxies`, then the voice recorder (once its native half can be
   called) and the waveform.

Next theorems: the invariants of the new modules; of those there are, every
safety property but the two of `OpusTags` is proved.

Runs stay one per question: where a new module needs one, the liveness runs of
the same module are merged first.
