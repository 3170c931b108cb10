# Frash: a verification development

Frash runs Android's `libflashplayer.so` on iOS. Two processes matter: the
**host** (the WebKit plug-in `Player2/`, inside Safari) and the **player**
(`food/`, which loads the ARM ELF and emulates the part of Android it needs).
They talk over one TCP connection per movie with the RPC runtime that
`rpc/PROTOCOLBUFFERS.py` generates for both sides from `rpc/food.proto`. A third,
small process, `food/food_wrapper.c`, is started by launchd, accepts the
connections and forks one player for each.

This directory holds TLA+ models of the concurrent core, the TLC instances that
check them, and TLAPS proofs about them. `PROJECT.json` is the index: components,
runs, mutants of the models that each property must reject, the map from
definitions to source lines, hazards, findings and theorems.

## 1. Inventory

| Component | State | Operations | Hard behaviour |
|---|---|---|---|
| RPC, synchronous calls (`PROTOCOLBUFFERS.py` 205-281, 359-370, 424-524; `common.c` 149-237) | `msgids`, `rpc_states`, `rpcserve_alive`; a frame `{cond, mut, src_fd, msg}` on the stack of each call | stub, response half of the reader, `rpc_applier`, `do_abort` | threads share the registry; `s->msg` is set without `s->mut`; the frame dies while the reader may still touch it; loss of the connection in every state |
| RPC, sending (58-106, 489-508) | `pending_sends`, `send_mutex`, `send_cond`; socket buffers | `xsend`, `xsend_thread`, framing at the other end | one thread sends for all connections, piecewise; errors and the host's send and receive timeouts in the middle of a message |
| RPC, serving (372-479, 489-533) | `rpcctx_info` (`mut`, `bigmut`, `messages`), the run loop source, `errno` | reader thread, `rpcctx_perform`, `rpcerrctx_perform`, teardown | hand-over between threads, teardown against a running handler, `mut` destroyed while in use |
| Host, FServer (`server.m` 115-217) | `rpc_fd`, `sekrit`, `delegate`, `objects`, the map `servers` | init, `dieWithError`, `teardown`, error callback, handlers | descriptor numbers are reused; error callback against teardown |
| Host, URLDude (`server.m` 38-113, 234-296) | one thread per stream | response, data, completion | three messages on one thread race the reply on another |
| Host, object names (`server.m` 319-424) | `objects` | `nameForObject`, `objectForName`, property and invocation handlers | names must stay stable; conversion of arguments |
| Host, view (`PluginFlashView.m`, `FlashViewController.m`) | `on`, `started`, `rpcfd`, `sfc`, `errorLabel` | start, stop, click, frame, surface, touches | any order of WebKit callbacks; stale `rpcfd` |
| Wrapper (`food_wrapper.c`) | kqueue, one notification per player | accept, send secret, fork, watch, kill, idle exit | pid reuse, failure of one step of several, timeout |
| Player, streams (`np.c` 338-440) | `NPStream` | get/post URL, response, data, done | messages may precede the reply that completes the stream |
| Player, objects (`np.c` 60-328) | identifier set, proxies with reference counts | get/invoke property | two sides convert the same arguments |
| Player, surface (`classes.c` 356-451, `anp.cpp` 1127-1203) | `movie_*`, `pending_movie_*`, `locked`, `sfc_dirty`, `sfc` | size change, lock, unlock, refresh | a size that arrives while Flash draws |
| Player, audio (`anp.cpp` 96-213) | track, its mutex, three buffers | new, start, pause, stop, delete | callback thread and starter thread against delete |
| Player, typefaces, raw data (`anp.cpp` 344-556, `common.c` 27-95) | owner counts | ref, unref, set | the order of ref and unref, on one thread |
| Player, loader and stubs (`food.c`) | stub pool | relocate, resolve, `stubify` | sequential |
| Player, Java classes, fixups, other drawing | tables | lookups, adapters | none |

Interaction: the player's stub puts a request on `pending_sends`; `xsend_thread`
writes it to the socket; the host's reader thread cuts it out, queues it and
signals a run loop source; the host's main thread runs the handler and queues the
reply on the host's own `pending_sends`; the player's reader thread finds the
frame by msgid and wakes the caller. Only the player makes synchronous calls;
the host sends asynchronous requests (size, touches, stream data), which the
player's main thread serves between, never during, its own calls.

What must be right, by component:

* **calls** - every call gets its own answer or fails with the connection, at
  most once and in the end; nobody writes into a dead stack frame; losing the
  host ends the player;
* **sending** - whole messages, once, in order, per connection; senders never
  block; nothing is left behind in the queue;
* **serving** - requests handled once, in order, none stranded; nothing handled
  after the error report; the context outlives its use; the end is reported;
* **streams** - one response, then data, then one completion per stream, none of
  it before the stream has its URL, no use after it is freed;
* **surface** - the size Flash draws with converges to the last size set;
* **host life cycle** - a message meant for one movie never reaches another;
* **wrapper** - every player is killed when its host says so, and no one else;
* **audio** - one buffer is filled at a time, never one that is being played, and
  the track keeps playing.

The list of hazards, each with its line and the properties that watch over it,
is in `PROJECT.json`.

## 2. Modules

| Module | Role |
|---|---|
| `RpcService` | abstract: a call returns at most once, with its own answer or, while the connection is not served, with status 2; of a broken stream only that it returns at most once |
| `RpcCall` | the stub, the registry, the reader thread, `rpc_applier`, `do_abort`; the host as environment |
| `RpcChannel` | abstract: a FIFO of whole messages per connection, until it breaks |
| `RpcSend` | `xsend`, `xsend_thread`, socket buffers, framing at the receiver |
| `RpcServe` | one connection of one process: reader thread, message array, run loop, `rpcctx_perform`, teardown |
| `StreamContract` | abstract: what Flash may rely on for each stream, as long as it takes what it is offered |
| `UrlStream` | opening of streams, the three connection handlers, `new_get_connection`, `URLDude` |
| `Surface` | `set_movie_size`, `refresh_size`, `surface_impl_lock` and `unlock`, on one thread or two |
| `MovieState` | the descriptors, connections and notifications that the processes around a movie share |
| `PluginHost` | extends it: the plug-in view and `FServer` |
| `Wrapper` | extends it: the launch wrapper and the players it forks |
| `Movie` | the composition of `PluginHost` and `Wrapper` |
| `AudioTrack` | an audio track, its starter threads and the callback of its queue |
| `RpcCallProofs`, `RpcReplyProofs` | theorems about `RpcCall` |
| `RpcSendProofs`, `RpcServeProofs`, `UrlStreamProofs`, `SurfaceProofs`, `MovieProofs`, `AudioTrackProofs` | theorems about the module of that name |
| `MC...` | the instances TLC checks; the values are in the `.cfg` files |

Operators whose comment starts with "Mutant:" are plausible bugs. They are not part of
the specification; each property is shown to reject one of them.

### RpcCall

`pc[c]` walks through the stub: `idle` -> `numbered` (msgid taken) -> `registered`
(`CFDictionarySetValue`) -> `sent` (`xsend`) -> `locked` / `towait` / `waiting` /
`woken` (the `while(!s.msg)` loop) -> `returned`. `towait` is the gap between the
test and `pthread_cond_wait`. Sections under `rpc_states_mutex` are single
actions, since nothing in them blocks; accesses to a frame are separate actions,
since the reader writes `s->msg` without `s->mut`. `Wake` is lock, signal and unlock of
`s->mut`; the stub never unlocks `s.mut`, so if it has returned in between, the
lock is of a locked mutex in a dead frame: the model lets it succeed (the memory was reused) or never
return (`reader = "stuck"`). `reader` goes `starting` -> `recv` -> `found` -> `wake`
-> `recv`, and after the connection ends `apply` <-> `applywake` -> `gone`.
`aborting[c]` says that thread c is in `do_abort`; its next call is `abort_msg`,
after which it exits whatever the result. The error callback runs when the main
thread is back at its run loop. `src_fd` is left out: the player has one
connection. Status 3 (reply shorter than announced) and status 1 (`xsend` never
fails) are left out. `AssertDies` is the one caller that uses the C library's `assert`
(`np.c:177`). `toHost` and `toFood` are everything between the two main loops:
queues, sockets, the host's run loop; `RpcSend` and `RpcServe` look inside.

`HostCut` is a timeout of the host's socket in the middle of a message, in either direction. The
stream is then out of step, and `ReaderMisread` lets the player's reader make anything of it that
the code can: end the serving with the host still there, or wake any registered call with a response
nobody sent, which is possible because only the msgid is compared. `cut` records it. What is about
the right answer or about getting one is claimed before a cut only; that frames are live, that nobody
sleeps through its message, that the registry is left alone and that the loss of the host ends the
player is claimed after it as well.

### RpcSend

A message is a sequence of units; the first `HdrLen` are the header, and the first of those
holds the magic number and `msgsize`. `xsend` is one
action because it holds `send_mutex` throughout; `xsend_thread` holds the mutex in
`locked` only. `SendSome` is a `send` that took some units, limited by the free space
of the buffer; `SendError` is a `send` that failed, because the connection is gone or,
for descriptors in `TimedFds`, because the buffer stayed full until `SO_SNDTIMEO`.
The host sets that option and `SO_RCVTIMEO` (`server.m` 149-153), the player sets neither. So each
direction of a connection has one of them: where the host sends, in `TimedFds`, the sender has a
timeout; where the player sends, the reader has one. TLC's instance has one of each.

The reader takes a header and a body unit by unit. When its timeout strikes, `RecvTimeout` is the
`recv` that has read nothing and sets `errno`; inside a header `recv` returns what it has, and the
reader drops it (`DropHeader`) if `errno` is still `EAGAIN` from before, or returns (`RecvShort`), as it
does inside a body. `cut` records the connections that lost units to either timeout. A timeout falls
between two units, and magic and size are in one unit, so the reader never sees half of them;
the tests of `msgsize` (501-505) do not fail here, for a message out of step fails on its magic first.
Peers stall, resume, exit; `CloseFd` closes
at this end. Reuse of a closed descriptor's number is in `PluginHost`.

### RpcServe

`side` says whose process this is: only the host has receive timeouts, and only the
player's handlers make calls. `CFArrayAppendValue` and the removal at the head are two
actions each, read and write back, so that overlapping accesses lose or repeat
elements; `raced` records that they overlapped. While the mutex exists they cannot. `DestroyMut` is the
`pthread_mutex_destroy(&info->mut)` in the loop of `rpcctx_perform`: it fails while
the reader holds the mutex; after it, locking fails and excludes nobody, which is
what Darwin's pthreads do with a destroyed mutex. After `raced` the order of requests is
no longer claimed. `errno` is the reader thread's; `recv` sets it on errors only.
`RecvCut` is the next message cut by a timeout of the host: it is lost, or read as the
response that a handler waits for, or it ends the serving while the peer is there. How the reader gets
out of step, and the checks of the header, are in `RpcSend`. After `cut` order and completeness are
no longer claimed; teardown, the error report and the hand-over to the main thread are.

### UrlStream

The player's main thread (`stage`, `cur`), its reader (`Receive`), the host's handler
(`NewConnection`, `HandlerSends`) and one `URLDude` per stream. A handler that calls
Flash is split where Flash runs: in `newstream`, `write`, `destroystream` and
`urlnotify` Flash may open further streams, whose synchronous call then suspends the
handler (`nested`, `CallbackReturns`) while messages keep arriving. The run loop does
not run while the main thread waits in a call: that, and nothing in the handlers, is why
`stream->url` is filled when `connection_all_done` reads it. Messages carry the
address of the `NPStream`; `id` is the stream that was meant, known to the model only,
so that `HitsItsStream` can tell a stale address. `toFood` is both queues and the socket,
assumed to be FIFO and without loss: `RpcSend` and `RpcServe` promise that only as long as no timeout of the
host's socket has cut a message and no accesses to the array overlap, so this module is about
connections before that. `WriteReturns` is one turn of the loop around `NPP_Write`, which takes
all, some or none of what it is offered, or fails with -1. The code offers the message from its start
again, at the new `ndata`, until `remain` is 0; `short` records the streams of which less was taken than offered, and
what Flash then gets is excused. `newstream` and `destroystream` may fail (`Abort`).
Left out: the contents of the bytes, several responses of one `NSURLConnection`, and the loss of the
connection (`RpcCall`). A stream with a target never gets a message, as in the code.

### Surface

The code has no mutex, so each assignment to a variable that both sides use is an
action; `t` is the thread that runs `refresh_size`. `onMain` is chosen in `Init`: Flash draws on
the main thread, where the two take turns (`MainFree`, `DrawFree`), or on its own. It may also
draw before there is a surface: `lock` then makes an empty bitmap, `IOSurfaceGetAllocSize(NULL)`
being 0, and `unlock` returns early with the flag set; `early` records that the first surface was made
in between. `broken` records memory that is overrun or released twice. Initially `new_fps`
has run. Left out: the dirty rectangle and the conversion of pixels.

### MovieState, PluginHost, Wrapper, Movie

Connection `c` is the one made for the `c`-th `FServer`; `file` is the host's descriptor
table, `far` who holds the other end. `PluginHost` refers to connections the way the code
does, by descriptor number: the reader `recv`s from whatever its number stands for now
(`FileOf`), the callbacks look up `servers` (`ServerOf`), and `xsend_thread` takes the number
from the message. `Fresh` lets the kernel give out every number again.
What the host has not read of a connection is discarded when it closes it, and what is sent to it
afterwards goes nowhere (`StillOpen`, `Send`). `wrong` and `killed`
record what reached the wrong movie before a number was given out twice; `killed` leaves out players whose own
notification is `Lost`.
`webPlugInStart` is two actions, because the stop it begins with releases the number that the
socket it goes on to make may get. The wrapper's loop is split at each system call
that another process can come between, and each may fail as the code lets it: `fork` (`ForkFails`,
`ForkNoMemory`), `kevent` and `accept` (`LoopEnds`), `notify_register_file_descriptor` and `EV_ADD`
(`Watch`: the player's notification is `Lost`, or `notify_fd` is that of an earlier turn, whose entry then gets
the new pid). A connection leaked by a failed `fork` is inherited by later players and ends with the
last of them (`HeirsEnd`). Players leave when the host does, abort (with or
without a last word) or hang. Left out: the error label and other
display, the host's timeouts (`RpcSend`, `RpcServe`, `RpcCall`), the wrapper's check-in with launchd, and processes
other than players that might get a pid.

### AudioTrack

`audiotrack_starter` and the queue's callback both go through `trackCallbackProc`: `lock`,
then `fill` under the mutex. `start` and `deleteTrack` are two actions each, because
the threads run between the flag and `AudioQueueStart`, and between `AudioQueueDispose` and
`delete`. The AudioQueue is external: it plays in order, refuses a buffer it already has,
and does not call back once it is disposed of. `early` records that Flash started or deleted the
track while a thread was busy with it, or started it with buffers still queued; `harm` what went
wrong. `stop` may come from a callback, also between the two halves of the start that made its thread. One track, since tracks share nothing.

## 3. Runs

| Run | Instance | Distinct states | Result |
|---|---|---|---|
| RpcCall | 2 threads, one of them main; 2 ordinary calls plus the calls of `do_abort`; statuses ok and refused; a cut before the first answer | 543,400 | all properties hold |
| RpcStartup | same | | violated: a call before the reader thread has started fails |
| RpcAbort | same | | violated: `do_abort` may never exit |
| RpcSend | 2 senders, 2 connections, one with a send and one with a receive timeout; 2 messages of 2 or 3 units, 2 of them the header; buffers of 1 unit | 355,776 | all properties hold |
| RpcSendTimeout | same | | violated: a bad magic number on the connection with the timeout |
| RpcServe | 4 requests, both sides | 111,129 | all properties hold |
| RpcServeFree | same | | violated: the context is freed before `rpcctx_perform` has locked it |
| RpcServeTimeout | same | | violated: the end of the stream is never reported |
| UrlStream | 2 streams of any kind, 2 addresses, 2 bytes per stream in messages of 0 or 1, 2 messages in flight; at most 2 bytes of a message outstanding, 2 taken of a stream | 984,283 | all properties hold |
| Surface | widths and heights 1 to 3, 3 calls of `set_movie_size`, Flash on either thread | 596,805 | all properties hold |
| Movie | 2 connections, descriptors 3 and 4, pids 101 and 102, 1 size or touch | 645,275 | all properties hold |
| AudioTrack | 3 starts | 10,282 | all properties hold |

Properties, by run. Each module has a type invariant, `TypeOK`, proved for every one in section 5; TLC
checks it again in RpcServe, Surface and Movie, where it says more than which values a variable has
(a response is never handled as a request, the unset height reaches no surface, no secret is
posted that never came).

* **RpcCall** - `DeliveryHitsLiveFrame`, `NoLostWakeup`, `NobodyForgotten` (each
  waiting call is registered and its request or reply exists, or the connection is
  down and it will be failed), `OwnReply`, `RegistryFrozenWhileApplied`
  (`rpc_applier` needs no mutex), `CallReturns` and `LossEndsPlayer` (liveness, with the
  stuck reader as the stated exception), `ServiceSpec` (refinement of `RpcService`).
  `NobodyForgotten`, `OwnReply` and `CallReturns` speak of the time before a timeout of the host has cut a message.
* **RpcSend** - `NoSleepingBacklog`, `NeverDesynced`, `NothingVanishes` (what was taken and has
  not arrived is somewhere on the way), `XsendReturns`, `AllArrives`, `ChannelSpec` (refinement of
  `RpcChannel`, until a timeout cuts a message of the connection).
* **RpcServe** - `OrderUntilRace`, `NoStrandedRequest`, `NothingAfterError`,
  `AllHandled`, `EndReportedUnlessDeaf`.
* **UrlStream** - `UrlFilledBeforeUse`, `HitsItsStream` (no message under way names an
  address that was freed or given to another stream), `BytesAtTheirOffset`, `NothingForgotten` (a call and
  an unclosed load have something under way that will end them), `ContractSpec`
  (refinement of `StreamContract`: newstream, all bytes, destroystream, at most one urlnotify),
  `EveryLoadEnds` (liveness).
* **Surface** - `LockWorksOnMain`, `SyncsWhatIsShown`, `SettledAtRest` (no size waits while neither
  side is at work), `SizeSettles` and `HostCatchesUp`
  (liveness: the last size is applied and its surface shown, however it came).
* **Movie** - `OneMovie`, `OwnUntilReuse`, `KillsOnlyTheStopped`, `StoppedPlayerEnds`
  (liveness: a player whose secret was posted ends although it may hang).
* **AudioTrack** - `FilledAlone`, `NoBufferLost` (a playing track has both buffers in the round),
  `KeepsPlaying` (liveness).

Bounds. *RpcCall*: two calls let two threads be in stubs at once, or one thread make a call
after a finished one, which is what reuse of a frame needs; the calls
of `do_abort` come on top, one per thread. `MaxBefore` is 0: TLC lets a cut come before the host's first
answer only, with any calls under way, which keeps the run within minutes; the proofs have no such
bound. *RpcSend*: two messages of up to three units over two
connections are enough for a fragment followed by a message on the same connection, for
head-of-line blocking and for both orders of two senders; a buffer of one unit makes
every message go out in pieces, a header of two units lets a timeout fall inside it, and a third unit inside
the body. *RpcServe*: four requests let the
mutex be destroyed, an append overlap a removal, and requests follow. *UrlStream*: two
streams are needed for an address to be used again, for one stream opened inside a
callback of the other, and for a URLDude's messages between those of a handler; two bytes in two messages
for the offset to matter. `MaxFlight` holds back a URLDude only; a reply and the messages of a
handler are never held back. `MaxRemain` and `MaxGiven` end the loop around a `NPP_Write` that takes
too little for ever; they allow an offer to be repeated after a short or failed write. *Surface*: sizes 1 (too small to be drawn), 2 and 3, three calls: one
before the first surface, one while locked, one in the gap at the end of unlock. *Movie*: two
connections are one movie and its successor; two numbers of each kind let the successor get a
new one or the old one. *AudioTrack*: with three starts two starter threads
and the queue's callback contend for the mutex. All the bounds (`MaxCalls`, `MaxLen`, `MaxMsgs`,
`Cap`, `MaxBefore`, `MaxReqs`, `MaxStreams`, `MaxBytes`, `MaxTotal`, `MaxFlight`, `MaxRemain`, `MaxGiven`, `MaxSizes`,
`MaxConns`, `MaxSends`, `MaxStarts`) appear only in guards of the environment or of the start of an
operation. Deadlock is not checked because each model ends by
itself: with `exit(1)`, a crash, or at its bounds with every thread waiting.

Fairness. Weak fairness for threads: the kernel schedules them. Weak fairness for the host's
answers in `RpcCall` and for the peer's in `RpcServe`: handlers do not block in these
models, and a peer that stops for ever without closing is outside what the code
handles on the player's side (no timeout there). In `RpcSend` a
sender gets strong fairness for `send_mutex`, which `xsend_thread` takes again and
again; nothing is assumed about stalled peers, and `AllArrives` excludes them. In `UrlStream` a
URLDude ends, because `NSURLConnection` gives up after its timeout, and Flash's callbacks
return; a `NPP_Write` that takes too little again and again is excused by `EveryLoadEnds`. In `Surface` Flash keeps drawing: a movie that stopped drawing would leave a size
that arrived between the comparison in `unlock` and `locked = false` unapplied. In `Movie` only launchd and
the wrapper's loop are fair; nothing is asked of the view or of the players. In `AudioTrack`
callbacks return and the queue plays; a starter gets strong fairness for the mutex, which is free
for the length of a buffer between two callbacks of the queue.
Spurious wakeups, closing, failing assertions, hangs and user actions are never forced.

## 4. Findings

Five runs show the code doing other than it, its comments or its assertions say; the quoted
lines are in `PROJECT.json`.

1. A stub called before the reader thread has been scheduled returns 2 on a healthy
   connection, and the player aborts (RpcStartup).
2. A reply that is set before its caller locks `s.mut` can leave the reader blocked on a
   mutex that the finished stub never unlocked; from then on calls do not return, and
   `do_abort` does not reach `exit` (RpcAbort).
3. The host's send timeout truncates a message and sends the next one behind it
   (RpcSendTimeout). The host's own reader can lose its place too, when its receive timeout falls
   inside a header and `errno` still holds an earlier `EAGAIN`; `NeverDesynced` and
   `BadMagicAfterIdleTimeout` say that there is no third way.
4. `bigmut` does not protect the context in the window between the run loop's decision
   and the lock (RpcServeFree).
5. A receive timeout on the host makes the later end of the stream invisible
   (RpcServeTimeout).

The other models contain, as actions or as exceptions stated in a property, what their code does
where a reader would not expect it:

* `ANPSurface_npapi.h` promises that lock keeps other threads from the surface;
  `locked = true` is the last thing lock does (`anp.cpp:1156`), so a size can replace the surface
  under a Flash that draws on its own thread. `LockWorksOnMain` is therefore about the main
  thread.
* `android_npapi.h:751` says that `deleteTrack` waits for the callback; `anp.cpp:174-178` does not. A
  start while the queue still has buffers makes the queue refuse a buffer, and `aqtry` ends
  the player. `FilledAlone` excuses `harm` after such an `early` call.
* A descriptor number that is given out again, at once when `webPlugInStart` stops the old
  movie, takes the old movie's error report, reader, secret and queued sizes to the new one; the
  new `FServer` may keep the old secret, and its own player is then not killed. `OwnUntilReuse`
  speaks of the time before.
* `set_sekrit` handled after the teardown of its `FServer` reads through nil (`HandlerCrashes`).
* After a failed `fork` the connection stays open in the wrapper (`ForkFails`); a wrapper that
  exits, idle or because a call failed, leaves hung players behind.
* `notify_register_file_descriptor` and `EV_ADD` may fail, which `food_wrapper.c:186-188` and 225-227 only log:
  the player then hangs unharmed when it is stopped, and since `notify_fd` keeps its value from the last turn of
  the loop, an earlier movie's notification may get the new player's pid and kill it. `StoppedPlayerEnds` and
  `KillsOnlyTheStopped` excuse the player whose own notification is lost.
* A `NPP_Write` that takes less than it is offered, or fails, is offered the bytes from the start of the message
  again at another offset, perhaps for ever (`np.c:373-377`); `BytesAtTheirOffset`, `ContractSpec` and `EveryLoadEnds`
  excuse it (`short`).
* Flash may lock before there is a surface. The first size is then applied under its lock
  (`classes.c:449`), and the early return of unlock leaves the flag set until the next drawing
  (`anp.cpp:1166`); `LockWorksOnMain` and `SettledAtRest` name the exception.
* A `stop` from the callback, which `android_npapi.h:726-730` allows, is undone when it comes before the
  `AudioQueueStart` of the start that made the callback's thread (`anp.cpp:194-195`).
* A failed download ends the player (`ConnectionAllDone`), and a stream with a target is never
  completed.

## 5. Proofs

Eight modules hold theorems. Every one has the same plan: an inductive invariant, a lemma for the
initial state, a lemma per group of actions, and theorems that read the properties off the
invariant. The bounds of TLC's instances are constants there, so each theorem holds for every
number of threads, calls, messages, connections, starts and sizes. Every type invariant, every
other safety invariant, every action property and every refinement that a run checks is proved;
what stays with TLC is liveness.

**`RpcCallProofs`**: `TypeCorrect`, `DeliverySafe` (`DeliveryHitsLiveFrame`), `NoWakeupLost`
(`NoLostWakeup`), `RegistryFrozen` (`RegistryFrozenWhileApplied`). `DeliveryHitsLiveFrame`
alone is not inductive: after an ordinary delivery one must know that no second
entry leads to the same frame and that no entry is left for a frame that was served.
So `IdsUnique` says that threads hold different msgids, `RegistryLive` that every
entry not yet applied points into a stub that waits for its first message,
`TargetLive` that the entry the reader holds was taken out of the registry,
`ReaderPhase` how the reader's position determines `rpcserve_alive` and `applied` (after
the failure nobody can register), and `SleeperSignalled` covers the gap between the
test of `s.msg` and the wait.

**`RpcReplyProofs`** builds on it with `ReplyInv`: `ReplyOwn` (`OwnReply`) and `NoneForgotten`
(`NobodyForgotten`). `OwnReply` speaks of a returned call only, so it needs `RepliesTrue`:
replies in flight, the reply in the reader's hand and the message in a frame are answers of the
host to that call. `AnswersUnique` says that a msgid is requested and answered at most once,
`FailureKnown` that a status 2 in a frame comes from `rpc_applier`, after
`rpcserve_alive` was cleared. `NobodyForgotten` starts after `xsend`, so it needs
`CallsOwed`, which starts at the registration. All of it is claimed until `cut`; `DeliveryInv`, on which it
rests, holds beyond.

Its second half uses `ReplyInv` for `ImplementsService`: `Spec => ServiceSpec`. Each step of a thread, of the reader and of the host is a step of `RpcService` or a
stutter under the mapping at the end of `RpcCall`: `link` from `rpcserve_alive`,
`phase` and `result` from `pc`, `ret` and the answers given. An answer counts for
the service when the host gives it, which is why a call whose answer was given
can still fail with the connection. After `cut` a call that returns maps to `Garble`, by which the
service may end an open call in any way, but only once.

**`RpcSendProofs`**: `SendTypes`, `NoBacklogSleptOn` (`NoSleepingBacklog`), `BoundariesKept`
(`NeverDesynced`), `NothingDropped` (`NothingVanishes`). That the next header is where the reader looks for one depends on units that may
still be with `xsend_thread`. `Framing` follows each connection that no timeout has cut from the message in
`hdr` over the socket buffer to `part`: every unit is followed by the next of its message or, after
the last, by a header (`Framed`), and what was sent ends where the next `send` continues (`EndsRight`).
It is claimed only while the connection stands, since an error then drops the rest.
`BadMagicAfterIdleTimeout` sharpens it for the connections whose sender has no timeout: there a reader finds
a bad magic number only when `errno` still holds the `EAGAIN` of an earlier timeout between two messages.

`ImplementsChannel` is `Spec => ChannelSpec`: until a timeout cuts the connection, what the reader cuts out is the next message that
`xsend` took. Framing says where messages begin, not which they are, so a second invariant,
`ChannelInv`, inductive given the first, names them by their place among the messages taken for the
connection (`Nth`). `Fresh` keeps ids apart, which makes places unique. `Continues` says that the units in
`part` and in the socket buffer belong to the messages after those received, each in its turn;
`Behind` that the message in `xsend_thread`'s hand and those for the connection in the queue are
exactly the rest, in order (`Remaining`). An append gives a place to one message and moves no other
(`AppendKnown`); taking the head of the queue takes the next place (`QueueTake`).

`NothingDropped` follows from `ChannelInv` and from the refinement itself: every step of `RpcChannel`
keeps what was received a beginning of what was taken (`Prefixed`), and with nothing on the way
`Behind` leaves no message beyond it.

**`RpcServeProofs`**: `ServeTypes`, `NothingStranded` (`NoStrandedRequest`), `ServedInOrder`
(`OrderUntilRace`), `NothingHandledAfterError` (`NothingAfterError`, an action property). `Places` ties
the positions of the two threads to the life of context and source. `Ordered` numbers the
requests through all places they can be in: handled, in the array, in the reader's hand, on the wire,
where a response makes a gap; it holds until `raced` or `cut`, so the proof shows that only the overlap of
two array accesses and the host's timeouts can disturb the order.

**`UrlStreamProofs`**: `UrlTypes`, `UrlFilled` (`UrlFilledBeforeUse`), `MessagesHit`
(`HitsItsStream`), `BytesInPlace` (`BytesAtTheirOffset`), `NobodyForgotten` (`NothingForgotten`), `ImplementsContract`
(`ContractSpec`). None of these is inductive: an address must not be freed while a message for it is under way, and that depends
on what the host has yet to send. `UrlInv` speaks of the messages under way in the three queues (`OnWay`)
and of the `URLDude` behind them:

* `Homes`: a stream lives at one address, and its url is filled unless it is the one whose call is open;
* `Calls`: that call has a request, an answer or a reply, and only one of them;
* `Belonging`: a message names the address where its stream lives; no response for a stream that had one,
  no completion while a `URLDude` may still send;
* `Ordered`: two messages of one stream come as response, data by rising offset, completion, and there is one
  reply at most (`Before`, inside a queue and from one queue to the next);
* `Responses`: data and a completion that is not a failure are preceded by the response;
* `Hand`, `Dudes`: the handler that runs, and each `URLDude`, fit with this. When a handler is past
  the completion, nothing for its stream is left, so it may free the `NPStream`;
* `Given`, `Bytes`: each byte that the host got was written, is in the handler's hand, or is in
  data under way, at its offset, unless the stream is in `short`. With `Ordered` a completion therefore
  finds all bytes written.

The refinement follows: `Contract!DestroyStream` needs that all bytes were written (`DoneIs`),
`Contract!Write` that no byte is written which did not arrive, `Contract!Arrive` that a `URLDude`
reports only before the end of its stream. Each action is one step of the contract or one that it does
not see. What the steps that send have in common is `PutLast`: a message put behind a queue keeps
its order if everything in it may come before.

`NobodyForgotten` is the safety half of `EveryLoadEnds`: what a call or a load waits for exists, and
fairness has only to move it. `CallOwed` and `LoadsOwed` follow it through the queues, given `UrlInv`:
only the handler of a completion takes the completion away, and it closes the stream it
means, which `Homes` and `Belonging` make the right one; only a `URLDude` that sends its completion ends.

**`SurfaceProofs`**: `SurfaceTypes`, `LockWorks` (`LockWorksOnMain`), `SyncsShown`
(`SyncsWhatIsShown`). `Heights` is needed for the types alone: the height -1 that marks the
variables as unset must not reach a surface, on two threads either. `Turns` says why a flag without a
mutex works on one thread: a size that meets Flash between lock and unlock finds it set. `Buffers` and
`Telling` follow temp, bitmap, surface and what the host was told through the steps. `NoSizeWaits`
(`SettledAtRest`, the safety half of `SizeSettles` and `HostCatchesUp`) adds `Following`, how the
movie's size follows the pending one inside `refresh_size`, and `Quiet`: on the main thread a size can
wait only between lock and the comparison in unlock, so none falls into the gap before `locked = false`,
or behind the flag that a first drawing without a surface left set (`Stuck`).

**`MovieProofs`**: `MovieTypes`, `AtMostOneMovie` (`OneMovie`), `NumbersOwnUntilReuse`
(`OwnUntilReuse`), `OnlyTheStoppedKilled` (`KillsOnlyTheStopped`). `NumberInv` says that whatever the
host keeps under a number was once given that number: while no number was given out twice it is
then the right one. `SecretInv` follows a secret from the connection it came over to the post,
`WatchInv` a pid from fork to kill, as long as the notification that names it is the player's own (`Rightful`). `SlotInv` carries `OneMovie` through the two halves of
`webPlugInStart`.

**`AudioTrackProofs`**: `TrackTypes`, `TrackFilledAlone` (`FilledAlone`). `Apart` says where each buffer
is: reserved by the one thread that is going to fill it, or in the queue, as long as no call was early. `BuffersInRound` (`NoBufferLost`, the safety half of
`KeepsPlaying`) is the other direction: a start that is not early finds an idle queue and sends a
starter for both buffers, and each callback gives back what it took (`Round`).

Assumptions: the named ASSUMEs of the modules on their constants, which TLC evaluates in
the runs, and tlapm's library.

Only model-checked: liveness, which is out of the prover's reach, as is ENABLED. These are `CallReturns`,
`LossEndsPlayer`, `XsendReturns`, `AllArrives`, `AllHandled`, `EndReportedUnlessDeaf`, `EveryLoadEnds`,
`SizeSettles`, `HostCatchesUp`, `StoppedPlayerEnds` and `KeepsPlaying`. Each inductive invariant was
checked by TLC on the instance of its run, besides being proved.

## 6. Plan

Done: the RPC runtime, the streams, the surface, the life cycle of movies with the wrapper, the
audio tracks, and proofs of every safety property and refinement that the runs check. What is left:

1. The safety half of the liveness properties that have none yet: `AllHandled` and
   `StoppedPlayerEnds`. `CallReturns`, `AllArrives`, `EveryLoadEnds`, `SizeSettles` and `KeepsPlaying`
   have theirs in `NobodyForgotten`, `NothingVanishes`, `NothingForgotten`, `SettledAtRest` and
   `NoBufferLost`.
2. Owner counts of typefaces and raw data, if it can be established how Flash and CoreText
   retain them.

## 7. Not modelled

* **Vendored code**: Android's utils and cutils, ICU, libgcc, the headers of JNI, ELF and NPAPI. It is nearly
  all of the 60,000 lines of C and C++ in the repository. Frash's own code is about 5,600 lines, of
  which the runtime (Python and the C it prints), the host (Objective-C) and the player's drawing, audio,
  streams and start-up carry state that more than one actor changes; the models cover that part.
  A large share of all lines cannot be reached without modelling third-party libraries.
* **The generator's parsing and printing**, a build step. What it prints is modelled.
* **Object names and NPAPI objects**: tables and reference counts on one thread, in lockstep calls;
  what could go wrong is the conversion of WebKit's and Flash's values, whose contracts are not in the
  repository. For the same reason typefaces and raw data.
* **Java class tables and JNI dispatch, libc adapters, ELF loader and stubs, stateless drawing,
  packaging**: lookups and functions without interaction.
* Inside the modelled parts: contents of messages, sizes over 50 MB, wrap-around of the 32-bit
  `msgids` (2^32 calls within one movie), failures of `malloc` and `pthread_create`, which
  the code does not handle either, and the abstractions named with each module above.
* Two hazards of the list have no property. One peer that stops reading holds up all others
  (`PROTOCOLBUFFERS.py:75`), which is how the sender is written and no promise of it. A stop undone by
  its own start (`anp.cpp:195`) is an order the model of the track allows; no property says what such a
  stop is worth.
* Handlers that run a nested run loop, and would re-enter `rpcctx_perform` (`PROTOCOLBUFFERS.py:387`), depend on
  WebKit; the owner counts at `anp.cpp:349` and the two conversions of `np.c:177` and `server.m:387` are sequential
  code whose callers are not in the repository.
