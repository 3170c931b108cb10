------------------------------ MODULE RpcServe ------------------------------
(***************************************************************************)
(* The serving half of the RPC runtime for one connection: the reader      *)
(* thread rpcserve_thread queues requests on an array and signals a run    *)
(* loop source; the main thread's run loop calls rpcctx_perform, which     *)
(* empties the array; when the connection ends the reader tears all of it  *)
(* down and has the main thread call the error function.                   *)
(*                                                                         *)
(* info->mut guards the array, info->bigmut keeps the context alive while  *)
(* rpcctx_perform runs.  rpcctx_perform destroys info->mut after the first *)
(* request (PROTOCOLBUFFERS.py:402): from then on locking it fails and     *)
(* excludes nobody.  So an append is a read and a write of the array, and  *)
(* so is a removal, and without the mutex they may overlap.                *)
(***************************************************************************)
EXTENDS Naturals, Sequences

CONSTANT MaxReqs        \* bound: requests the peer sends

ASSUME MaxReqsAssumption == MaxReqs \in Nat

VARIABLES
    side,       \* "player" or "host": whose end of the connection this is
    reader,     \* where the reader thread is
    main,       \* where the main thread is
    ctx,        \* struct rpcctx_info: "none", "live" or "freed"
    mutLive,    \* info->mut has not been destroyed
    mutOwner,   \* who holds info->mut: "nobody", "reader" or "main"
    bigHeld,    \* main holds info->bigmut
    messages,   \* the array
    rcopy,      \* the array as the reader read it
    mcopy,      \* the array as the main thread read it
    request,    \* the request the reader holds, 0 if none
    valid,      \* the run loop source has not been invalidated
    signalled,  \* the source is signalled
    errno,      \* errno of the reader thread: "none", "EAGAIN" or "reset"
    errorDue,   \* the error source is on the run loop
    reported,   \* the error function was called
    call,       \* a synchronous call made by a handler: "none", "waiting",
                \* "done"
    wire,       \* what is in flight to this process
    link,       \* "open", or how the connection ended: "eof" or "reset"
    sent,       \* requests the peer has sent
    handled,    \* history: requests handled
    raced,      \* history: two accesses to the array have overlapped
    cut         \* history: a timeout has cut a message on the wire

ctxVars  == <<ctx, mutLive, mutOwner, bigHeld>>
arrVars  == <<messages, rcopy, mcopy, raced>>
loopVars == <<valid, signalled, errorDue, reported>>
peerVars == <<wire, link, sent, side, cut>>
vars == <<side, reader, main, ctx, mutLive, mutOwner, bigHeld, messages, rcopy,
          mcopy, request, valid, signalled, errno, errorDue, reported, call,
          wire, link, sent, handled, raced, cut>>

Response == 0   \* on the wire: the answer to the handler's call
Requests == 1..MaxReqs

TypeOK ==
    /\ side \in {"player", "host"}
    /\ reader \in {"create", "recv", "lock", "read", "write", "signal",
                   "invalidate", "fail", "report", "big", "free", "done"}
    /\ main \in {"loop", "called", "lock", "read", "write", "handle", "incall",
                 "destroy", "crashed"}
    /\ ctx \in {"none", "live", "freed"}
    /\ mutLive \in BOOLEAN
    /\ mutOwner \in {"nobody", "reader", "main"}
    /\ bigHeld \in BOOLEAN
    /\ messages \in Seq(Requests) /\ rcopy \in Seq(Requests)
    /\ mcopy \in Seq(Requests)
    /\ request \in Requests \cup {0}
    /\ valid \in BOOLEAN /\ signalled \in BOOLEAN
    /\ errno \in {"none", "EAGAIN", "reset"}
    /\ errorDue \in BOOLEAN /\ reported \in BOOLEAN
    /\ call \in {"none", "waiting", "done"}
    /\ wire \in Seq(Requests \cup {Response})
    /\ link \in {"open", "eof", "reset"}
    /\ sent \in 0..MaxReqs
    /\ handled \in Seq(Requests)
    /\ raced \in BOOLEAN /\ cut \in BOOLEAN

Init ==
    /\ side \in {"player", "host"}
    /\ reader = "create" /\ main = "loop"
    /\ ctx = "none" /\ mutLive = TRUE /\ mutOwner = "nobody" /\ bigHeld = FALSE
    /\ messages = <<>> /\ rcopy = <<>> /\ mcopy = <<>> /\ request = 0
    /\ valid = FALSE /\ signalled = FALSE
    /\ errno = "none" /\ errorDue = FALSE /\ reported = FALSE
    /\ call = "none"
    /\ wire = <<>> /\ link = "open" /\ sent = 0
    /\ handled = <<>> /\ raced = FALSE /\ cut = FALSE

\* Who holds the mutex after p locked it: a destroyed mutex is not taken.
LockMut(p) ==
    /\ mutLive => mutOwner = "nobody"
    /\ mutOwner' = IF mutLive THEN p ELSE mutOwner

UnlockMut(p) == mutOwner' = IF mutOwner = p THEN "nobody" ELSE mutOwner
-----------------------------------------------------------------------------
(* The reader thread.                                                      *)

\* Make the context and add its source to the main run loop.
Create ==
    /\ reader = "create"
    /\ ctx' = "live"
    /\ valid' = TRUE
    /\ reader' = "recv"
    /\ UNCHANGED <<main, mutLive, mutOwner, bigHeld, arrVars, request,
                   signalled, errno, errorDue, reported, call, peerVars, handled>>

\* Mutant: a response is queued like a request.
RecvAny ==
    /\ reader = "recv"
    /\ wire # <<>>
    /\ wire' = Tail(wire)
    /\ request' = Head(wire)
    /\ reader' = "lock"
    /\ UNCHANGED <<main, ctxVars, arrVars, loopVars, errno, call, link, sent,
                   side, cut, handled>>

\* A request is to be queued.
RecvRequest ==
    /\ reader = "recv"
    /\ wire # <<>>
    /\ Head(wire) # Response
    /\ wire' = Tail(wire)
    /\ request' = Head(wire)
    /\ reader' = "lock"
    /\ UNCHANGED <<main, ctxVars, arrVars, loopVars, errno, call, link, sent,
                   side, cut, handled>>

\* A response wakes the stub that waits for it (RpcCall); nothing is queued.
RecvResponse ==
    /\ reader = "recv"
    /\ wire # <<>>
    /\ Head(wire) = Response
    /\ wire' = Tail(wire)
    /\ call' = "done"
    /\ UNCHANGED <<reader, main, ctxVars, arrVars, request, loopVars, errno,
                   link, sent, side, cut, handled>>

\* On the host recv gives up after SO_RCVTIMEO with nothing read:
\* errno == EAGAIN, continue.
RecvTimeout ==
    /\ reader = "recv"
    /\ side = "host"
    /\ wire = <<>>
    /\ link = "open"
    /\ errno' = "EAGAIN"
    /\ UNCHANGED <<reader, main, ctxVars, arrVars, request, loopVars, call,
                   peerVars, handled>>

\* The next message has been cut: on the host by its receive timeout, inside the
\* header or the body, in the player because the host's send timeout broke it off
\* and other bytes follow.  A short body, a short header without a stale EAGAIN,
\* a wrong magic or msgsize end the serving though the peer is there.
CutEnds ==
    /\ wire' = Tail(wire)
    /\ reader' = "invalidate"
    /\ UNCHANGED call

\* Otherwise the message is lost and the loop goes on, ...
CutLost ==
    /\ side = "player" \/ errno = "EAGAIN"
    /\ wire' = Tail(wire)
    /\ UNCHANGED <<reader, call>>

\* ... or the player takes it, and what follows, for the response its call waits
\* for.
CutMisread ==
    /\ side = "player"
    /\ call = "waiting"
    /\ wire' = <<>>
    /\ call' = "done"
    /\ UNCHANGED reader

RecvCut ==
    /\ reader = "recv"
    /\ wire # <<>>
    /\ cut' = TRUE
    /\ CutEnds \/ CutLost \/ CutMisread
    /\ UNCHANGED <<main, ctxVars, arrVars, request, loopVars, errno, link, sent,
                   side, handled>>

\* A short read: recv sets errno when it fails, but not at the end of the
\* stream.  With errno == EAGAIN the loop goes on.
RecvEnd ==
    /\ reader = "recv"
    /\ wire = <<>>
    /\ link # "open"
    /\ errno' = IF link = "reset" THEN "reset" ELSE errno
    /\ reader' = IF errno' = "EAGAIN" THEN "recv" ELSE "invalidate"
    /\ UNCHANGED <<main, ctxVars, arrVars, request, loopVars, call, peerVars,
                   handled>>

ReaderLock ==
    /\ reader = "lock"
    /\ LockMut("reader")
    /\ reader' = "read"
    /\ UNCHANGED <<main, ctx, mutLive, bigHeld, arrVars, request, loopVars,
                   errno, call, peerVars, handled>>

\* CFArrayAppendValue: first half ...
AppendRead ==
    /\ reader = "read"
    /\ rcopy' = messages
    /\ raced' = (raced \/ main = "write")
    /\ reader' = "write"
    /\ UNCHANGED <<main, ctxVars, messages, mcopy, request, loopVars, errno,
                   call, peerVars, handled>>

\* ... and second half, pthread_mutex_unlock(mut).
AppendWrite ==
    /\ reader = "write"
    /\ messages' = Append(rcopy, request)
    /\ rcopy' = <<>>
    /\ request' = 0
    /\ UnlockMut("reader")
    /\ reader' = "signal"
    /\ UNCHANGED <<main, ctx, mutLive, bigHeld, mcopy, raced, loopVars, errno,
                   call, peerVars, handled>>

\* Mutant: the source is never signalled.
SignalNever ==
    /\ reader = "signal"
    /\ reader' = "recv"
    /\ UNCHANGED <<main, ctxVars, arrVars, request, loopVars, errno, call,
                   peerVars, handled>>

Signal ==
    /\ reader = "signal"
    /\ signalled' = TRUE
    /\ reader' = "recv"
    /\ UNCHANGED <<main, ctxVars, arrVars, request, valid, errno, errorDue,
                   reported, call, peerVars, handled>>

\* Mutant: the source is left on the run loop.
InvalidateNot ==
    /\ reader = "invalidate"
    /\ reader' = "fail"
    /\ UNCHANGED <<main, ctxVars, arrVars, request, loopVars, errno, call,
                   peerVars, handled>>

Invalidate ==
    /\ reader = "invalidate"
    /\ valid' = FALSE
    /\ reader' = "fail"
    /\ UNCHANGED <<main, ctxVars, arrVars, request, signalled, errno, errorDue,
                   reported, call, peerVars, handled>>

\* Mutant: calls that wait for a reply are not failed.
FailNobody ==
    /\ reader = "fail"
    /\ reader' = "report"
    /\ UNCHANGED <<main, ctxVars, arrVars, request, loopVars, errno, call,
                   peerVars, handled>>

\* rpcserve_alive = false and rpc_applier: waiting calls return (RpcCall).
Fail ==
    /\ reader = "fail"
    /\ call' = IF call = "waiting" THEN "done" ELSE call
    /\ reader' = "report"
    /\ UNCHANGED <<main, ctxVars, arrVars, request, loopVars, errno, peerVars,
                   handled>>

Report ==
    /\ reader = "report"
    /\ errorDue' = TRUE
    /\ reader' = "big"
    /\ UNCHANGED <<main, ctxVars, arrVars, request, valid, signalled, errno,
                   reported, call, peerVars, handled>>

\* Lock and unlock bigmut.
PassBig ==
    /\ reader = "big"
    /\ ~bigHeld
    /\ reader' = "free"
    /\ UNCHANGED <<main, ctxVars, arrVars, request, loopVars, errno, call,
                   peerVars, handled>>

\* Destroy both mutexes, release the array, free(rpcinfo).
Free ==
    /\ reader = "free"
    /\ ctx' = "freed"
    /\ messages' = <<>>
    /\ reader' = "done"
    /\ UNCHANGED <<main, mutLive, mutOwner, bigHeld, rcopy, mcopy, raced,
                   request, loopVars, errno, call, peerVars, handled>>
-----------------------------------------------------------------------------
(* The main thread.                                                        *)

\* CFRunLoop takes a signalled, valid source and is about to call its
\* perform function with the info pointer, which it has not retained.
RunLoopSource ==
    /\ main = "loop"
    /\ signalled
    /\ valid
    /\ signalled' = FALSE
    /\ main' = "called"
    /\ UNCHANGED <<reader, ctxVars, arrVars, request, valid, errno, errorDue,
                   reported, call, peerVars, handled>>

\* rpcerrctx_perform.
RunLoopError ==
    /\ main = "loop"
    /\ errorDue
    /\ errorDue' = FALSE
    /\ reported' = TRUE
    /\ UNCHANGED <<reader, main, ctxVars, arrVars, request, valid, signalled,
                   errno, call, peerVars, handled>>

\* rpcctx_perform locks bigmut.
Perform ==
    /\ main = "called"
    /\ ctx = "live"
    /\ bigHeld' = TRUE
    /\ main' = "lock"
    /\ UNCHANGED <<reader, ctx, mutLive, mutOwner, arrVars, request, loopVars,
                   errno, call, peerVars, handled>>

\* rpcctx_perform uses a context that has been freed; what follows is not
\* modelled.
UseFreed ==
    /\ main \in {"called", "lock", "read", "write", "destroy"}
    /\ ctx = "freed"
    /\ main' = "crashed"
    /\ UNCHANGED <<reader, ctxVars, arrVars, request, loopVars, errno, call,
                   peerVars, handled>>

MainLock ==
    /\ main = "lock"
    /\ ctx = "live"
    /\ LockMut("main")
    /\ main' = "read"
    /\ UNCHANGED <<reader, ctx, mutLive, bigHeld, arrVars, request, loopVars,
                   errno, call, peerVars, handled>>

\* CFArrayGetCount is not 0: CFArrayGetValueAtIndex and
\* CFArrayRemoveValueAtIndex, first half.
TakeRead ==
    /\ main = "read"
    /\ ctx = "live"
    /\ messages # <<>>
    /\ mcopy' = messages
    /\ raced' = (raced \/ reader = "write")
    /\ main' = "write"
    /\ UNCHANGED <<reader, ctxVars, messages, rcopy, request, loopVars, errno,
                   call, peerVars, handled>>

\* Mutant: the newest request is taken.
TakeWriteLast ==
    /\ main = "write"
    /\ ctx = "live"
    /\ messages' = SubSeq(mcopy, 1, Len(mcopy) - 1)
    /\ mcopy' = <<>>
    /\ handled' = Append(handled, mcopy[Len(mcopy)])
    /\ UnlockMut("main")
    /\ main' = "handle"
    /\ UNCHANGED <<reader, ctx, mutLive, bigHeld, rcopy, raced, request,
                   loopVars, errno, call, peerVars>>

\* Second half and unlock.
TakeWrite ==
    /\ main = "write"
    /\ ctx = "live"
    /\ messages' = Tail(mcopy)
    /\ mcopy' = <<>>
    /\ handled' = Append(handled, Head(mcopy))
    /\ UnlockMut("main")
    /\ main' = "handle"
    /\ UNCHANGED <<reader, ctx, mutLive, bigHeld, rcopy, raced, request,
                   loopVars, errno, call, peerVars>>

\* The array is empty: unlock mut, break, unlock bigmut.
Leave ==
    /\ main = "read"
    /\ ctx = "live"
    /\ messages = <<>>
    /\ UnlockMut("main")
    /\ bigHeld' = FALSE
    /\ main' = "loop"
    /\ UNCHANGED <<reader, ctx, mutLive, arrVars, request, loopVars, errno,
                   call, peerVars, handled>>

\* A handler of the player makes a synchronous call; while nobody serves the connection
\* it returns at once.
HandlerCalls ==
    /\ side = "player"
    /\ main = "handle"
    /\ call = "none"
    /\ call' = IF reader \in {"report", "big", "free", "done"} THEN "done"
               ELSE "waiting"
    /\ main' = "incall"
    /\ UNCHANGED <<reader, ctxVars, arrVars, request, loopVars, errno, peerVars,
                   handled>>

CallReturns ==
    /\ main = "incall"
    /\ call = "done"
    /\ call' = "none"
    /\ main' = "destroy"
    /\ UNCHANGED <<reader, ctxVars, arrVars, request, loopVars, errno, peerVars,
                   handled>>

HandlerReturns ==
    /\ main = "handle"
    /\ main' = "destroy"
    /\ UNCHANGED <<reader, ctxVars, arrVars, request, loopVars, errno, call,
                   peerVars, handled>>

\* Mutant: one request per call of rpcctx_perform.
DestroyMutLeave ==
    /\ main = "destroy"
    /\ ctx = "live"
    /\ mutLive' = (mutLive /\ mutOwner # "nobody")
    /\ bigHeld' = FALSE
    /\ main' = "loop"
    /\ UNCHANGED <<reader, ctx, mutOwner, arrVars, request, loopVars,
                   errno, call, peerVars, handled>>

\* pthread_mutex_destroy(&info->mut), inside the loop.  It fails with EBUSY
\* while the reader holds the mutex.
DestroyMut ==
    /\ main = "destroy"
    /\ ctx = "live"
    /\ mutLive' = (mutLive /\ mutOwner # "nobody")
    /\ main' = "lock"
    /\ UNCHANGED <<reader, ctx, mutOwner, bigHeld, arrVars, request, loopVars,
                   errno, call, peerVars, handled>>
-----------------------------------------------------------------------------
(* The peer.                                                               *)

PeerSends ==
    /\ link = "open"
    /\ sent < MaxReqs
    /\ sent' = sent + 1
    /\ wire' = Append(wire, sent + 1)
    /\ UNCHANGED <<reader, main, ctxVars, arrVars, request, loopVars, errno,
                   call, link, side, cut, handled>>

PeerReplies ==
    /\ link = "open"
    /\ call = "waiting"
    /\ \A i \in DOMAIN wire : wire[i] # Response
    /\ wire' = Append(wire, Response)
    /\ UNCHANGED <<reader, main, ctxVars, arrVars, request, loopVars, errno,
                   call, link, sent, side, cut, handled>>

\* The connection ends, in order or with the loss of what is in flight.
PeerCloses ==
    /\ link = "open"
    /\ \/ link' = "eof" /\ UNCHANGED wire
       \/ link' = "reset" /\ wire' = <<>>
    /\ UNCHANGED <<reader, main, ctxVars, arrVars, request, loopVars, errno,
                   call, sent, side, cut, handled>>
-----------------------------------------------------------------------------
Reader ==
    \/ Create \/ RecvRequest \/ RecvResponse \/ RecvEnd
    \/ ReaderLock \/ AppendRead \/ AppendWrite \/ Signal
    \/ Invalidate \/ Fail \/ Report \/ PassBig \/ Free

Main ==
    \/ RunLoopSource \/ RunLoopError \/ Perform \/ UseFreed
    \/ MainLock \/ TakeRead \/ TakeWrite \/ Leave
    \/ CallReturns \/ HandlerReturns \/ DestroyMut

Next ==
    \/ Reader \/ RecvTimeout \/ RecvCut
    \/ Main \/ HandlerCalls
    \/ PeerSends \/ PeerReplies \/ PeerCloses

Spec == Init /\ [][Next]_vars

\* Both threads are scheduled, handlers return, and the peer answers calls or
\* goes away.
Fairness ==
    /\ WF_vars(Reader)
    /\ WF_vars(Main)
    /\ WF_vars(PeerReplies)

FairSpec == Spec /\ Fairness
-----------------------------------------------------------------------------
\* Until the destroyed mutex lets an append and a removal overlap, or a timeout
\* cuts a message, requests are handled in the order sent, each once
\* (PROTOCOLBUFFERS.py:385-405, 526-531).
OrderUntilRace ==
    ~raced /\ ~cut => \A i \in DOMAIN handled : handled[i] = i

\* A request in the array does not wait for the arrival of another one: the
\* source is signalled, or about to be, or the main thread is emptying the
\* array, or the source is gone (PROTOCOLBUFFERS.py:391-394, 527-531).
NoStrandedRequest ==
    messages # <<>> =>
        \/ signalled
        \/ reader = "signal"
        \/ main \notin {"loop", "crashed"}
        \/ ~valid

\* After the error function of a connection no request of that connection is
\* handled any more (PROTOCOLBUFFERS.py:448-449, 456-470).
NothingAfterError == [][reported => UNCHANGED handled]_vars

\* Every request is handled, if the connection lasts, no timeout cuts a message
\* and the array is not raced on (PROTOCOLBUFFERS.py:385-405, 489-532).
AllHandled ==
    \A q \in Requests :
        sent >= q ~> \/ \E i \in DOMAIN handled : handled[i] = q
                     \/ link # "open" \/ raced \/ cut \/ main = "crashed"

\* The end of the connection is reported on the main thread, also when a
\* handler waits for a reply that will not come; the exceptions are the two
\* below (PROTOCOLBUFFERS.py:452-478).
EndReportedUnlessDeaf ==
    link # "open" ~> \/ reported
                     \/ main = "crashed"
                     \/ link = "eof" /\ errno = "EAGAIN"

\* The host's error function expects to be called with 0 when the stream
\* just ends (Player2/server.m:119-130).
EndReported == link # "open" ~> reported \/ main = "crashed"

\* bigmut is there "so that the context is not destroyed before
\* rpcctx_perform is done" (PROTOCOLBUFFERS.py:380).
ContextOutlivesPerform == main # "crashed"
=============================================================================
