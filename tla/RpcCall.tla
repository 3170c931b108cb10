------------------------------ MODULE RpcCall -------------------------------
(***************************************************************************)
(* The synchronous calls of the player process (rpc/PROTOCOLBUFFERS.py):   *)
(* the generated client stub run by the threads in Callers, the reader     *)
(* thread rpcserve_thread that hands them their replies, the failure       *)
(* broadcast rpc_applier, and what the player does with a nonzero status   *)
(* (food/common.c: _assertZero -> do_abort -> abort_msg -> exit).          *)
(*                                                                         *)
(* Each call keeps on its stack a frame s = {cond, mut, src_fd, msg}; the  *)
(* registry rpc_states maps its msgid to the address of the frame.         *)
(* Critical sections of rpc_states_mutex are single actions: they do not   *)
(* block.  s.msg is written by the reader without s.mut, so the accesses   *)
(* to a frame are separate actions.  src_fd always equals the player's     *)
(* only connection and is left out.                                        *)
(*                                                                         *)
(* The host is an environment: it answers in order, or the connection      *)
(* goes away at any time, or the timeouts of the host's socket break it    *)
(* (server.m:149-153): from then on replies may be lost or misread.        *)
(***************************************************************************)
EXTENDS Naturals, Sequences, FiniteSets

CONSTANTS Callers,      \* threads of the player
          Main,         \* the one that runs the main run loop
          Statuses,     \* what a host handler may return
          Ok,           \* 0
          Failed,       \* 2: returned by the stub, or faked by rpc_applier
          NoMsg,        \* the null pointer, for s.msg and for msg_
          NoResult,     \* no status yet
          MaxCalls,     \* bound: ordinary calls started (aborts come on top)
          MaxBefore     \* bound: answers given before a timeout cuts a message

ASSUME CallersAssumption == Main \in Callers
ASSUME StatusAssumption ==
    /\ Ok \in Statuses
    /\ Failed \notin Statuses
    /\ NoResult \notin Statuses \cup {Failed}
    /\ NoMsg \notin [id : Nat, status : Statuses \cup {Failed}]
ASSUME MaxCallsAssumption == MaxCalls \in Nat
ASSUME MaxBeforeAssumption == MaxBefore \in Nat

VARIABLES
    msgids,         \* the atomic counter
    rpc_states,     \* the registry: entries [id, frame], frame a caller
    rpcserve_alive, \*
    pc,             \* pc[c]: where thread c is
    cur,            \* cur[c]: msgid of the call in progress, 0 if none
    msg,            \* msg[c]: s.msg in the frame of thread c
    ret,            \* ret[c]: status the stub returned
    aborting,       \* aborting[c]: thread c is in do_abort
    reader,         \* where the reader thread is
    target,         \* the frame entry the reader holds a pointer to
    reply,          \* the message the reader holds
    applied,        \* entries rpc_applier has been called with
    errorDue,       \* the error source is on the main run loop
    exited,         \* the process is gone
    toHost,         \* requests in flight: xsend queue, socket, host run loop
    toFood,         \* replies in flight
    hostUp,         \* the host's end of the connection is open
    answers,        \* history: [id, status] the host has answered
    cut             \* history: a timeout of the host has cut a message

frameVars  == <<msg, ret, aborting>>
readerVars == <<reader, target, reply, applied>>
hostVars   == <<toHost, toFood, hostUp, answers, cut>>
vars == <<msgids, rpc_states, rpcserve_alive, pc, cur, msg, ret, aborting,
          reader, target, reply, applied, errorDue, exited,
          toHost, toFood, hostUp, answers, cut>>

NoEntry == [id |-> 0, frame |-> Main]

\* The thread is between CFDictionarySetValue and the end of the stub.
InStub == {"registered", "sent", "locked", "towait", "waiting", "woken"}
\* The thread owns its s.mut.
Holding == {"locked", "towait"}

Entry == [id : Nat, frame : Callers]
Reply == [id : Nat, status : Statuses \cup {Failed}]
Request == [id : Nat, abort : BOOLEAN]

TypeOK ==
    /\ msgids \in Nat
    /\ rpc_states \subseteq Entry
    /\ rpcserve_alive \in BOOLEAN
    /\ pc \in [Callers -> {"idle", "numbered", "returned"} \cup InStub]
    /\ cur \in [Callers -> Nat]
    /\ msg \in [Callers -> Reply \cup {NoMsg}]
    /\ ret \in [Callers -> Statuses \cup {Failed, NoResult}]
    /\ aborting \in [Callers -> BOOLEAN]
    /\ reader \in {"starting", "recv", "found", "wake", "apply", "applywake",
                   "gone", "stuck"}
    /\ target \in Entry
    /\ reply \in Reply \cup {NoMsg}
    /\ applied \subseteq Entry
    /\ errorDue \in BOOLEAN
    /\ exited \in BOOLEAN
    /\ toHost \in Seq(Request)
    /\ toFood \in Seq(Reply)
    /\ hostUp \in BOOLEAN
    /\ answers \subseteq Reply
    /\ cut \in BOOLEAN

Init ==
    /\ msgids = 0
    /\ rpc_states = {}
    /\ rpcserve_alive = FALSE
    /\ pc = [c \in Callers |-> "idle"]
    /\ cur = [c \in Callers |-> 0]
    /\ msg = [c \in Callers |-> NoMsg]
    /\ ret = [c \in Callers |-> NoResult]
    /\ aborting = [c \in Callers |-> FALSE]
    /\ reader = "starting"
    /\ target = NoEntry
    /\ reply = NoMsg
    /\ applied = {}
    /\ errorDue = FALSE
    /\ exited = FALSE
    /\ toHost = <<>>
    /\ toFood = <<>>
    /\ hostUp = TRUE
    /\ answers = {}
    /\ cut = FALSE

\* The call whose frame entry e points to has not left its stub.
Live(e) == cur[e.frame] = e.id /\ pc[e.frame] \in InStub
-----------------------------------------------------------------------------
(* The client stub, run by thread c.                                       *)

\* Mutant: the counter is read but the increment is lost.
NumberReused(c) ==
    /\ ~exited
    /\ pc[c] = "idle"
    /\ aborting[c] \/ msgids < MaxCalls
    /\ msgids' \in {msgids, msgids + 1}
    /\ cur' = [cur EXCEPT ![c] = msgids + 1]
    /\ pc' = [pc EXCEPT ![c] = "numbered"]
    /\ UNCHANGED <<rpc_states, rpcserve_alive, frameVars, readerVars, errorDue,
                   exited, hostVars>>

\* req->msgid = OSAtomicIncrement32(&msgids).  A thread in do_abort calls
\* abort_msg, any other one an ordinary function.
Number(c) ==
    /\ ~exited
    /\ pc[c] = "idle"
    /\ aborting[c] \/ msgids < MaxCalls
    /\ msgids' = msgids + 1
    /\ cur' = [cur EXCEPT ![c] = msgids + 1]
    /\ pc' = [pc EXCEPT ![c] = "numbered"]
    /\ UNCHANGED <<rpc_states, rpcserve_alive, frameVars, readerVars, errorDue,
                   exited, hostVars>>

\* if(!rpcserve_alive) return 2
Refuse(c) ==
    /\ ~exited
    /\ pc[c] = "numbered"
    /\ ~rpcserve_alive
    /\ pc' = [pc EXCEPT ![c] = "returned"]
    /\ ret' = [ret EXCEPT ![c] = Failed]
    /\ UNCHANGED <<msgids, rpc_states, rpcserve_alive, cur, msg, aborting,
                   readerVars, errorDue, exited, hostVars>>

\* Mutant: the stub does not look at rpcserve_alive.
RegisterUnchecked(c) ==
    /\ ~exited
    /\ pc[c] = "numbered"
    /\ msg' = [msg EXCEPT ![c] = NoMsg]
    /\ rpc_states' = rpc_states \cup {[id |-> cur[c], frame |-> c]}
    /\ pc' = [pc EXCEPT ![c] = "registered"]
    /\ UNCHANGED <<msgids, rpcserve_alive, cur, ret, aborting, readerVars,
                   errorDue, exited, hostVars>>

\* Mutant: s.msg = NULL is forgotten, the stack slot keeps the last reply.
RegisterStale(c) ==
    /\ ~exited
    /\ pc[c] = "numbered"
    /\ rpcserve_alive
    /\ rpc_states' = rpc_states \cup {[id |-> cur[c], frame |-> c]}
    /\ pc' = [pc EXCEPT ![c] = "registered"]
    /\ UNCHANGED <<msgids, rpcserve_alive, cur, frameVars, readerVars,
                   errorDue, exited, hostVars>>

Register(c) ==
    /\ ~exited
    /\ pc[c] = "numbered"
    /\ rpcserve_alive
    /\ msg' = [msg EXCEPT ![c] = NoMsg]
    /\ rpc_states' = {e \in rpc_states : e.id # cur[c]}
                        \cup {[id |-> cur[c], frame |-> c]}
    /\ pc' = [pc EXCEPT ![c] = "registered"]
    /\ UNCHANGED <<msgids, rpcserve_alive, cur, ret, aborting, readerVars,
                   errorDue, exited, hostVars>>

\* xsend(req): never fails, never blocks; what is sent to a closed
\* connection is dropped by xsend_thread.  After a cut, see HostCut.
Send(c) ==
    /\ ~exited
    /\ pc[c] = "registered"
    /\ pc' = [pc EXCEPT ![c] = "sent"]
    /\ toHost' = IF hostUp /\ ~cut
                   THEN Append(toHost, [id |-> cur[c], abort |-> aborting[c]])
                   ELSE toHost
    /\ UNCHANGED <<msgids, rpc_states, rpcserve_alive, cur, frameVars,
                   readerVars, errorDue, exited, toFood, hostUp, answers, cut>>

\* pthread_mutex_lock(&s.mut), and the same inside pthread_cond_wait.  The
\* reader holds s.mut only within one action.
Lock(c) ==
    /\ ~exited
    /\ pc[c] \in {"sent", "woken"}
    /\ pc' = [pc EXCEPT ![c] = "locked"]
    /\ UNCHANGED <<msgids, rpc_states, rpcserve_alive, cur, frameVars,
                   readerVars, errorDue, exited, hostVars>>

\* while(!s.msg)
Check(c) ==
    /\ ~exited
    /\ pc[c] = "locked"
    /\ msg[c] = NoMsg
    /\ pc' = [pc EXCEPT ![c] = "towait"]
    /\ UNCHANGED <<msgids, rpc_states, rpcserve_alive, cur, frameVars,
                   readerVars, errorDue, exited, hostVars>>

\* pthread_cond_wait releases s.mut and waits in one step.
Wait(c) ==
    /\ ~exited
    /\ pc[c] = "towait"
    /\ pc' = [pc EXCEPT ![c] = "waiting"]
    /\ UNCHANGED <<msgids, rpc_states, rpcserve_alive, cur, frameVars,
                   readerVars, errorDue, exited, hostVars>>

\* pthread_cond_wait may return without a signal.
SpuriousWakeup(c) ==
    /\ ~exited
    /\ pc[c] = "waiting"
    /\ pc' = [pc EXCEPT ![c] = "woken"]
    /\ UNCHANGED <<msgids, rpc_states, rpcserve_alive, cur, frameVars,
                   readerVars, errorDue, exited, hostVars>>

\* The stub returns the status and its frame dies.  s.mut is never unlocked.
TakeReply(c) ==
    /\ ~exited
    /\ pc[c] = "locked"
    /\ msg[c] # NoMsg
    /\ ret' = [ret EXCEPT ![c] = msg[c].status]
    /\ pc' = [pc EXCEPT ![c] = "returned"]
    /\ UNCHANGED <<msgids, rpc_states, rpcserve_alive, cur, msg, aborting,
                   readerVars, errorDue, exited, hostVars>>
-----------------------------------------------------------------------------
(* What the player does with the status.                                   *)

\* The callers check it: _assertZero, or if(...) _abort().
Proceed(c) ==
    /\ ~exited
    /\ pc[c] = "returned"
    /\ ~aborting[c]
    /\ pc' = [pc EXCEPT ![c] = "idle"]
    /\ cur' = [cur EXCEPT ![c] = 0]
    /\ ret' = [ret EXCEPT ![c] = NoResult]
    /\ aborting' = [aborting EXCEPT ![c] = ret[c] # Ok]
    /\ UNCHANGED <<msgids, rpc_states, rpcserve_alive, msg, readerVars,
                   errorDue, exited, hostVars>>

\* idproxyInvoke checks it with the assert of the C library, which kills the
\* process without do_abort.
AssertDies(c) ==
    /\ ~exited
    /\ pc[c] = "returned"
    /\ ~aborting[c]
    /\ ret[c] # Ok
    /\ exited' = TRUE
    /\ UNCHANGED <<msgids, rpc_states, rpcserve_alive, pc, cur, frameVars,
                   readerVars, errorDue, hostVars>>

\* do_abort ignores what abort_msg returned.
Exit(c) ==
    /\ ~exited
    /\ pc[c] = "returned"
    /\ aborting[c]
    /\ exited' = TRUE
    /\ UNCHANGED <<msgids, rpc_states, rpcserve_alive, pc, cur, frameVars,
                   readerVars, errorDue, hostVars>>

\* An assertion of the player itself fails in thread c.
AssertFails(c) ==
    /\ ~exited
    /\ pc[c] = "idle"
    /\ ~aborting[c]
    /\ aborting' = [aborting EXCEPT ![c] = TRUE]
    /\ UNCHANGED <<msgids, rpc_states, rpcserve_alive, pc, cur, msg, ret,
                   readerVars, errorDue, exited, hostVars>>

\* rpcerrctx_perform -> error -> _abort, when the main thread gets back to
\* its run loop.
ReportError ==
    /\ ~exited
    /\ errorDue
    /\ pc[Main] = "idle"
    /\ errorDue' = FALSE
    /\ aborting' = [aborting EXCEPT ![Main] = TRUE]
    /\ UNCHANGED <<msgids, rpc_states, rpcserve_alive, pc, cur, msg, ret,
                   readerVars, exited, hostVars>>
-----------------------------------------------------------------------------
(* The reader thread.                                                      *)

ReaderStart ==
    /\ ~exited
    /\ reader = "starting"
    /\ rpcserve_alive' = TRUE
    /\ reader' = "recv"
    /\ UNCHANGED <<msgids, rpc_states, pc, cur, frameVars, target, reply,
                   applied, errorDue, exited, hostVars>>

\* Mutant: the frame is looked up but stays registered.
ReaderRecvKept ==
    /\ ~exited
    /\ reader = "recv"
    /\ toFood # <<>>
    /\ toFood' = Tail(toFood)
    /\ \E e \in rpc_states :
          /\ e.id = Head(toFood).id
          /\ target' = e
    /\ reply' = Head(toFood)
    /\ reader' = "found"
    /\ UNCHANGED <<msgids, rpc_states, rpcserve_alive, pc, cur, frameVars,
                   applied, errorDue, exited, toHost, hostUp, answers, cut>>

\* Mutant: a reply goes to whoever is registered, in the order of arrival.
ReaderRecvAny ==
    /\ ~exited
    /\ reader = "recv"
    /\ toFood # <<>>
    /\ toFood' = Tail(toFood)
    /\ \E e \in rpc_states :
          /\ target' = e
          /\ rpc_states' = rpc_states \ {e}
    /\ reply' = Head(toFood)
    /\ reader' = "found"
    /\ UNCHANGED <<msgids, rpcserve_alive, pc, cur, frameVars, applied,
                   errorDue, exited, toHost, hostUp, answers, cut>>

\* A response: look the frame up and unregister it, both under the mutex.
ReaderRecv ==
    /\ ~exited
    /\ reader = "recv"
    /\ toFood # <<>>
    /\ toFood' = Tail(toFood)
    /\ rpc_states' = {e \in rpc_states : e.id # Head(toFood).id}
    /\ \/ \E e \in rpc_states :
             /\ e.id = Head(toFood).id
             /\ target' = e
             /\ reply' = Head(toFood)
             /\ reader' = "found"
       \/ /\ \A e \in rpc_states : e.id # Head(toFood).id
          /\ UNCHANGED <<target, reply, reader>>
    /\ UNCHANGED <<msgids, rpcserve_alive, pc, cur, frameVars, applied,
                   errorDue, exited, toHost, hostUp, answers, cut>>

\* s->msg = msg_, without s->mut
ReaderSetMsg ==
    /\ ~exited
    /\ reader = "found"
    /\ msg' = [msg EXCEPT ![target.frame] = reply]
    /\ reply' = NoMsg
    /\ reader' = "wake"
    /\ UNCHANGED <<msgids, rpc_states, rpcserve_alive, pc, cur, ret, aborting,
                   target, applied, errorDue, exited, hostVars>>

\* Mutant: s->cond is signalled without locking s->mut.
WakeUnlocked(then) ==
    /\ pc' = IF pc[target.frame] = "waiting"
               THEN [pc EXCEPT ![target.frame] = "woken"] ELSE pc
    /\ reader' = then

\* lock s->mut, signal s->cond, unlock s->mut.  When the stub has already
\* returned, s->mut is a mutex on a dead stack frame that its owner never
\* unlocked: the lock either never returns or does nothing.
Wake(then) ==
    \/ /\ Live(target)
       /\ pc[target.frame] \notin Holding
       /\ pc' = [pc EXCEPT ![target.frame] =
                    IF @ = "waiting" THEN "woken" ELSE @]
       /\ reader' = then
    \/ /\ ~Live(target)
       /\ reader' \in {then, "stuck"}
       /\ UNCHANGED pc

ReaderWake ==
    /\ ~exited
    /\ \/ reader = "wake" /\ Wake("recv")
       \/ reader = "applywake" /\ Wake("apply")
    /\ UNCHANGED <<msgids, rpc_states, rpcserve_alive, cur, frameVars, target,
                   reply, applied, errorDue, exited, hostVars>>

\* The host is gone, recv fails or ends: rpcserve_alive = false under the mutex.
ReaderFail ==
    /\ ~exited
    /\ reader = "recv"
    /\ ~hostUp
    /\ toFood = <<>>
    /\ rpcserve_alive' = FALSE
    /\ reader' = "apply"
    /\ UNCHANGED <<msgids, rpc_states, pc, cur, frameVars, target, reply,
                   applied, errorDue, exited, hostVars>>

\* Entry e gets a response with status s that is none.
Misread(e, s) ==
    /\ rpc_states' = rpc_states \ {e}
    /\ target' = e
    /\ reply' = [id |-> e.id, status |-> s]
    /\ reader' = "found"
    /\ UNCHANGED rpcserve_alive

\* A message was cut, and the reader takes the bytes that follow for the rest
\* of it.  A wrong magic or msgsize (or a short body) ends the serving while the
\* host is still there; a wrong msgid, or a right one over foreign bytes, gives
\* some registered call a response with any status.
ReaderMisread ==
    /\ ~exited
    /\ reader = "recv"
    /\ cut
    /\ \/ /\ rpcserve_alive' = FALSE
          /\ reader' = "apply"
          /\ UNCHANGED <<rpc_states, target, reply>>
       \/ \E e \in rpc_states, s \in Statuses \cup {Failed} : Misread(e, s)
    /\ UNCHANGED <<msgids, pc, cur, frameVars, applied, errorDue, exited,
                   hostVars>>

\* Mutant: the faked response is set but nobody is signalled.
ReaderApplySilent ==
    /\ ~exited
    /\ reader = "apply"
    /\ \E e \in rpc_states \ applied :
          /\ applied' = applied \cup {e}
          /\ target' = e
          /\ msg' = [msg EXCEPT ![e.frame] = [id |-> e.id, status |-> Failed]]
    /\ UNCHANGED <<msgids, rpc_states, rpcserve_alive, pc, cur, ret, aborting,
                   reader, reply, errorDue, exited, hostVars>>

\* CFDictionaryApplyFunction(rpc_states, rpc_applier), without the mutex: a
\* response with status 2 is faked for every call still registered.
ReaderApply ==
    /\ ~exited
    /\ reader = "apply"
    /\ \E e \in rpc_states \ applied :
          /\ applied' = applied \cup {e}
          /\ target' = e
          /\ msg' = [msg EXCEPT ![e.frame] = [id |-> e.id, status |-> Failed]]
    /\ reader' = "applywake"
    /\ UNCHANGED <<msgids, rpc_states, rpcserve_alive, pc, cur, ret, aborting,
                   reply, errorDue, exited, hostVars>>

\* The error source is added to the main run loop and the thread ends.
ReaderLeave ==
    /\ ~exited
    /\ reader = "apply"
    /\ rpc_states \subseteq applied
    /\ errorDue' = TRUE
    /\ reader' = "gone"
    /\ UNCHANGED <<msgids, rpc_states, rpcserve_alive, pc, cur, frameVars,
                   target, reply, applied, exited, hostVars>>
-----------------------------------------------------------------------------
(* The host.                                                               *)

\* Requests are lost, of the replies in flight any prefix still arrives.
Lose ==
    /\ toHost' = <<>>
    /\ \E k \in 0..Len(toFood) : toFood' = SubSeq(toFood, 1, k)

\* close(rpc_fd)
Close == Lose /\ hostUp' = FALSE

HostAnswer ==
    /\ ~exited
    /\ hostUp
    /\ toHost # <<>>
    /\ ~Head(toHost).abort
    /\ \E s \in Statuses :
          LET r == [id |-> Head(toHost).id, status |-> s]
          IN  /\ toFood' = Append(toFood, r)
              /\ answers' = answers \cup {r}
    /\ toHost' = Tail(toHost)
    /\ UNCHANGED <<msgids, rpc_states, rpcserve_alive, pc, cur, frameVars,
                   readerVars, errorDue, exited, hostUp, cut>>

\* abort_msg: dieWithError tears the connection down before the generated
\* code sends the response.
HostAbort ==
    /\ ~exited
    /\ hostUp
    /\ toHost # <<>>
    /\ Head(toHost).abort
    /\ Close
    /\ UNCHANGED <<msgids, rpc_states, rpcserve_alive, pc, cur, frameVars,
                   readerVars, errorDue, exited, answers, cut>>

HostClose ==
    /\ ~exited
    /\ hostUp
    /\ Close
    /\ UNCHANGED <<msgids, rpc_states, rpcserve_alive, pc, cur, frameVars,
                   readerVars, errorDue, exited, answers, cut>>
\* A timeout of the host's socket cuts a request on its way in or a reply on
\* its way out, and the host goes on (RpcSend).  The replies before it still
\* arrive; whatever else arrives later is left to ReaderMisread, which can also
\* read it right.
HostCut ==
    /\ ~exited
    /\ hostUp
    /\ ~cut
    /\ Cardinality(answers) <= MaxBefore
    /\ Lose
    /\ cut' = TRUE
    /\ UNCHANGED <<msgids, rpc_states, rpcserve_alive, pc, cur, frameVars,
                   readerVars, errorDue, exited, hostUp, answers>>
-----------------------------------------------------------------------------
\* The steps of a call that is under way, and of do_abort.
Run(c) ==
    \/ aborting[c] /\ Number(c)
    \/ Refuse(c) \/ Register(c) \/ Send(c)
    \/ Lock(c) \/ Check(c) \/ Wait(c) \/ TakeReply(c)
    \/ Proceed(c) \/ AssertDies(c) \/ Exit(c)

Reader ==
    \/ ReaderStart \/ ReaderRecv \/ ReaderSetMsg \/ ReaderWake
    \/ ReaderFail \/ ReaderApply \/ ReaderLeave

Host == HostAnswer \/ HostAbort

Next ==
    \/ \E c \in Callers :
          Run(c) \/ Number(c) \/ SpuriousWakeup(c) \/ AssertFails(c)
    \/ ReportError
    \/ Reader \/ ReaderMisread
    \/ Host \/ HostClose \/ HostCut

Spec == Init /\ [][Next]_vars

\* Threads are scheduled; the host's run loop keeps serving; the main thread
\* returns to its run loop.  Nothing makes a broken stream go on (ReaderMisread).
Fairness ==
    /\ \A c \in Callers : WF_vars(Run(c))
    /\ WF_vars(Reader)
    /\ WF_vars(Host)
    /\ WF_vars(ReportError)

FairSpec == Spec /\ Fairness
-----------------------------------------------------------------------------
(* Safety.                                                                 *)

\* The reader, and rpc_applier, write s->msg only into the frame of a call
\* that is still in its stub and has no message yet: never into a dead stack
\* frame, never over an earlier reply (PROTOCOLBUFFERS.py:514-517, 359-366).
DeliveryHitsLiveFrame ==
    /\ reader = "found" => Live(target) /\ msg[target.frame] = NoMsg
    /\ reader = "apply" =>
          \A e \in rpc_states \ applied : Live(e) /\ msg[e.frame] = NoMsg

\* No lost wakeup: a thread that sleeps in pthread_cond_wait although its
\* message is there is about to be signalled by the reader, who set s->msg
\* without holding s->mut (PROTOCOLBUFFERS.py:249-252, 516-519).
NoLostWakeup ==
    \A c \in Callers :
        pc[c] = "waiting" /\ msg[c] # NoMsg =>
            /\ reader \in {"wake", "applywake"}
            /\ target = [id |-> cur[c], frame |-> c]

\* Every call that waits without a message is still owed one: it is in the
\* registry or the reader holds its reply, and in the registry it is either
\* on its way to the host and back or the connection is down, which fails it,
\* as long as no timeout of the host has cut a message
\* (PROTOCOLBUFFERS.py:231-252, 451-455, 508-524).
NobodyForgotten ==
    \A c \in Callers :
        pc[c] \in InStub \ {"registered"} /\ msg[c] = NoMsg =>
            \/ /\ reader = "found"
               /\ target = [id |-> cur[c], frame |-> c]
            \/ /\ [id |-> cur[c], frame |-> c] \in rpc_states \ applied
               /\ reader # "gone"
               /\ \/ ~hostUp \/ cut
                  \/ \E i \in DOMAIN toHost : toHost[i].id = cur[c]
                  \/ \E i \in DOMAIN toFood : toFood[i].id = cur[c]

\* A stub that returns a host status returns the one the host gave for this
\* very call, whatever calls of other threads are in flight, unless a timeout
\* of the host has cut a message (PROTOCOLBUFFERS.py:214-247, 508-516).
OwnReply ==
    \A c \in Callers :
        pc[c] = "returned" /\ ret[c] \in Statuses /\ ~cut =>
            [id |-> cur[c], status |-> ret[c]] \in answers

\* CFDictionaryApplyFunction walks rpc_states without rpc_states_mutex: no
\* thread changes the registry meanwhile, because rpcserve_alive was cleared
\* under the mutex first (PROTOCOLBUFFERS.py:452-455, 232-236).
RegistryFrozenWhileApplied ==
    [][(reader \in {"apply", "applywake"}) => UNCHANGED rpc_states]_vars

\* _assertZero(get_parameters(...)) takes it that a call made while the host
\* is there, and no timeout has struck, does not fail in the runtime
\* (food/np.c:557).
HealthyCallSucceeds ==
    \A c \in Callers : pc[c] = "returned" /\ hostUp /\ ~cut => ret[c] # Failed
-----------------------------------------------------------------------------
(* Liveness.                                                               *)

\* A call that has been sent returns, unless the process exits first, the
\* reader blocked on the abandoned mutex of an earlier call, or a timeout of
\* the host has cut a message.
CallReturns ==
    \A c \in Callers :
        pc[c] = "sent" ~>
            pc[c] = "returned" \/ exited \/ reader = "stuck" \/ cut

\* The loss of the connection ends the player process, also when its main
\* thread waits in a call (common.c:149-156) and also after a timeout has cut a
\* message, unless the reader blocked on the abandoned mutex.
LossEndsPlayer == ~hostUp ~> exited \/ reader = "stuck"

\* do_abort: abort_msg "may or may not succeed", then exit(1)
\* (common.c:205-209); a message cut by a timeout is no excuse the code knows,
\* but it is one here.
AbortExits == \A c \in Callers : aborting[c] ~> exited \/ cut
-----------------------------------------------------------------------------
(* Refinement.                                                             *)

\* The host has answered the call of thread c.
Answered(c) == \E a \in answers : a.id = cur[c]
AnswerTo(id, given) == CHOOSE a \in given : a.id = id

link == IF rpcserve_alive THEN "up"
        ELSE IF reader = "starting" THEN "starting" ELSE "lost"

phase == [c \in Callers |->
            IF pc[c] \in {"idle", "returned"} THEN pc[c]
            ELSE IF Answered(c) THEN "answered" ELSE "asked"]

result == [c \in Callers |->
            IF pc[c] = "idle" THEN NoResult
            ELSE IF pc[c] = "returned" THEN ret[c]
            ELSE IF Answered(c) THEN AnswerTo(cur[c], answers).status
            ELSE NoResult]

Service == INSTANCE RpcService WITH broken <- cut

\* A call returns at most once, with its own answer or with a failure of the
\* connection, until a timeout of the host has cut a message: RpcCall
\* implements RpcService.
ServiceSpec == Service!Spec
=============================================================================
