------------------------------ MODULE RpcSend -------------------------------
(***************************************************************************)
(* The sending half of the RPC runtime: xsend, called by any thread, puts  *)
(* a message on pending_sends; one thread per process, xsend_thread, sends *)
(* the messages of all connections, piecewise, and drops the rest of a     *)
(* message when send fails.  At the other end of each connection the       *)
(* reader (rpcserve_thread_) cuts the stream back into messages.           *)
(*                                                                         *)
(* A message is a sequence of units.  Its first HdrLen units are the       *)
(* header, the first of which holds the magic number and the length.       *)
(*                                                                         *)
(* The host's sockets have a send and a receive timeout, the player's have *)
(* none (Player2/server.m).  So of the two directions of a connection, the *)
(* one the host sends on, in TimedFds, may lose the rest of a message to   *)
(* the sender's timeout; on the other one, which the player sends on, the  *)
(* host is the reader and recv may time out.                               *)
(***************************************************************************)
EXTENDS Naturals, Sequences

CONSTANTS Senders,      \* threads that call xsend
          Fds,          \* connections of this process
          TimedFds,     \* those the host sends on, with SO_SNDTIMEO; it
                        \* reads the others, with SO_RCVTIMEO
          HdrLen,       \* units of a header
          MaxLen,       \* bound: units of a message
          MaxMsgs,      \* bound: messages sent
          Cap           \* units the socket buffers of a connection hold

ASSUME BoundsAssumption == /\ Fds # {} /\ TimedFds \subseteq Fds
                           /\ HdrLen \in Nat \ {0}
                           /\ MaxLen \in Nat /\ HdrLen <= MaxLen
                           /\ MaxMsgs \in Nat
                           /\ Cap \in Nat \ {0}

VARIABLES
    spc,            \* spc[s]: sender s is "idle" or "calling" xsend
    arg,            \* arg[s]: the message it calls xsend with
    pending_sends,  \* the queue
    xthread,        \* where xsend_thread is
    hdr,            \* the message xsend_thread works on
    len,            \* units of it not sent yet
    sock,           \* sock[f]: units in the socket buffers
    open,           \* open[f]: f is open at this end
    peer,           \* peer[f]: "reading", "stalled", "badmagic", "ended"
                    \* (the reader returned in a message) or "gone"
    again,          \* connections whose reader has errno EAGAIN
    cut,            \* history: connections that lost units to a timeout
    part,           \* part[f]: units of the message the reader is reading
    count,          \* messages made so far
    accepted,       \* history: accepted[f], the messages xsend took for f
    received        \* history: received[f], the messages the reader cut out

senderVars == <<spc, arg, count>>
queueVars  == <<pending_sends, accepted>>
threadVars == <<xthread, hdr, len>>
connVars   == <<sock, open, peer, part, again, cut, received>>
vars == <<spc, arg, pending_sends, xthread, hdr, len, sock, open, peer, part,
          again, cut, count, accepted, received>>

Unit == [id : 1..MaxMsgs, k : 1..MaxLen, size : HdrLen..MaxLen]
Message == [id : 0..MaxMsgs, fd : Fds, size : HdrLen..MaxLen]

Units(m) == [k \in 1..m.size |-> [id |-> m.id, k |-> k, size |-> m.size]]

NoMessage == [id |-> 0, fd |-> CHOOSE f \in Fds : TRUE, size |-> HdrLen]

TypeOK ==
    /\ spc \in [Senders -> {"idle", "calling"}]
    /\ arg \in [Senders -> Message]
    /\ pending_sends \in Seq(Message)
    /\ xthread \in {"none", "relock", "locked", "waiting", "sending"}
    /\ hdr \in Message
    /\ len \in 0..MaxLen
    /\ sock \in [Fds -> Seq(Unit)]
    /\ \A f \in Fds : Len(sock[f]) <= Cap
    /\ open \in [Fds -> BOOLEAN]
    /\ peer \in [Fds -> {"reading", "stalled", "badmagic", "ended", "gone"}]
    /\ part \in [Fds -> Seq(Unit)]
    /\ again \subseteq Fds /\ cut \subseteq Fds
    /\ count \in 0..MaxMsgs
    /\ accepted \in [Fds -> Seq(Seq(Unit))]
    /\ received \in [Fds -> Seq(Seq(Unit))]

Init ==
    /\ spc = [s \in Senders |-> "idle"]
    /\ arg = [s \in Senders |-> NoMessage]
    /\ pending_sends = <<>>
    /\ xthread = "none"
    /\ hdr = NoMessage
    /\ len = 0
    /\ sock = [f \in Fds |-> <<>>]
    /\ open = [f \in Fds |-> TRUE]
    /\ peer = [f \in Fds |-> "reading"]
    /\ part = [f \in Fds |-> <<>>]
    /\ again = {} /\ cut = {}
    /\ count = 0
    /\ accepted = [f \in Fds |-> <<>>]
    /\ received = [f \in Fds |-> <<>>]
-----------------------------------------------------------------------------
(* The senders.                                                            *)

\* A stub or the dispatcher has made a message and calls xsend.
Call(s) ==
    /\ spc[s] = "idle"
    /\ count < MaxMsgs
    /\ count' = count + 1
    /\ \E f \in Fds, n \in HdrLen..MaxLen :
          arg' = [arg EXCEPT ![s] = [id |-> count + 1, fd |-> f, size |-> n]]
    /\ spc' = [spc EXCEPT ![s] = "calling"]
    /\ UNCHANGED <<queueVars, threadVars, connVars>>

\* pthread_once(&send_once, xsend_startup): the first caller makes the queue
\* and the thread, the others wait for it.
Startup(s) ==
    /\ spc[s] = "calling"
    /\ xthread = "none"
    /\ xthread' = "relock"
    /\ UNCHANGED <<senderVars, queueVars, hdr, len, connVars>>

\* Mutant: append without pthread_cond_signal.
XsendSilent(s) ==
    /\ spc[s] = "calling"
    /\ xthread \notin {"none", "locked"}
    /\ pending_sends' = Append(pending_sends, arg[s])
    /\ accepted' = [accepted EXCEPT ![arg[s].fd] = Append(@, Units(arg[s]))]
    /\ spc' = [spc EXCEPT ![s] = "idle"]
    /\ arg' = [arg EXCEPT ![s] = NoMessage]
    /\ UNCHANGED <<count, threadVars, connVars>>

\* Mutant: the message is put at the head of the queue.
XsendFront(s) ==
    /\ spc[s] = "calling"
    /\ xthread \notin {"none", "locked"}
    /\ pending_sends' = <<arg[s]>> \o pending_sends
    /\ accepted' = [accepted EXCEPT ![arg[s].fd] = Append(@, Units(arg[s]))]
    /\ xthread' = IF xthread = "waiting" THEN "relock" ELSE xthread
    /\ spc' = [spc EXCEPT ![s] = "idle"]
    /\ arg' = [arg EXCEPT ![s] = NoMessage]
    /\ UNCHANGED <<count, hdr, len, connVars>>

\* Mutant: xsend_thread keeps send_mutex while it sends.
XsendBlocked(s) ==
    /\ spc[s] = "calling"
    /\ xthread \notin {"none", "locked", "sending"}
    /\ pending_sends' = Append(pending_sends, arg[s])
    /\ accepted' = [accepted EXCEPT ![arg[s].fd] = Append(@, Units(arg[s]))]
    /\ xthread' = IF xthread = "waiting" THEN "relock" ELSE xthread
    /\ spc' = [spc EXCEPT ![s] = "idle"]
    /\ arg' = [arg EXCEPT ![s] = NoMessage]
    /\ UNCHANGED <<count, hdr, len, connVars>>

\* xsend: append and signal under send_mutex, which xsend_thread holds only
\* while it looks at the queue.
Xsend(s) ==
    /\ spc[s] = "calling"
    /\ xthread \notin {"none", "locked"}
    /\ pending_sends' = Append(pending_sends, arg[s])
    /\ accepted' = [accepted EXCEPT ![arg[s].fd] = Append(@, Units(arg[s]))]
    /\ xthread' = IF xthread = "waiting" THEN "relock" ELSE xthread
    /\ spc' = [spc EXCEPT ![s] = "idle"]
    /\ arg' = [arg EXCEPT ![s] = NoMessage]
    /\ UNCHANGED <<count, hdr, len, connVars>>
-----------------------------------------------------------------------------
(* xsend_thread.                                                           *)

\* It gets send_mutex: at its start, after a message, after a signal.
Relock ==
    /\ xthread = "relock"
    /\ xthread' = "locked"
    /\ UNCHANGED <<senderVars, queueVars, hdr, len, connVars>>

\* Take the first message and unlock.
Pop ==
    /\ xthread = "locked"
    /\ pending_sends # <<>>
    /\ hdr' = Head(pending_sends)
    /\ len' = Head(pending_sends).size
    /\ pending_sends' = Tail(pending_sends)
    /\ xthread' = "sending"
    /\ UNCHANGED <<senderVars, accepted, connVars>>

\* pthread_cond_wait(&send_cond, &send_mutex).
Sleep ==
    /\ xthread = "locked"
    /\ pending_sends = <<>>
    /\ xthread' = "waiting"
    /\ UNCHANGED <<senderVars, queueVars, hdr, len, connVars>>

\* pthread_cond_wait may return without a signal.
SpuriousWakeup ==
    /\ xthread = "waiting"
    /\ xthread' = "relock"
    /\ UNCHANGED <<senderVars, queueVars, hdr, len, connVars>>

\* A process whose reader has returned keeps its socket until it closes it.
Connected(f) == open[f] /\ peer[f] # "gone"

\* send returned bs > 0: the buffer took some units of the message.
SendSome ==
    /\ xthread = "sending"
    /\ len > 0
    /\ Connected(hdr.fd)
    /\ \E bs \in 1..len :
          /\ Len(sock[hdr.fd]) + bs <= Cap
          /\ sock' = [sock EXCEPT ![hdr.fd] =
                @ \o SubSeq(Units(hdr), hdr.size - len + 1, hdr.size - len + bs)]
          /\ len' = len - bs
    /\ UNCHANGED <<senderVars, queueVars, xthread, hdr, open, peer, part,
                   again, cut, received>>

\* Mutant: a full buffer is an error on every socket.
SendErrorFull ==
    /\ xthread = "sending"
    /\ len > 0
    /\ ~Connected(hdr.fd) \/ Len(sock[hdr.fd]) = Cap
    /\ len' = 0
    /\ cut' = cut \cup ({hdr.fd} \cap TimedFds)
    /\ UNCHANGED <<senderVars, queueVars, xthread, hdr, sock, open, peer, part,
                   again, received>>

\* send returned -1, because the connection is gone or, on a socket with
\* SO_SNDTIMEO, because the buffer stayed full: the rest is not sent.
SendError ==
    /\ xthread = "sending"
    /\ len > 0
    /\ \/ /\ ~Connected(hdr.fd)
          /\ UNCHANGED cut
       \/ /\ Connected(hdr.fd)
          /\ hdr.fd \in TimedFds /\ Len(sock[hdr.fd]) = Cap
          /\ cut' = cut \cup {hdr.fd}
    /\ len' = 0
    /\ UNCHANGED <<senderVars, queueVars, xthread, hdr, sock, open, peer, part,
                   again, received>>

\* Mutant: the thread waits for a signal after every message.
SentThenWait ==
    /\ xthread = "sending"
    /\ len = 0
    /\ xthread' = "waiting"
    /\ hdr' = NoMessage
    /\ UNCHANGED <<senderVars, queueVars, len, connVars>>

\* while(len) ends, free(hdr).
Sent ==
    /\ xthread = "sending"
    /\ len = 0
    /\ xthread' = "relock"
    /\ hdr' = NoMessage
    /\ UNCHANGED <<senderVars, queueVars, len, connVars>>
-----------------------------------------------------------------------------
(* The other end of connection f, and the end of connections.              *)

\* What the reader of f has read of a message, with the next unit.
Taken(f) == Append(part[f], Head(sock[f]))

\* Mutant: the reader takes one unit more than msgsize says.
RecvUnitLong(f) ==
    /\ peer[f] = "reading"
    /\ sock[f] # <<>>
    /\ Len(Taken(f)) = HdrLen => Taken(f)[1].k = 1
    /\ sock' = [sock EXCEPT ![f] = Tail(@)]
    /\ IF Len(Taken(f)) = Taken(f)[1].size + 1
         THEN /\ part' = [part EXCEPT ![f] = <<>>]
              /\ received' = [received EXCEPT ![f] = Append(@, Taken(f))]
         ELSE /\ part' = [part EXCEPT ![f] = Taken(f)]
              /\ UNCHANGED received
    /\ UNCHANGED <<senderVars, queueVars, threadVars, open, peer, again, cut>>

\* recv, the next unit of a header or a body; a header with the magic number
\* starts a message of the length it states, whatever follows.
RecvUnit(f) ==
    /\ peer[f] = "reading"
    /\ sock[f] # <<>>
    /\ Len(Taken(f)) = HdrLen => Taken(f)[1].k = 1
    /\ sock' = [sock EXCEPT ![f] = Tail(@)]
    /\ IF Len(Taken(f)) = Taken(f)[1].size
         THEN /\ part' = [part EXCEPT ![f] = <<>>]
              /\ received' = [received EXCEPT ![f] = Append(@, Taken(f))]
         ELSE /\ part' = [part EXCEPT ![f] = Taken(f)]
              /\ UNCHANGED received
    /\ UNCHANGED <<senderVars, queueVars, threadVars, open, peer, again, cut>>

\* if(hdr.magic != 0x12345678) return 1
RecvBadMagic(f) ==
    /\ peer[f] = "reading"
    /\ sock[f] # <<>>
    /\ Len(Taken(f)) = HdrLen
    /\ Taken(f)[1].k # 1
    /\ peer' = [peer EXCEPT ![f] = "badmagic"]
    /\ sock' = [sock EXCEPT ![f] = Tail(@)]
    /\ part' = [part EXCEPT ![f] = <<>>]
    /\ UNCHANGED <<senderVars, queueVars, threadVars, open, again, cut, received>>

\* The reader has waited for the time of SO_RCVTIMEO.
TimedOut(f) == f \notin TimedFds /\ peer[f] = "reading" /\ sock[f] = <<>>

\* Between two messages: recv returns -1 and sets errno to EAGAIN; continue.
RecvTimeout(f) ==
    /\ TimedOut(f)
    /\ part[f] = <<>>
    /\ again' = again \cup {f}
    /\ UNCHANGED <<senderVars, queueVars, threadVars, sock, open, peer, part, cut,
                   received>>

\* In a header: recv returns what there is and leaves errno alone.  When that
\* is still EAGAIN, the reader goes on as if it had read nothing.
DropHeader(f) ==
    /\ TimedOut(f)
    /\ Len(part[f]) \in 1..HdrLen-1
    /\ f \in again
    /\ part' = [part EXCEPT ![f] = <<>>]
    /\ cut' = cut \cup {f}
    /\ UNCHANGED <<senderVars, queueVars, threadVars, sock, open, peer, again,
                   received>>

\* Otherwise, and in a body whatever errno is, it returns.
RecvShort(f) ==
    /\ TimedOut(f)
    /\ \/ Len(part[f]) \in 1..HdrLen-1 /\ f \notin again
       \/ Len(part[f]) >= HdrLen
    /\ peer' = [peer EXCEPT ![f] = "ended"]
    /\ UNCHANGED <<senderVars, queueVars, threadVars, sock, open, part, again, cut,
                   received>>

\* The process at the other end stops reading, and may resume.
Stall(f) ==
    /\ peer[f] = "reading"
    /\ peer' = [peer EXCEPT ![f] = "stalled"]
    /\ UNCHANGED <<senderVars, queueVars, threadVars, sock, open, part, again, cut,
                   received>>

Resume(f) ==
    /\ peer[f] = "stalled"
    /\ peer' = [peer EXCEPT ![f] = "reading"]
    /\ UNCHANGED <<senderVars, queueVars, threadVars, sock, open, part, again, cut,
                   received>>

\* It exits, and what is in its buffers is gone.
PeerExit(f) ==
    /\ peer[f] # "gone"
    /\ peer' = [peer EXCEPT ![f] = "gone"]
    /\ sock' = [sock EXCEPT ![f] = <<>>]
    /\ part' = [part EXCEPT ![f] = <<>>]
    /\ again' = again \ {f}
    /\ UNCHANGED <<senderVars, queueVars, threadVars, open, cut, received>>

\* close(f) at this end; what is in the buffers still arrives.
CloseFd(f) ==
    /\ open[f]
    /\ open' = [open EXCEPT ![f] = FALSE]
    /\ UNCHANGED <<senderVars, queueVars, threadVars, sock, peer, part, again, cut,
                   received>>
-----------------------------------------------------------------------------
Thread == Relock \/ Pop \/ Sleep \/ SendSome \/ SendError \/ Sent

Next ==
    \/ \E s \in Senders : Call(s) \/ Startup(s) \/ Xsend(s)
    \/ Thread \/ SpuriousWakeup
    \/ \E f \in Fds : \/ RecvUnit(f) \/ RecvBadMagic(f)
                      \/ RecvTimeout(f) \/ DropHeader(f) \/ RecvShort(f)
                      \/ Stall(f) \/ Resume(f) \/ PeerExit(f) \/ CloseFd(f)

Spec == Init /\ [][Next]_vars

\* The threads of both processes are scheduled; a thread that waits for
\* send_mutex gets it although others take it in between.
Fairness ==
    /\ \A s \in Senders : SF_vars(Startup(s) \/ Xsend(s))
    /\ WF_vars(Thread)
    /\ \A f \in Fds : WF_vars(RecvUnit(f))

FairSpec == Spec /\ Fairness
-----------------------------------------------------------------------------
\* xsend_thread does not sleep on a nonempty queue: the append and the signal
\* fall outside the window between its look at the queue and its wait
\* (PROTOCOLBUFFERS.py:62-88, 99-106).
NoSleepingBacklog == xthread = "waiting" => pending_sends = <<>>

\* A reader finds the magic number wherever it expects a header, unless a
\* timeout took units from its connection: no other error and no mixing of the
\* connections that share xsend_thread cuts a message in front of another one
\* (PROTOCOLBUFFERS.py:74-84, 492-499).
NeverDesynced == \A f \in Fds : peer[f] = "badmagic" => f \in cut

\* Its reader has not returned.
Served(f) == open[f] /\ peer[f] \in {"reading", "stalled"}

\* Nothing of what xsend took for a connection drops out while it is served,
\* unless to a timeout: what the reader has not got is queued, in
\* xsend_thread's hands, in the buffers or read in part
\* (PROTOCOLBUFFERS.py:58-106, 489-508).
NothingVanishes ==
    \A f \in Fds \ cut :
        Served(f) /\ received[f] # accepted[f] =>
            \/ \E i \in DOMAIN pending_sends : pending_sends[i].fd = f
            \/ xthread = "sending" /\ hdr.fd = f /\ len > 0
            \/ sock[f] # <<>> \/ part[f] # <<>>

\* NeverDesynced without the exception: a bad magic number is worth a double
\* warning (PROTOCOLBUFFERS.py:496-499).
MagicEverywhere == \A f \in Fds : peer[f] # "badmagic"

\* A thread that calls xsend gets out of it whatever the peers do, even when
\* one stops reading for good: the queue stands for the "unlimited buffer
\* size" (PROTOCOLBUFFERS.py:56, 99-106).
XsendReturns == \A s \in Senders : spc[s] = "calling" ~> spc[s] = "idle"

\* As long as every peer keeps reading and every connection stays, all that
\* xsend took for a connection arrives, unless a timeout takes something from
\* it (PROTOCOLBUFFERS.py:58-91, 489-508).
AllArrives ==
    \A f \in Fds :
        (received[f] # accepted[f])
            ~> \/ received[f] = accepted[f] \/ f \in cut
               \/ \E g \in Fds : ~open[g] \/ peer[g] # "reading"

Channel == INSTANCE RpcChannel WITH
    Messages <- {Units(m) : m \in [id : 1..MaxMsgs, fd : Fds, size : HdrLen..MaxLen]},
    sent <- accepted,
    got <- received,
    broken <- cut

\* On each connection the messages arrive whole, once and in the order in
\* which xsend took them, until a timeout takes something from it
\* (PROTOCOLBUFFERS.py:58-106, 489-508).
ChannelSpec == Channel!Spec
=============================================================================
