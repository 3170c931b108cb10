----------------------------- MODULE UrlStream ------------------------------
(***************************************************************************)
(* The streams that Flash opens with NPN_GetURLNotify and                  *)
(* NPN_PostURLNotify.  The player's main thread allocates an NPStream and  *)
(* makes a synchronous call; the host answers the call and, from the       *)
(* handler itself or from a URLDude thread, sends connection_response,     *)
(* connection_got_data and connection_all_done, which name the stream by   *)
(* its address.  The player's reader hands the reply to the waiting stub   *)
(* and queues the rest for the main thread's run loop.                     *)
(*                                                                         *)
(* Both queues and the socket are one FIFO towards the player, one call at *)
(* a time goes the other way: what RpcSend and RpcServe promise as long as *)
(* no timeout of the host's socket has cut a message and no two accesses   *)
(* to the array of requests overlap, which is assumed here.  Flash may     *)
(* open streams from inside the callbacks.                                 *)
(* When the player has exited nothing of the host reaches it any more, and *)
(* the model stops.                                                        *)
(***************************************************************************)
EXTENDS Integers, Sequences

CONSTANTS
    Addrs,          \* addresses malloc may return for an NPStream
    MaxStreams,     \* bound: streams opened
    MaxBytes,       \* bound: bytes in one message of data
    MaxTotal,       \* bound: bytes of one stream
    MaxFlight,      \* bound: messages under way when a URLDude sends one
    MaxRemain,      \* bound: bytes not yet taken of one message
    MaxGiven        \* bound: bytes Flash takes of one stream

ASSUME BoundsAssumption ==
    /\ MaxStreams \in Nat /\ MaxFlight \in Nat
    /\ MaxBytes \in Nat \ {0} /\ MaxTotal \in Nat
    /\ MaxRemain \in Nat /\ MaxBytes <= MaxRemain
    /\ MaxGiven \in Nat /\ MaxTotal <= MaxGiven
ASSUME AddrsAssumption == 0 \notin Addrs

Streams == 1..MaxStreams
Nobody == 0
Kinds == {"load", "script", "frame"}    \* http or post; javascript:; target
Offsets == Int                          \* ndata: NPP_Write may fail and lower it

VARIABLES
    mem,        \* per address: the NPStream there, id = Nobody if free
    opened,     \* streams opened so far
    stage,      \* what the main thread's handler is in
    cur,        \* the message it handles
    remain,     \* connection_got_data: bytes not yet taken
    call,       \* address of the stream whose call is unanswered, or Nobody
    nested,     \* that call was made inside a callback
    answered,   \* the reply is in the stub's frame
    messages,   \* requests queued for the main thread
    started,    \* later() has opened the movie itself
    toFood,     \* in flight to the player
    request,    \* the call in flight to the host
    todo,       \* what the host's handler still has to send
    dude,       \* per stream: its URLDude
    gave,       \* history: bytes the host got for the stream
    given,      \* history: <<offset, byte>> that NPP_Write took
    short,      \* history: streams of which NPP_Write took less than offered
    loads,      \* history: streams opened without a target
    whole,      \* history: streams of which the host got everything
    phase       \* history: the last callback Flash got for the stream

callVars == <<opened, call, nested, answered, started, loads>>
handlerVars == <<stage, cur, remain>>
pipeVars == <<messages, toFood>>
hostVars == <<request, todo, dude, gave, whole>>
flashVars == <<given, short>>
vars == <<mem, callVars, handlerVars, pipeVars, hostVars, flashVars, phase>>

NoMsg == [type |-> "none", addr |-> Nobody, id |-> Nobody]
NoStream == [id |-> Nobody, url |-> FALSE, headers |-> FALSE, ndata |-> 0, notify |-> "none"]

\* Messages of the host; id is the stream meant, which only the model knows.
Msg(type, q) == [type |-> type, addr |-> q.addr, id |-> q.id]
Response(q, h) == [type |-> "response", addr |-> q.addr, id |-> q.id, headers |-> h]
GotData(q, from, n) == [type |-> "data", addr |-> q.addr, id |-> q.id, from |-> from, len |-> n]
AllDone(q, ok) == [type |-> "done", addr |-> q.addr, id |-> q.id, ok |-> ok]

Messages ==
    {NoMsg} \cup
    [type : {"reply"}, addr : Addrs, id : Streams] \cup
    [type : {"response"}, addr : Addrs, id : Streams, headers : BOOLEAN] \cup
    [type : {"data"}, addr : Addrs, id : Streams, from : 0..MaxTotal, len : 0..MaxBytes] \cup
    [type : {"done"}, addr : Addrs, id : Streams, ok : BOOLEAN]

TypeOK ==
    /\ mem \in [Addrs -> [id : Streams \cup {Nobody}, url : BOOLEAN, headers : BOOLEAN,
                          ndata : Offsets, notify : {"none", "flash", "dummy"}]]
    /\ opened \in 0..MaxStreams
    /\ stage \in {"none", "newstream", "write", "destroystream", "urlnotify", "free", "exited"}
    /\ cur \in Messages
    /\ remain \in Int
    /\ call \in Addrs \cup {Nobody}
    /\ nested \in BOOLEAN /\ answered \in BOOLEAN /\ started \in BOOLEAN
    /\ loads \subseteq Streams
    /\ messages \in Seq(Messages) /\ toFood \in Seq(Messages) /\ todo \in Seq(Messages)
    /\ request \in [addr : Addrs, id : Streams, kind : Kinds]
                   \cup {[addr |-> Nobody, id |-> Nobody, kind |-> "none"]}
    /\ dude \in [Streams -> [addr : Addrs \cup {Nobody}, id : Streams,
                             state : {"none", "started", "open", "ended"}]]
    /\ gave \in [Streams -> 0..MaxTotal]
    /\ given \in [Streams -> Seq(Offsets \X (1..MaxTotal))]
    /\ short \subseteq Streams
    /\ whole \subseteq Streams
    /\ phase \in [Streams -> {"none", "asked", "open", "closed", "notified"}]

NoRequest == [addr |-> Nobody, id |-> Nobody, kind |-> "none"]

Init ==
    /\ mem = [a \in Addrs |-> NoStream]
    /\ opened = 0 /\ stage = "none" /\ cur = NoMsg /\ remain = 0
    /\ call = Nobody /\ nested = FALSE /\ answered = FALSE /\ loads = {}
    /\ messages = <<>> /\ started = FALSE
    /\ toFood = <<>> /\ request = NoRequest /\ todo = <<>>
    /\ dude = [s \in Streams |-> [addr |-> Nobody, id |-> s, state |-> "none"]]
    /\ gave = [s \in Streams |-> 0]
    /\ given = [s \in Streams |-> <<>>]
    /\ short = {}
    /\ whole = {}
    /\ phase = [s \in Streams |-> "none"]
-----------------------------------------------------------------------------
(* The player: opening a stream.                                           *)

\* malloc, the fields, and the call; stream->url stays what malloc left.
Ask(a, kind, notify) ==
    /\ call = Nobody
    /\ mem[a].id = Nobody
    /\ opened < MaxStreams
    /\ opened' = opened + 1
    /\ mem' = [mem EXCEPT ![a] = [NoStream EXCEPT !.id = opened + 1, !.notify = notify]]
    /\ call' = a
    /\ nested' = (stage # "none")
    /\ loads' = IF kind = "frame" THEN loads ELSE loads \cup {opened + 1}
    /\ request' = [addr |-> a, id |-> opened + 1, kind |-> kind]
    /\ phase' = [phase EXCEPT ![opened + 1] = "asked"]
    /\ UNCHANGED <<answered, handlerVars, pipeVars, todo, dude, gave, whole, flashVars>>

\* later(): the movie itself, with MAP_FAILED for notifyData.
Later ==
    /\ stage = "none"
    /\ ~started
    /\ started' = TRUE
    /\ \E a \in Addrs : Ask(a, "load", "dummy")

\* Flash opens a stream, from the run loop or from inside a callback.
FlashAsks ==
    /\ stage \notin {"free", "exited"}
    /\ \E a \in Addrs, kind \in Kinds, notify \in {"none", "flash"} : Ask(a, kind, notify)
    /\ UNCHANGED started

\* The stub stores the reply's url_abs in stream->url and returns 0.
CallReturns ==
    /\ call # Nobody
    /\ answered
    /\ mem' = [mem EXCEPT ![call].url = TRUE]
    /\ call' = Nobody
    /\ answered' = FALSE
    /\ UNCHANGED <<opened, nested, loads, started, handlerVars, pipeVars, hostVars, flashVars, phase>>

\* The reader: a reply goes to the stub, anything else to the run loop.
Receive ==
    /\ stage # "exited"
    /\ toFood # <<>>
    /\ toFood' = Tail(toFood)
    /\ IF Head(toFood).type = "reply"
       THEN answered' = TRUE /\ UNCHANGED messages
       ELSE messages' = Append(messages, Head(toFood)) /\ UNCHANGED answered
    /\ UNCHANGED <<mem, opened, call, nested, loads, started, handlerVars, hostVars, flashVars, phase>>
-----------------------------------------------------------------------------
(* The player: the handlers of the three messages.                         *)

\* Mutant: the message is handled although the main thread waits in a call.
HandleInCall(type) ==
    /\ stage = "none"
    /\ messages # <<>> /\ Head(messages).type = type
    /\ cur' = Head(messages)
    /\ messages' = Tail(messages)

\* The run loop takes a message; it does not run while the main thread
\* waits in a call.
Handle(type) ==
    /\ stage = "none" /\ call = Nobody
    /\ messages # <<>> /\ Head(messages).type = type
    /\ cur' = Head(messages)
    /\ messages' = Tail(messages)

\* A callback cannot return while a call it made is unanswered.
CallbackReturns == call = Nobody \/ ~nested

\* The callback returns, and the handler as well.
Return ==
    /\ CallbackReturns
    /\ stage' = "none" /\ cur' = NoMsg
    /\ UNCHANGED messages

\* connection_response; a second response would fail the assertion.
ConnectionResponse ==
    /\ Handle("response")
    /\ IF mem[cur'.addr].headers
       THEN stage' = "exited" /\ UNCHANGED <<mem, phase>>
       ELSE /\ mem' = [mem EXCEPT ![cur'.addr].headers = cur'.headers,
                                  ![cur'.addr].ndata = 0]
            /\ phase' = [phase EXCEPT ![cur'.id] = "open"]
            /\ stage' = "newstream"
    /\ UNCHANGED <<callVars, remain, toFood, hostVars, flashVars>>

\* An assertion fails: the player logs, tells the host and exits.
Abort ==
    /\ CallbackReturns
    /\ stage' = "exited"
    /\ UNCHANGED <<cur, messages>>

\* newstream has to succeed, with the type NP_NORMAL.
NewStreamReturns ==
    /\ stage = "newstream"
    /\ Return \/ Abort
    /\ UNCHANGED <<mem, callVars, remain, toFood, hostVars, flashVars, phase>>

\* connection_got_data: writeready promises enough, or the assertion fails.
ConnectionGotData ==
    /\ Handle("data")
    /\ remain' = cur'.len
    /\ \/ stage' = "write"
       \/ cur'.len > 0 /\ stage' = "exited"
    /\ UNCHANGED <<mem, callVars, toFood, hostVars, flashVars, phase>>

\* What NPP_Write is offered, each time: all bytes of the message, the first
\* one for the offset ndata.
Offered == [k \in 1..cur.len |-> <<mem[cur.addr].ndata + k, cur.from + k>>]

\* It takes the first ret of them, or fails with a negative ret.
Takes(ret) ==
    /\ remain - ret <= MaxRemain
    /\ Len(given[cur.id]) + ret <= MaxGiven
    /\ given' = [given EXCEPT ![cur.id] = @ \o SubSeq(Offered, 1, ret)]
    /\ short' = IF ret = cur.len THEN short ELSE short \cup {cur.id}

\* Mutant: *p += ret is missing.
WriteInPlace ==
    /\ stage = "write"
    /\ \E ret \in -1..cur.len :
          /\ Takes(ret)
          /\ remain' = remain - ret
    /\ IF remain' > 0
       THEN CallbackReturns /\ UNCHANGED <<stage, cur, messages>>
       ELSE Return
    /\ UNCHANGED <<mem, callVars, toFood, hostVars, phase>>

\* One turn of the loop around NPP_Write.  When Flash has not taken all, the
\* next turn offers the message from its start again, at the new offset.
WriteReturns ==
    /\ stage = "write"
    /\ \E ret \in -1..cur.len :
          /\ Takes(ret)
          /\ mem' = [mem EXCEPT ![cur.addr].ndata = @ + ret]
          /\ remain' = remain - ret
    /\ IF remain' > 0
       THEN CallbackReturns /\ UNCHANGED <<stage, cur, messages>>
       ELSE Return
    /\ UNCHANGED <<callVars, toFood, hostVars, phase>>

\* connection_all_done: a failed stream ends the player.
ConnectionAllDone ==
    /\ Handle("done")
    /\ IF cur'.ok
       THEN /\ stage' = "destroystream"
            /\ phase' = [phase EXCEPT ![cur'.id] = "closed"]
       ELSE stage' = "exited" /\ UNCHANGED phase
    /\ UNCHANGED <<mem, callVars, remain, toFood, hostVars, flashVars>>

\* destroystream has to succeed.  Then urlnotify with stream->url, if Flash
\* wants it; MAP_FAILED only logs.
DestroyStreamReturns ==
    /\ stage = "destroystream" /\ CallbackReturns
    /\ \/ /\ mem[cur.addr].notify = "flash"
          /\ stage' = "urlnotify"
          /\ phase' = [phase EXCEPT ![cur.id] = "notified"]
       \/ /\ mem[cur.addr].notify # "flash"
          /\ stage' = "free" /\ UNCHANGED phase
       \/ stage' = "exited" /\ UNCHANGED phase
    /\ UNCHANGED <<mem, callVars, cur, remain, pipeVars, hostVars, flashVars>>

UrlNotifyReturns ==
    /\ stage = "urlnotify" /\ CallbackReturns
    /\ stage' = "free"
    /\ UNCHANGED <<mem, callVars, cur, remain, pipeVars, hostVars, flashVars, phase>>

\* free the url, the headers and the stream.
Free ==
    /\ stage = "free"
    /\ Return
    /\ mem' = [mem EXCEPT ![cur.addr] = NoStream]
    /\ UNCHANGED <<callVars, remain, toFood, hostVars, flashVars, phase>>
-----------------------------------------------------------------------------
(* The host.                                                               *)

\* Mutant: a call with a target is not answered, and no URLDude is started.
NewConnectionIdle ==
    /\ stage # "exited"
    /\ request # NoRequest /\ todo = <<>>
    /\ request' = NoRequest
    /\ todo' = IF request.kind = "frame" THEN <<>> ELSE <<Msg("reply", request)>>
    /\ UNCHANGED <<mem, callVars, handlerVars, pipeVars, dude, gave, whole, flashVars, phase>>

\* Mutant: the completion of a javascript: URL overtakes its data.
NewConnectionHasty ==
    /\ stage # "exited"
    /\ request # NoRequest /\ todo = <<>>
    /\ request' = NoRequest
    /\ \/ /\ request.kind # "script"
          /\ todo' = <<Msg("reply", request)>>
          /\ dude' = IF request.kind = "frame" THEN dude
                     ELSE [dude EXCEPT ![request.id].addr = request.addr,
                                       ![request.id].state = "started"]
          /\ UNCHANGED <<gave, whole>>
       \/ /\ request.kind = "script"
          /\ \E n \in 0..MaxBytes :
                /\ n <= MaxTotal
                /\ gave' = [gave EXCEPT ![request.id] = n]
                /\ whole' = whole \cup {request.id}
                /\ todo' = <<Response(request, FALSE), AllDone(request, TRUE),
                             GotData(request, 0, n), Msg("reply", request)>>
          /\ UNCHANGED dude
    /\ UNCHANGED <<mem, callVars, handlerVars, pipeVars, flashVars, phase>>

\* new_get_connection, new_post_connection.  With a target only goToURL; for
\* a javascript: URL everything at once, before the reply; else a URLDude.
NewConnection ==
    /\ stage # "exited"
    /\ request # NoRequest /\ todo = <<>>
    /\ request' = NoRequest
    /\ \/ /\ request.kind = "frame"
          /\ todo' = <<Msg("reply", request)>>
          /\ UNCHANGED <<dude, gave, whole>>
       \/ /\ request.kind = "load"
          /\ todo' = <<Msg("reply", request)>>
          /\ dude' = [dude EXCEPT ![request.id].addr = request.addr,
                                  ![request.id].state = "started"]
          /\ UNCHANGED <<gave, whole>>
       \/ /\ request.kind = "script"
          /\ \E n \in 0..MaxBytes :
                /\ n <= MaxTotal
                /\ gave' = [gave EXCEPT ![request.id] = n]
                /\ whole' = whole \cup {request.id}
                /\ todo' = <<Response(request, FALSE), GotData(request, 0, n),
                             AllDone(request, TRUE), Msg("reply", request)>>
          /\ UNCHANGED dude
    /\ UNCHANGED <<mem, callVars, handlerVars, pipeVars, flashVars, phase>>

\* The handler's messages leave one by one; a URLDude's may come between.
HandlerSends ==
    /\ stage # "exited"
    /\ todo # <<>>
    /\ toFood' = Append(toFood, Head(todo))
    /\ todo' = Tail(todo)
    /\ UNCHANGED <<mem, callVars, handlerVars, messages, request, dude, gave, whole, flashVars, phase>>

\* URLDude s sends m and goes on in the given state.
DudeSends(s, m, state) ==
    /\ stage # "exited"
    /\ Len(messages) + Len(toFood) < MaxFlight
    /\ toFood' = Append(toFood, m)
    /\ dude' = [dude EXCEPT ![s].state = state]
    /\ UNCHANGED <<mem, callVars, handlerVars, messages, request, todo, flashVars, phase>>

DidReceiveResponse(s) ==
    /\ dude[s].state = "started"
    /\ DudeSends(s, Response(dude[s], TRUE), "open")
    /\ UNCHANGED <<gave, whole>>

DidReceiveData(s) ==
    /\ dude[s].state = "open"
    /\ \E n \in 1..MaxBytes :
          /\ gave[s] + n <= MaxTotal
          /\ gave' = [gave EXCEPT ![s] = @ + n]
          /\ DudeSends(s, GotData(dude[s], gave[s], n), "open")
    /\ UNCHANGED whole

\* Mutant: the URLDude keeps running after it has reported the end.
DidFinishLoadingKeeps(s) ==
    /\ dude[s].state = "open"
    /\ DudeSends(s, AllDone(dude[s], TRUE), "open")
    /\ whole' = whole \cup {s}
    /\ UNCHANGED gave

DidFinishLoading(s) ==
    /\ dude[s].state = "open"
    /\ DudeSends(s, AllDone(dude[s], TRUE), "ended")
    /\ whole' = whole \cup {s}
    /\ UNCHANGED gave

\* Mutant: an error is not reported.
DidFailQuietly(s) ==
    /\ dude[s].state \in {"started", "open"}
    /\ stage # "exited"
    /\ dude' = [dude EXCEPT ![s].state = "ended"]
    /\ whole' = whole \cup {s}
    /\ UNCHANGED <<mem, callVars, handlerVars, pipeVars, request, todo, gave, flashVars, phase>>

\* didFailWithError, or the connection could not even be made.
DidFailWithError(s) ==
    /\ dude[s].state \in {"started", "open"}
    /\ DudeSends(s, AllDone(dude[s], FALSE), "ended")
    /\ whole' = whole \cup {s}
    /\ UNCHANGED gave

Player ==
    \/ Later \/ CallReturns \/ Receive
    \/ ConnectionResponse \/ NewStreamReturns
    \/ ConnectionGotData \/ WriteReturns
    \/ ConnectionAllDone \/ DestroyStreamReturns \/ UrlNotifyReturns \/ Free

URLDude(s) ==
    \/ DidReceiveResponse(s) \/ DidReceiveData(s)
    \/ DidFinishLoading(s) \/ DidFailWithError(s)

Next ==
    \/ Player \/ FlashAsks
    \/ NewConnection \/ HandlerSends
    \/ \E s \in Streams : URLDude(s)

\* Threads run on.  A URLDude ends because NSURLConnection gives up after
\* the timeout of its request.
Fairness ==
    /\ WF_vars(Player)
    /\ WF_vars(NewConnection \/ HandlerSends)
    /\ \A s \in Streams : WF_vars(DidFinishLoading(s) \/ DidFailWithError(s))

Spec == Init /\ [][Next]_vars
FairSpec == Spec /\ Fairness
-----------------------------------------------------------------------------
(* Properties.                                                             *)

\* connection_all_done hands stream->url to Flash and frees it: it must not
\* be what malloc left there, although the messages race the reply.
UrlFilledBeforeUse == stage \in {"urlnotify", "free"} => mem[cur.addr].url

\* The messages name a stream by its address.  Whatever is still under way
\* must mean the stream that lives there, not one that was freed or the
\* next one that malloc put at the same place.
HitsItsStream ==
    LET pipe == messages \o toFood \o todo IN
    /\ cur # NoMsg => mem[cur.addr].id = cur.id
    /\ \A i \in DOMAIN pipe : mem[pipe[i].addr].id = pipe[i].id

\* Over all messages of a stream Flash gets byte k at offset k, as long as
\* NPP_Write takes all it is offered: the loop survives nothing less, for it
\* offers the message from its start again (np.c:373-377).
BytesAtTheirOffset ==
    \A s \in Streams \ short : \A k \in DOMAIN given[s] : given[s][k] = <<k, k>>

\* Nobody waits for what will not come: the call's request, reply or answer
\* is somewhere, and a stream opened without a target that was not closed yet
\* has its request, its URLDude or its completion under way.
NothingForgotten ==
    LET pipe == messages \o toFood \o todo
        Comes(type, s) == \E i \in DOMAIN pipe : pipe[i].type = type /\ pipe[i].id = s
    IN  stage # "exited" =>
        /\ call # Nobody =>
              request.addr = call \/ answered \/ Comes("reply", mem[call].id)
        /\ \A s \in loads : phase[s] \in {"asked", "open"} =>
              request.id = s \/ dude[s].state \in {"started", "open"} \/ Comes("done", s)

Contract == INSTANCE StreamContract
    WITH arrived <- gave, written <- [s \in Streams |-> Len(given[s])],
         complete <- [s \in Streams |-> s \in whole], running <- stage # "exited"

\* For each stream Flash gets newstream, its bytes and no others,
\* destroystream when all of them were written, then at most one urlnotify;
\* once NPP_Write has taken less than it was offered, nothing is promised of
\* the bytes: UrlStream implements StreamContract.
ContractSpec == Contract!Spec

\* Every stream that was opened without a target is closed in the end, unless
\* the player ended or NPP_Write took less than it was offered: the loop may
\* then go on for ever, and the handler of every other stream waits.
EveryLoadEnds ==
    \A s \in Streams :
        s \in loads ~> phase[s] \in {"closed", "notified"} \/ stage = "exited" \/ short # {}
=============================================================================
