----------------------------- MODULE PluginHost -----------------------------
(***************************************************************************)
(* The host's half of a movie: PluginFlashView (webPlugInStart, Stop, the  *)
(* first click, size changes and touches), FServer (init, teardown, the    *)
(* error function, set_sekrit, abort_msg), and per connection the reader   *)
(* thread and the run loop sources it leaves to the main thread (RpcServe  *)
(* has the details).                                                       *)
(*                                                                         *)
(* Everything but the reader refers to a connection by descriptor number,  *)
(* and looks the FServer up in the dictionary `servers' when it runs.      *)
(***************************************************************************)
EXTENDS MovieState

CONSTANT MaxSends       \* bound: sizes and touches sent

ASSUME MaxSendsAssumption == MaxSends \in Nat

VARIABLES
    on, started, rpcfd,  \* PluginFlashView's
    server,     \* self.server: the connection of that FServer, 0 if none
    starting,   \* webPlugInStart has stopped the old movie
    made,       \* FServers made
    servers,    \* the dictionary: FServer per descriptor number
    rpcFd,      \* per FServer: rpc_fd, 0 after teardown
    sekrit,     \* per FServer: the connection its secret came from, or 0
    reader,     \* per connection: its reader thread
    readerFd,   \* per connection: the number the thread was started with
    queue,      \* per connection: requests for the main thread
    errorDue,   \* connections whose error source is on the run loop
    out,        \* pending_sends: number to send to, connection meant
    sends,      \* sizes and touches sent
    wrong,      \* history: what was done to an FServer or a player it was
                \* not meant for, before a number was given out twice
    crashed     \* a handler used the FServer nil; the process is gone

viewVars == <<on, started, rpcfd, server, starting>>
serverVars == <<made, servers, rpcFd, sekrit>>
readerVars == <<reader, readerFd, queue, errorDue>>
sendVars == <<out, sends>>
hostHistory == <<wrong, crashed>>
hostVars == <<viewVars, serverVars, readerVars, sendVars, hostHistory>>

HostTypeOK ==
    /\ on \in BOOLEAN /\ started \in BOOLEAN
    /\ starting \in BOOLEAN
    /\ rpcfd \in Fds \cup {0}
    /\ server \in Conns \cup {0} /\ made \in 0..MaxConns
    /\ servers \in [Fds -> Conns \cup {0}]
    /\ rpcFd \in [Conns -> Fds \cup {0}]
    /\ sekrit \in [Conns -> Conns \cup {0}]
    /\ reader \in [Conns -> {"none", "recv", "ended"}]
    /\ readerFd \in [Conns -> Fds \cup {0}]
    /\ queue \in [Conns -> Seq([kind : {"sekrit", "abort"}, from : Conns])]
    /\ errorDue \subseteq Conns
    /\ out \in Seq([fd : Fds, meant : Conns])
    /\ sends \in 0..MaxSends
    /\ crashed \in BOOLEAN
    /\ wrong \subseteq {"error", "sekrit", "abort", "message"}

HostInit ==
    /\ on \in BOOLEAN       \* on from the start: too small for a button
    /\ started = FALSE /\ rpcfd = 0 /\ server = 0 /\ starting = FALSE
    /\ made = 0 /\ servers = [fd \in Fds |-> 0]
    /\ rpcFd = [c \in Conns |-> 0] /\ sekrit = [c \in Conns |-> 0]
    /\ reader = [c \in Conns |-> "none"] /\ readerFd = [c \in Conns |-> 0]
    /\ queue = [c \in Conns |-> <<>>] /\ errorDue = {}
    /\ out = <<>> /\ sends = 0
    /\ wrong = {} /\ crashed = FALSE

FdReused == \E c, d \in Conns : c # d /\ readerFd[c] # 0 /\ readerFd[c] = readerFd[d]

Mark(kind, ok) == wrong' = IF ok \/ FdReused THEN wrong ELSE wrong \cup {kind}

\* What the number that c's reader was started with stands for now: in the
\* dictionary (get_server), and in the kernel.
ServerOf(c) == IF readerFd[c] = 0 THEN 0 ELSE servers[readerFd[c]]
FileOf(c) == IF readerFd[c] = 0 THEN 0 ELSE file[readerFd[c]]

\* The main thread is not inside webPlugInStart.
MainFree == ~starting
-----------------------------------------------------------------------------
(* FServer.                                                                *)

\* Mutant: a secret is posted although none has come.
TeardownUnchecked(s) ==
    /\ posted' = posted \cup {sekrit[s]}
    /\ sekrit' = [sekrit EXCEPT ![s] = 0]
    /\ file' = [fd \in Fds |-> IF fd = rpcFd[s] THEN 0 ELSE file[fd]]
    /\ servers' = [fd \in Fds |-> IF fd = rpcFd[s] THEN 0 ELSE servers[fd]]
    /\ rpcFd' = [rpcFd EXCEPT ![s] = 0]
    /\ wire' = StillOpen(file')

\* teardown of FServer s, a second time without effect: post the secret,
\* close the descriptor with what has come and was not read, forget the server.
Teardown(s) ==
    /\ posted' = posted \cup ({sekrit[s]} \ {0})
    /\ sekrit' = [sekrit EXCEPT ![s] = 0]
    /\ file' = [fd \in Fds |-> IF fd = rpcFd[s] THEN 0 ELSE file[fd]]
    /\ servers' = [fd \in Fds |-> IF fd = rpcFd[s] THEN 0 ELSE servers[fd]]
    /\ rpcFd' = [rpcFd EXCEPT ![s] = 0]
    /\ wire' = StillOpen(file')

\* Mutant: the error is taken to be about the view's current server.
ErrorOfCurrent(c) ==
    LET s == server IN
    /\ MainFree
    /\ c \in errorDue
    /\ errorDue' = errorDue \ {c}
    /\ IF s = 0
       THEN UNCHANGED <<wrong, posted, sekrit, file, servers, rpcFd, wire>>
       ELSE Mark("error", s = c) /\ Teardown(s)
    /\ UNCHANGED <<on, started, rpcfd, server, starting, made, reader, readerFd, queue,
                   sendVars, crashed, far>>

\* error(rpc_fd, err), called on the main thread for the reader of c.
Error(c) ==
    LET s == ServerOf(c) IN
    /\ MainFree
    /\ c \in errorDue
    /\ errorDue' = errorDue \ {c}
    /\ IF s = 0
       THEN UNCHANGED <<wrong, posted, sekrit, file, servers, rpcFd, wire>>
       ELSE Mark("error", s = c) /\ Teardown(s)
    /\ UNCHANGED <<on, started, rpcfd, server, starting, made, reader, readerFd, queue,
                   sendVars, crashed, far>>

\* A handler asks for its server and gets nil: it reads a field through it.
\* With the process go its threads and its descriptors.
Crash ==
    /\ crashed' = TRUE
    /\ file' = [fd \in Fds |-> 0]
    /\ wire' = StillOpen(file')
    /\ reader' = [c \in Conns |-> "ended"]
    /\ queue' = [c \in Conns |-> <<>>]
    /\ errorDue' = {}
    /\ out' = <<>>
    /\ UNCHANGED <<viewVars, serverVars, readerFd, sends, wrong, posted, far>>

\* The run loop handles the oldest request of c's reader.
Handle(c, kind) ==
    /\ MainFree
    /\ queue[c] # <<>>
    /\ Head(queue[c]).kind = kind
    /\ queue' = [queue EXCEPT ![c] = Tail(@)]

\* set_sekrit: the first secret is kept.
SetSekrit(c) ==
    LET s == ServerOf(c) IN
    /\ s # 0
    /\ Handle(c, "sekrit")
    /\ sekrit' = [sekrit EXCEPT ![s] = IF @ = 0 THEN Head(queue[c]).from ELSE @]
    /\ Mark("sekrit", s = Head(queue[c]).from)
    /\ UNCHANGED <<viewVars, made, servers, rpcFd, reader, readerFd, errorDue,
                   sendVars, crashed, sharedVars>>

\* abort_msg: to nil, dieWithError does nothing.
AbortMsg(c) ==
    LET s == ServerOf(c) IN
    /\ Handle(c, "abort")
    /\ IF s = 0
       THEN UNCHANGED <<wrong, posted, sekrit, file, servers, rpcFd, wire>>
       ELSE Mark("abort", s = Head(queue[c]).from) /\ Teardown(s)
    /\ UNCHANGED <<on, started, rpcfd, server, starting, made, reader, readerFd,
                   errorDue, sendVars, crashed, far>>

HandlerCrashes(c) ==
    /\ MainFree
    /\ queue[c] # <<>> /\ Head(queue[c]).kind = "sekrit"
    /\ ServerOf(c) = 0
    /\ Crash
-----------------------------------------------------------------------------
(* The view.                                                               *)

\* webPlugInStop when the plug-in is on: the FServer stays in self.server.
StopMovie ==
    /\ IF server = 0
       THEN UNCHANGED <<posted, sekrit, file, servers, rpcFd, wire>>
       ELSE Teardown(server)
    /\ rpcfd' = 0
    /\ UNCHANGED started

WebPlugInStop ==
    /\ MainFree
    /\ \/ on /\ StopMovie
       \/ /\ ~on /\ started' = FALSE
          /\ UNCHANGED <<posted, sekrit, file, servers, rpcFd, wire, rpcfd>>
    /\ UNCHANGED <<on, server, starting, made, readerVars, sendVars, hostHistory, far>>

\* Mutant: webPlugInStart does not stop first.
StartsOnly ==
    /\ starting' = TRUE
    /\ UNCHANGED <<posted, sekrit, file, servers, rpcFd, wire, rpcfd, started>>

\* webPlugInStart, when the plug-in is on: stop, then the rest below.
Starts ==
    /\ starting' = TRUE
    /\ StopMovie

WebPlugInStart ==
    /\ MainFree
    /\ made < MaxConns
    /\ IF on
       THEN Starts
       ELSE /\ started' = TRUE
            /\ UNCHANGED <<posted, sekrit, file, servers, rpcFd, wire, rpcfd, starting>>
    /\ UNCHANGED <<on, server, made, readerVars, sendVars, hostHistory, far>>

\* initialClicked.
InitialClicked ==
    /\ MainFree
    /\ ~on
    /\ started => made < MaxConns
    /\ on' = TRUE
    /\ starting' = started
    /\ UNCHANGED <<started, rpcfd, server, serverVars, readerVars, sendVars,
                   hostHistory, sharedVars>>

\* FServer initWithDelegate: an FServer and a socket with the number fd.
NewSocket(fd) ==
    /\ starting /\ starting' = FALSE
    /\ file[fd] = 0
    /\ made' = made + 1 /\ server' = made + 1
    /\ readerFd' = [readerFd EXCEPT ![made + 1] = fd]

\* connect: the dictionary, the reader, the rest of webPlugInStart with
\* setSizeIfNecessary.
Connect(fd) ==
    /\ NewSocket(fd)
    /\ file' = [file EXCEPT ![fd] = made + 1]
    /\ servers' = [servers EXCEPT ![fd] = made + 1]
    /\ rpcFd' = [rpcFd EXCEPT ![made + 1] = fd]
    /\ far' = [far EXCEPT ![made + 1] = "backlog"]
    /\ reader' = [reader EXCEPT ![made + 1] = "recv"]
    /\ rpcfd' = fd
    /\ \/ UNCHANGED sendVars
       \/ /\ sends < MaxSends
          /\ sends' = sends + 1
          /\ out' = Append(out, [fd |-> fd, meant |-> made + 1])
    /\ UNCHANGED <<on, started, sekrit, queue, errorDue, hostHistory, wire, posted>>

\* connect fails: dieWithError, which closes the socket and clears rpc_fd.
ConnectFails(fd) ==
    /\ NewSocket(fd)
    /\ rpcfd' = 0
    /\ UNCHANGED <<on, started, servers, rpcFd, sekrit, reader, queue, errorDue, sendVars,
                   hostHistory, sharedVars>>

NewServer ==
    \E fd \in Fresh(Fds, {readerFd[d] : d \in Conns}) : Connect(fd) \/ ConnectFails(fd)

\* setFrame with a new size, or a touch.
SendToPlayer ==
    /\ MainFree
    /\ rpcfd # 0
    /\ sends < MaxSends
    /\ sends' = sends + 1
    /\ out' = Append(out, [fd |-> rpcfd, meant |-> server])
    /\ UNCHANGED <<viewVars, serverVars, readerVars, hostHistory, sharedVars>>
-----------------------------------------------------------------------------
(* The other threads.                                                      *)

\* xsend_thread: the number is looked up when the message is sent.
Xsend ==
    /\ out # <<>>
    /\ out' = Tail(out)
    /\ Mark("message", file[Head(out).fd] \in {0, Head(out).meant})
    /\ UNCHANGED <<viewVars, serverVars, readerVars, sends, crashed, sharedVars>>

\* Reader c receives from whatever its number stands for now.
ReaderRecv(c) ==
    LET k == FileOf(c) IN
    /\ reader[c] = "recv"
    /\ k # 0 /\ wire[k] # <<>>
    /\ wire' = [wire EXCEPT ![k] = Tail(@)]
    /\ queue' = [queue EXCEPT ![c] = Append(@, [kind |-> Head(wire[k]), from |-> k])]
    /\ UNCHANGED <<viewVars, serverVars, reader, readerFd, errorDue, sendVars, hostHistory,
                   file, far, posted>>

\* The descriptor was closed under it, or the other end is gone and read to
\* the end: its source is invalidated, its requests are dropped, and the
\* error function is to be called.
ReaderEnds(c) ==
    LET k == FileOf(c) IN
    /\ reader[c] = "recv"
    /\ k # c \/ (far[c] = "gone" /\ wire[c] = <<>>)
    /\ reader' = [reader EXCEPT ![c] = "ended"]
    /\ queue' = [queue EXCEPT ![c] = <<>>]
    /\ errorDue' = errorDue \cup {c}
    /\ UNCHANGED <<viewVars, serverVars, readerFd, sendVars, hostHistory, sharedVars>>

HostMain ==
    \/ NewServer
    \/ \E c \in Conns : Error(c) \/ SetSekrit(c) \/ AbortMsg(c) \/ HandlerCrashes(c)

HostThreads == Xsend \/ \E c \in Conns : ReaderRecv(c) \/ ReaderEnds(c)

HostNext ==
    /\ ~crashed
    /\ \/ HostMain \/ HostThreads
       \/ WebPlugInStart \/ WebPlugInStop \/ InitialClicked \/ SendToPlayer
=============================================================================
