----------------------------- MODULE MovieProofs -----------------------------
(***************************************************************************)
(* Theorems about Movie, for any number of movies and any descriptor and   *)
(* process numbers: types, OneMovie, OwnUntilReuse, KillsOnlyTheStopped.   *)
(*                                                                         *)
(* The inductive invariant has four parts.  SlotInv is about the one open  *)
(* connection.  NumberInv says that whatever the host keeps under a number *)
(* was once given that number, so that as long as no number has been given *)
(* out twice it is the right one.  SecretInv follows a secret from the     *)
(* connection it came over to the post; WatchInv a pid from fork to kill.  *)
(***************************************************************************)
EXTENDS Movie, SequenceTheorems, TLAPS

Requests == [kind : {"sekrit", "abort"}, from : Conns]
Messages == [fd : Fds, meant : Conns]

\* HostOpen, of any table of descriptors.
Open(table, c) == \E fd \in Fds : table[fd] = c

\* Nothing is open while webPlugInStart makes a new FServer.
SlotInv ==
    /\ OneMovie
    /\ \A fd \in Fds : file[fd] # 0 => on
    /\ starting => on /\ made < MaxConns /\ \A fd \in Fds : file[fd] = 0

\* readerFd[c] is the number that c was given, 0 if c was never made.
NumberInv ==
    /\ \A fd \in Fds : servers[fd] # 0 => readerFd[servers[fd]] = fd
    /\ \A fd \in Fds : file[fd] # 0 => readerFd[file[fd]] = fd
    /\ \A c \in Conns : \A i \in 1..Len(queue[c]) :
           readerFd[c] # 0 /\ readerFd[queue[c][i].from] = readerFd[c]
    /\ \A i \in 1..Len(out) : readerFd[out[i].meant] = out[i].fd
    /\ rpcfd # 0 => server # 0 /\ readerFd[server] = rpcfd
    /\ \A c \in Conns : c > made => readerFd[c] = 0
    /\ wrong = {}

\* A secret is posted by the FServer of the connection it came over, if that
\* connection is still open.
SecretInv ==
    /\ \A c \in posted : readerFd[c] # 0 /\ ~Open(file, c)
    /\ \A s \in Conns : sekrit[s] # 0 =>
           /\ readerFd[sekrit[s]] # 0
           /\ Open(file, sekrit[s]) => sekrit[s] = s
    /\ \A c \in Conns : \A i \in 1..Len(queue[c]) :
           Open(file, queue[c][i].from) => file[readerFd[c]] = queue[c][i].from

\* The pid in the kqueue under a connection is that of its player, or of a
\* player whose own notification is lost.
Rightful(c) == \E d \in Conns : pid[d] = watch[c] /\ (d = c \/ watch[d] = Lost)

WatchInv ==
    /\ \A c \in Conns : far[c] = "backlog" => readerFd[c] # 0 /\ watch[c] = 0
    /\ \A c \in Conns : far[c] = "leaked" => readerFd[c] # 0 /\ watch[c] # Lost
    /\ \A c \in Conns : watch[c] # 0 => readerFd[c] # 0
    /\ \A c \in Conns : watch[c] \in Pids => Rightful(c)
    /\ wrapper \in {"secret", "forked"} => cur # 0 /\ readerFd[cur] # 0 /\ watch[cur] = 0
    /\ killed = {}

MovieInv == TypeOK /\ SlotInv /\ NumberInv /\ SecretInv /\ WatchInv

-----------------------------------------------------------------------------
(* Types.                                                                  *)

\* The numbers the kernel gives out are numbers.
LEMMA FreshNumbers ==
    ASSUME NEW numbers, NEW used
    PROVE  Fresh(numbers, used) \subseteq numbers
  BY DEF Fresh

\* The initial state is well typed.
LEMMA InitTypeOK == Init => TypeOK
<1> SUFFICES ASSUME Init PROVE TypeOK
  OBVIOUS
<1>1. SharedTypeOK
  <2>1. <<>> \in Seq({"sekrit", "abort"})
    BY EmptySeq
  <2> QED
    BY <2>1 DEF Init, SharedInit, SharedTypeOK
<1>2. HostTypeOK
  <2>1. <<>> \in Seq(Requests) /\ <<>> \in Seq(Messages)
    BY EmptySeq
  <2>2. 0 \in 0..MaxConns /\ 0 \in 0..MaxSends
    BY ConnsAssumption, MaxSendsAssumption
  <2> QED
    BY <2>1, <2>2 DEF Init, HostInit, HostTypeOK, Requests, Messages
<1>3. WrapperTypeOK
  BY DEF Init, WrapperInit, WrapperTypeOK
<1> QED
  BY <1>1, <1>2, <1>3 DEF TypeOK

\* What is discarded leaves queues of messages.
LEMMA StillOpenType ==
    ASSUME TypeOK, NEW f
    PROVE  StillOpen(f) \in [Conns -> Seq({"sekrit", "abort"})]
<1>1. <<>> \in Seq({"sekrit", "abort"})
  BY EmptySeq
<1> QED
  BY <1>1 DEF TypeOK, SharedTypeOK, StillOpen

\* teardown keeps the types.
LEMMA TeardownType ==
    ASSUME TypeOK, NEW s \in Conns, Teardown(s)
    PROVE  /\ posted' \subseteq Conns
           /\ sekrit' \in [Conns -> Conns \cup {0}]
           /\ file' \in [Fds -> Conns \cup {0}]
           /\ servers' \in [Fds -> Conns \cup {0}]
           /\ rpcFd' \in [Conns -> Fds \cup {0}]
           /\ wire' \in [Conns -> Seq({"sekrit", "abort"})]
<1>1. wire' \in [Conns -> Seq({"sekrit", "abort"})]
  BY StillOpenType DEF Teardown
<1> QED
  BY <1>1 DEF TypeOK, SharedTypeOK, HostTypeOK, Teardown

\* What get_server finds is an FServer or nil.
LEMMA LookupType ==
    ASSUME TypeOK, NEW c \in Conns
    PROVE  ServerOf(c) \in Conns \cup {0} /\ FileOf(c) \in Conns \cup {0}
  BY DEF TypeOK, SharedTypeOK, HostTypeOK, ServerOf, FileOf

\* The oldest request of a reader is a request, and the rest move up.
LEMMA HandleTakes ==
    ASSUME TypeOK, NEW c \in Conns, NEW kind, Handle(c, kind)
    PROVE  /\ queue[c] \in Seq(Requests) /\ queue[c] # <<>> /\ Len(queue[c]) \in Nat
           /\ 1 \in 1..Len(queue[c]) /\ Head(queue[c]) = queue[c][1]
           /\ Head(queue[c]).from \in Conns
           /\ queue' = [queue EXCEPT ![c] = Tail(queue[c])]
           /\ queue' \in [Conns -> Seq(Requests)]
           /\ \A i \in 1..Len(Tail(queue[c])) :
                 i + 1 \in 1..Len(queue[c]) /\ Tail(queue[c])[i] = queue[c][i + 1]
<1>1. queue \in [Conns -> Seq(Requests)] /\ queue[c] \in Seq(Requests) /\ queue[c] # <<>>
  BY DEF TypeOK, HostTypeOK, Handle, Requests
<1>2. /\ Head(queue[c]) \in Requests
      /\ Tail(queue[c]) \in Seq(Requests)
      /\ Len(Tail(queue[c])) = Len(queue[c]) - 1
      /\ \A i \in 1..Len(Tail(queue[c])) : Tail(queue[c])[i] = queue[c][i + 1]
  BY <1>1, HeadTailProperties
<1>3. Len(queue[c]) \in Nat /\ Len(queue[c]) # 0
  BY <1>1, EmptySeq
<1>4. queue' = [queue EXCEPT ![c] = Tail(queue[c])] /\ Head(queue[c]).from \in Conns
  BY <1>2 DEF Handle, Requests
<1>5. Head(queue[c]) = queue[c][1]
  BY <1>1
<1> QED
  BY <1>1, <1>2, <1>3, <1>4, <1>5

\* A reader appends what it received from the connection its number stands for.
LEMMA ReaderAppends ==
    ASSUME TypeOK, NEW c \in Conns, ReaderRecv(c)
    PROVE  /\ FileOf(c) \in Conns /\ readerFd[c] \in Fds /\ FileOf(c) = file[readerFd[c]]
           /\ wire' \in [Conns -> Seq({"sekrit", "abort"})]
           /\ queue' \in [Conns -> Seq(Requests)]
           /\ \A d \in Conns : \A i \in 1..Len(queue'[d]) :
                 \/ i \in 1..Len(queue[d]) /\ queue'[d][i] = queue[d][i]
                 \/ d = c /\ queue'[d][i].from = FileOf(c)
<1> DEFINE k == FileOf(c)
           e == [kind |-> Head(wire[k]), from |-> k]
<1>1. k \in Conns /\ wire[k] \in Seq({"sekrit", "abort"}) /\ wire[k] # <<>>
  BY LookupType DEF ReaderRecv, TypeOK, SharedTypeOK
<1>2. Head(wire[k]) \in {"sekrit", "abort"} /\ Tail(wire[k]) \in Seq({"sekrit", "abort"})
  BY <1>1, HeadTailProperties
<1>3. e \in Requests /\ e.from = k
  BY <1>1, <1>2 DEF Requests
<1>4. wire' \in [Conns -> Seq({"sekrit", "abort"})]
  BY <1>1, <1>2 DEF ReaderRecv, TypeOK, SharedTypeOK
<1>5. queue \in [Conns -> Seq(Requests)] /\ queue[c] \in Seq(Requests)
  BY DEF TypeOK, HostTypeOK, Requests
<1>6. /\ Append(queue[c], e) \in Seq(Requests)
      /\ Len(Append(queue[c], e)) = Len(queue[c]) + 1
      /\ \A i \in 1..Len(queue[c]) : Append(queue[c], e)[i] = queue[c][i]
      /\ Append(queue[c], e)[Len(queue[c]) + 1] = e
      /\ Len(queue[c]) \in Nat
  BY <1>3, <1>5, AppendProperties, LenProperties
<1>7. queue' = [queue EXCEPT ![c] = Append(queue[c], e)]
  BY DEF ReaderRecv
<1>8. readerFd[c] \in Fds /\ k = file[readerFd[c]]
  BY <1>1, ConnsAssumption DEF FileOf, TypeOK, HostTypeOK, Conns
<1>9. ASSUME NEW d \in Conns, NEW i \in 1..Len(queue'[d])
      PROVE  \/ i \in 1..Len(queue[d]) /\ queue'[d][i] = queue[d][i]
             \/ d = c /\ queue'[d][i].from = k
  <2>1. CASE d # c
    BY <1>5, <1>7, <1>9, <2>1
  <2>2. CASE d = c
    <3>1. queue'[d] = Append(queue[c], e)
      BY <1>5, <1>7, <2>2
    <3>2. i \in 1..Len(queue[c]) \/ i = Len(queue[c]) + 1
      BY <1>6, <1>9, <3>1
    <3> QED
      BY <1>3, <1>6, <2>2, <3>1, <3>2
  <2> QED
    BY <2>1, <2>2
<1> HIDE DEF k, e
<1> QED
  BY <1>1, <1>4, <1>5, <1>6, <1>7, <1>8, <1>9 DEF k

\* Appending to out, and sending the first of it.
LEMMA OutAppend ==
    ASSUME TypeOK, NEW m \in Messages, out' = Append(out, m)
    PROVE  /\ out' \in Seq(Messages)
           /\ \A i \in 1..Len(out') :
                 \/ i \in 1..Len(out) /\ out'[i] = out[i]
                 \/ out'[i] = m
<1>1. out \in Seq(Messages)
  BY DEF TypeOK, HostTypeOK, Messages
<1> QED
  BY <1>1, AppendProperties, LenProperties

LEMMA OutTail ==
    ASSUME TypeOK, out # <<>>, out' = Tail(out)
    PROVE  /\ out' \in Seq(Messages) /\ Head(out) \in Messages
           /\ 1 \in 1..Len(out) /\ Head(out) = out[1]
           /\ \A i \in 1..Len(out') : i + 1 \in 1..Len(out) /\ out'[i] = out[i + 1]
<1>1. out \in Seq(Messages)
  BY DEF TypeOK, HostTypeOK, Messages
<1>2. Len(out) \in Nat /\ Len(out) # 0
  BY <1>1, EmptySeq
<1>3. Head(out) = out[1]
  BY <1>1
<1> QED
  BY <1>1, <1>2, <1>3, HeadTailProperties

\* While webPlugInStart makes a new FServer, its connection is a new one.
LEMMA NextConn ==
    ASSUME MovieInv, starting
    PROVE  /\ made + 1 \in Conns /\ made + 1 # 0 /\ made + 1 > made
           /\ readerFd[made + 1] = 0
           /\ \A fd \in Fds : file[fd] = 0
<1>1. made \in 0..MaxConns /\ made < MaxConns /\ MaxConns \in Nat
  BY ConnsAssumption DEF MovieInv, TypeOK, HostTypeOK, SlotInv
<1>2. made + 1 \in Conns /\ made + 1 # 0 /\ made + 1 > made
  BY <1>1 DEF Conns
<1> QED
  BY <1>2 DEF MovieInv, SlotInv, NumberInv

\* A step of the host keeps the types.
LEMMA HostTypeStep == MovieInv /\ HostNext => SharedTypeOK' /\ HostTypeOK'
<1> SUFFICES ASSUME MovieInv, TypeOK, HostNext
             PROVE  SharedTypeOK' /\ HostTypeOK'
  BY DEF MovieInv
<1> USE DEF TypeOK, SharedTypeOK, HostTypeOK, viewVars, serverVars, readerVars, sendVars,
            hostHistory, sharedVars, Requests, Messages
<1>1. ASSUME NEW c \in Conns, Error(c)
      PROVE  SharedTypeOK' /\ HostTypeOK'
  <2>1. CASE ServerOf(c) = 0
    BY <1>1, <2>1 DEF Error
  <2>2. CASE ServerOf(c) # 0
    <3>1. ServerOf(c) \in Conns /\ Teardown(ServerOf(c)) /\ Mark("error", ServerOf(c) = c)
      BY <1>1, <2>2, LookupType DEF Error
    <3> QED
      BY <1>1, <3>1, TeardownType DEF Error, Mark
  <2> QED
    BY <2>1, <2>2
<1>2. ASSUME NEW c \in Conns, SetSekrit(c)
      PROVE  SharedTypeOK' /\ HostTypeOK'
  <2>1. Handle(c, "sekrit")
    BY <1>2 DEF SetSekrit
  <2>2. sekrit' \in [Conns -> Conns \cup {0}]
    BY <1>2, <2>1, HandleTakes DEF SetSekrit
  <2> QED
    BY <1>2, <2>1, <2>2, HandleTakes DEF SetSekrit, Mark
<1>3. ASSUME NEW c \in Conns, AbortMsg(c)
      PROVE  SharedTypeOK' /\ HostTypeOK'
  <2>0. Handle(c, "abort")
    BY <1>3 DEF AbortMsg
  <2>1. CASE ServerOf(c) = 0
    <3>1. UNCHANGED <<wrong, posted, sekrit, file, servers, rpcFd, on, started, rpcfd, server,
                      starting, made, reader, readerFd, errorDue, sendVars, crashed, far, wire>>
      BY <1>3, <2>1 DEF AbortMsg
    <3>2. queue' \in [Conns -> Seq(Requests)]
      BY <2>0, HandleTakes
    <3> QED
      BY <3>1, <3>2
  <2>2. CASE ServerOf(c) # 0
    <3>1. /\ ServerOf(c) \in Conns /\ Teardown(ServerOf(c))
          /\ Mark("abort", ServerOf(c) = Head(queue[c]).from)
      BY <1>3, <2>2, LookupType DEF AbortMsg
    <3> QED
      BY <1>3, <2>0, <3>1, TeardownType, HandleTakes DEF AbortMsg, Mark
  <2> QED
    BY <2>1, <2>2
<1>4. ASSUME NEW c \in Conns, HandlerCrashes(c)
      PROVE  SharedTypeOK' /\ HostTypeOK'
  <2>1. <<>> \in Seq(Requests) /\ <<>> \in Seq(Messages)
    BY EmptySeq
  <2> QED
    BY <1>4, <2>1, StillOpenType DEF HandlerCrashes, Crash
<1>5. ASSUME StopMovie
      PROVE  /\ posted' \subseteq Conns
             /\ sekrit' \in [Conns -> Conns \cup {0}]
             /\ file' \in [Fds -> Conns \cup {0}]
             /\ servers' \in [Fds -> Conns \cup {0}]
             /\ rpcFd' \in [Conns -> Fds \cup {0}]
             /\ started' \in BOOLEAN /\ rpcfd' \in Fds \cup {0}
             /\ wire' \in [Conns -> Seq({"sekrit", "abort"})]
  BY <1>5, TeardownType DEF StopMovie
<1>6. CASE WebPlugInStop
  BY <1>5, <1>6 DEF WebPlugInStop
<1>7. CASE WebPlugInStart
  BY <1>5, <1>7 DEF WebPlugInStart, Starts
<1>8. CASE InitialClicked
  BY <1>8 DEF InitialClicked
<1>9. ASSUME NEW fd \in Fds, NewSocket(fd)
      PROVE  /\ starting' \in BOOLEAN /\ made' \in 0..MaxConns /\ server' \in Conns \cup {0}
             /\ readerFd' \in [Conns -> Fds \cup {0}]
             /\ made + 1 \in Conns
  <2>1. made + 1 \in Conns
    BY <1>9, NextConn DEF NewSocket
  <2>2. made' \in 0..MaxConns
    BY <1>9, <2>1, ConnsAssumption DEF NewSocket, Conns
  <2> QED
    BY <1>9, <2>1, <2>2 DEF NewSocket
<1>10. CASE NewServer
  <2>1. PICK fd \in Fds : Connect(fd) \/ ConnectFails(fd)
    BY <1>10, FreshNumbers DEF NewServer
  <2>2. NewSocket(fd)
    BY <2>1 DEF Connect, ConnectFails
  <2>3. made + 1 \in Conns
    BY <1>9, <2>2
  <2>4. CASE Connect(fd)
    <3>0. [fd |-> fd, meant |-> made + 1] \in Messages
      BY <2>1, <2>3
    <3>1. out' \in Seq(Messages) /\ sends' \in 0..MaxSends
      <4>1. CASE UNCHANGED sendVars
        BY <4>1
      <4>2. CASE sends < MaxSends /\ sends' = sends + 1
                 /\ out' = Append(out, [fd |-> fd, meant |-> made + 1])
        BY <3>0, <4>2, MaxSendsAssumption, OutAppend
      <4> QED
        BY <2>4, <4>1, <4>2 DEF Connect
    <3> QED
      BY <1>9, <2>2, <2>3, <2>4, <3>1 DEF Connect
  <2>5. CASE ConnectFails(fd)
    BY <1>9, <2>2, <2>3, <2>5 DEF ConnectFails
  <2> QED
    BY <2>1, <2>4, <2>5
<1>11. CASE SendToPlayer
  <2>1. server \in Conns /\ rpcfd \in Fds
    BY <1>11 DEF SendToPlayer, MovieInv, NumberInv
  <2>2. out' \in Seq(Messages) /\ sends' \in 0..MaxSends
    BY <1>11, <2>1, MaxSendsAssumption, OutAppend DEF SendToPlayer
  <2> QED
    BY <1>11, <2>2 DEF SendToPlayer
<1>12. CASE Xsend
  <2>1. out' \in Seq(Messages)
    BY <1>12, OutTail DEF Xsend
  <2> QED
    BY <1>12, <2>1 DEF Xsend, Mark
<1>13. ASSUME NEW c \in Conns, ReaderRecv(c)
       PROVE  SharedTypeOK' /\ HostTypeOK'
  BY <1>13, ReaderAppends DEF ReaderRecv
<1>14. ASSUME NEW c \in Conns, ReaderEnds(c)
       PROVE  SharedTypeOK' /\ HostTypeOK'
  <2>1. <<>> \in Seq(Requests)
    BY EmptySeq
  <2> QED
    BY <1>14, <2>1 DEF ReaderEnds
<1> QED
  BY <1>1, <1>2, <1>3, <1>4, <1>6, <1>7, <1>8, <1>10, <1>11, <1>12, <1>13, <1>14
     DEF HostNext, HostMain, HostThreads

\* A step of the wrapper or of a player keeps the types.
LEMMA WrapperTypeStep == MovieInv /\ WrapperNext => SharedTypeOK' /\ WrapperTypeOK'
<1> SUFFICES ASSUME MovieInv, TypeOK, WrapperNext
             PROVE  SharedTypeOK' /\ WrapperTypeOK'
  BY DEF MovieInv
<1> USE DEF TypeOK, SharedTypeOK, WrapperTypeOK, sharedVars
<1>1. ASSUME NEW c \in Conns, NEW m \in {"sekrit", "abort"}, Send(c, m)
      PROVE  wire' \in [Conns -> Seq({"sekrit", "abort"})]
  <2>1. Append(wire[c], m) \in Seq({"sekrit", "abort"})
    BY AppendProperties
  <2> QED
    BY <1>1, <2>1 DEF Send
<1>2. CASE Launch
  BY <1>2 DEF Launch
<1>3. CASE Accept
  <2>1. PICK c \in Backlog : /\ cur' = c /\ far' = [far EXCEPT ![c] = "wrapper"]
                             /\ Send(c, "sekrit")
    BY <1>3 DEF Accept
  <2>2. c \in Conns
    BY DEF Backlog
  <2>3. wire' \in [Conns -> Seq({"sekrit", "abort"})]
    BY <1>1, <2>1, <2>2
  <2> QED
    BY <1>3, <2>1, <2>2, <2>3 DEF Accept
<1>4. CASE Fork
  <2>1. PICK p \in Pids : pid' = [pid EXCEPT ![cur] = p]
    BY <1>4, FreshNumbers DEF Fork
  <2> QED
    BY <1>4, <2>1 DEF Fork
<1>5. CASE ForkFails
  BY <1>5 DEF ForkFails
<1>6. ASSUME Exit PROVE SharedTypeOK' /\ WrapperTypeOK'
  BY <1>6 DEF Exit
<1>7. CASE Watch
  <2>1. cur \in Conns
    BY <1>7 DEF Watch, MovieInv, WatchInv
  <2>2. watch' \in [Conns -> Pids \cup {0, Lost}]
    BY <1>7, <2>1 DEF Watch
  <2> QED
    BY <1>7, <2>1, <2>2 DEF Watch, Alive
<1>8. CASE Kill
  <2>1. PICK c \in Ready :
          /\ watch' = [watch EXCEPT ![c] = 0]
          /\ LET hit == {d \in Conns : pid[d] = watch[c] /\ Alive(d)} IN
             /\ player' = [d \in Conns |-> IF d \in hit THEN "dead" ELSE player[d]]
             /\ far' = [d \in Conns |-> IF d \in hit THEN "gone" ELSE far[d]]
             /\ killed' = killed \cup {d \in hit : HostOpen(d) /\ ~PidReused /\ watch[d] # Lost}
    BY <1>8 DEF Kill
  <2> QED
    BY <1>8, <2>1 DEF Kill, Ready
<1>9. ASSUME NEW c \in Conns, PlayerEnds(c)
      PROVE  /\ player' \in [Conns -> {"none", "run", "hung", "dead"}]
             /\ far' \in [Conns -> {"none", "backlog", "wrapper", "leaked", "inherited", "player", "gone"}]
  BY <1>9 DEF PlayerEnds
<1>10. ASSUME NEW c \in Conns, PlayerLeaves(c) PROVE SharedTypeOK' /\ WrapperTypeOK'
  BY <1>9, <1>10 DEF PlayerLeaves
<1>11. ASSUME NEW c \in Conns, PlayerAborts(c) PROVE SharedTypeOK' /\ WrapperTypeOK'
  BY <1>1, <1>9, <1>11 DEF PlayerAborts
<1>12. ASSUME NEW c \in Conns, PlayerHangs(c) PROVE SharedTypeOK' /\ WrapperTypeOK'
  BY <1>12 DEF PlayerHangs
<1>13. ASSUME NEW c \in Conns, HeirsEnd(c) PROVE SharedTypeOK' /\ WrapperTypeOK'
  BY <1>13 DEF HeirsEnd, wrapperVars
<1> QED
  BY <1>2, <1>3, <1>4, <1>5, <1>6, <1>7, <1>8, <1>10, <1>11, <1>12, <1>13
     DEF WrapperNext, WrapperStep, ForkNoMemory, LoopEnds

-----------------------------------------------------------------------------
(* The one open connection.                                                *)

\* teardown closes the descriptor of its FServer; of the view's, the only
\* one that is open.
LEMMA TeardownSlot ==
    ASSUME MovieInv, NEW s \in Conns, Teardown(s)
    PROVE  /\ \A fd \in Fds : file'[fd] # 0 =>
                 /\ s # server /\ file'[fd] = file[fd] /\ servers'[fd] = servers[fd]
                 /\ rpcFd'[server] = rpcFd[server]
           /\ \A fd \in Fds : file'[fd] \in {0, file[fd]} /\ servers'[fd] \in {0, servers[fd]}
           /\ s = server => \A fd \in Fds : file'[fd] = 0
<1> USE DEF MovieInv, SlotInv, OneMovie, TypeOK, SharedTypeOK, HostTypeOK, Teardown
<1>1. ASSUME NEW fd \in Fds, file'[fd] # 0
      PROVE  /\ s # server /\ file'[fd] = file[fd] /\ servers'[fd] = servers[fd]
             /\ rpcFd'[server] = rpcFd[server]
  <2>1. fd # rpcFd[s] /\ file'[fd] = file[fd] /\ servers'[fd] = servers[fd]
    BY <1>1
  <2>2. rpcFd[server] = fd
    BY <1>1, <2>1
  <2> QED
    BY <2>1, <2>2
<1>2. \A fd \in Fds : file'[fd] \in {0, file[fd]} /\ servers'[fd] \in {0, servers[fd]}
  OBVIOUS
<1> QED
  BY <1>1, <1>2

\* An action that tears down at most one FServer, and leaves the view alone.
LEMMA SlotKept ==
    ASSUME MovieInv, MainFree, UNCHANGED <<on, server, starting, made>>,
           rpcfd' = rpcfd \/ (server = 0 \/ Teardown(server)),
           \/ UNCHANGED <<file, servers, rpcFd>>
           \/ \E s \in Conns : Teardown(s)
    PROVE  SlotInv'
<1> USE DEF MovieInv, SlotInv, OneMovie, MainFree
<1>1. CASE UNCHANGED <<file, servers, rpcFd>> /\ rpcfd' = rpcfd
  BY <1>1
<1>2. CASE (\E s \in Conns : Teardown(s)) /\ rpcfd' = rpcfd
  BY <1>2, TeardownSlot
<1>3. CASE rpcfd' # rpcfd
  <2>1. \A fd \in Fds : file'[fd] = 0
    <3>1. CASE server = 0
      <4>1. \A fd \in Fds : file[fd] = 0
        BY <3>1
      <4> QED
        BY <4>1, TeardownSlot
    <3>2. CASE server # 0
      <4>1. server \in Conns /\ Teardown(server)
        BY <1>3, <3>2 DEF TypeOK, HostTypeOK
      <4> QED
        BY <4>1, TeardownSlot
    <3> QED
      BY <3>1, <3>2
  <2> QED
    BY <2>1
<1> QED
  BY <1>1, <1>2, <1>3

\* webPlugInStop leaves nothing open.
LEMMA StopCloses ==
    ASSUME MovieInv, StopMovie
    PROVE  /\ \A fd \in Fds : file'[fd] = 0
           /\ \/ server = 0 /\ UNCHANGED <<posted, sekrit, file, servers, rpcFd>>
              \/ server \in Conns /\ Teardown(server)
<1>1. CASE server = 0
  <2>1. \A fd \in Fds : file[fd] = 0
    BY <1>1 DEF MovieInv, SlotInv, OneMovie
  <2> QED
    BY <1>1, <2>1 DEF StopMovie
<1>2. CASE server # 0
  <2>1. server \in Conns /\ Teardown(server)
    BY <1>2 DEF StopMovie, MovieInv, TypeOK, HostTypeOK
  <2> QED
    BY <2>1, TeardownSlot
<1> QED
  BY <1>1, <1>2

\* Every step keeps SlotInv.
LEMMA SlotStep == MovieInv /\ [Next]_vars => SlotInv'
<1> SUFFICES ASSUME MovieInv, [Next]_vars PROVE SlotInv'
  OBVIOUS
<1> USE DEF vars, hostVars, wrapperVars, sharedVars, viewVars, serverVars, readerVars,
            sendVars, hostHistory
<1>0. ASSUME UNCHANGED <<on, server, starting, made, rpcfd, file, servers, rpcFd>>
      PROVE  SlotInv'
  BY <1>0 DEF MovieInv, SlotInv, OneMovie
<1>1. ASSUME NEW c \in Conns, Error(c) PROVE SlotInv'
  <2>1. CASE ServerOf(c) = 0
    BY <1>0, <1>1, <2>1 DEF Error
  <2>2. CASE ServerOf(c) # 0
    <3>1. ServerOf(c) \in Conns /\ Teardown(ServerOf(c))
      BY <1>1, <2>2, LookupType DEF Error, MovieInv
    <3> QED
      BY <1>1, <3>1, SlotKept DEF Error
  <2> QED
    BY <2>1, <2>2
<1>2. ASSUME NEW c \in Conns, SetSekrit(c) PROVE SlotInv'
  BY <1>0, <1>2 DEF SetSekrit
<1>3. ASSUME NEW c \in Conns, AbortMsg(c) PROVE SlotInv'
  <2>1. CASE ServerOf(c) = 0
    BY <1>0, <1>3, <2>1 DEF AbortMsg
  <2>2. CASE ServerOf(c) # 0
    <3>1. ServerOf(c) \in Conns /\ Teardown(ServerOf(c)) /\ MainFree
      BY <1>3, <2>2, LookupType DEF AbortMsg, MovieInv, Handle
    <3> QED
      BY <1>3, <3>1, SlotKept DEF AbortMsg
  <2> QED
    BY <2>1, <2>2
<1>4. ASSUME NEW c \in Conns, HandlerCrashes(c) PROVE SlotInv'
  BY <1>4 DEF HandlerCrashes, Crash, MovieInv, SlotInv, OneMovie, MainFree
<1>5. CASE WebPlugInStop
  <2>1. CASE on /\ StopMovie
    BY <1>5, <2>1, StopCloses DEF WebPlugInStop, MovieInv, SlotInv, OneMovie, MainFree
  <2>2. CASE ~on
    BY <1>0, <1>5, <2>2 DEF WebPlugInStop
  <2> QED
    BY <1>5, <2>1, <2>2 DEF WebPlugInStop
<1>6. CASE WebPlugInStart
  <2>1. CASE on
    BY <1>6, <2>1, StopCloses DEF WebPlugInStart, Starts, MovieInv, SlotInv, OneMovie
  <2>2. CASE ~on
    BY <1>0, <1>6, <2>2 DEF WebPlugInStart
  <2> QED
    BY <2>1, <2>2
<1>7. CASE InitialClicked
  BY <1>7 DEF InitialClicked, MovieInv, SlotInv, OneMovie
<1>8. CASE NewServer
  <2>1. PICK fd \in Fds : Connect(fd) \/ ConnectFails(fd)
    BY <1>8, FreshNumbers DEF NewServer
  <2>2. starting /\ NewSocket(fd)
    BY <2>1 DEF Connect, ConnectFails, NewSocket
  <2>3. CASE Connect(fd)
    <3>1. /\ file' = [file EXCEPT ![fd] = made + 1] /\ servers' = [servers EXCEPT ![fd] = made + 1]
          /\ rpcFd' = [rpcFd EXCEPT ![made + 1] = fd] /\ rpcfd' = fd /\ on' = on
          /\ server' = made + 1 /\ ~starting'
      BY <2>2, <2>3 DEF Connect, NewSocket
    <3>2. ASSUME NEW g \in Fds, file'[g] # 0
          PROVE  /\ g = fd /\ file'[g] = server' /\ servers'[g] = server' /\ rpcFd'[server'] = g
                 /\ rpcfd' = g /\ on'
      BY <2>2, <3>1, <3>2, NextConn DEF MovieInv, SlotInv, TypeOK, SharedTypeOK, HostTypeOK
    <3> QED
      BY <3>1, <3>2 DEF SlotInv, OneMovie
  <2>4. CASE ConnectFails(fd)
    BY <2>2, <2>4, NextConn DEF ConnectFails, NewSocket, SlotInv, OneMovie
  <2> QED
    BY <2>1, <2>3, <2>4
<1>9. CASE SendToPlayer
  BY <1>0, <1>9 DEF SendToPlayer
<1>10. CASE Xsend
  BY <1>0, <1>10 DEF Xsend
<1>11. ASSUME NEW c \in Conns, ReaderRecv(c) PROVE SlotInv'
  BY <1>0, <1>11 DEF ReaderRecv
<1>12. ASSUME NEW c \in Conns, ReaderEnds(c) PROVE SlotInv'
  BY <1>0, <1>12 DEF ReaderEnds
<1>13. CASE WrapperNext /\ UNCHANGED hostVars
  <2>1. UNCHANGED file
    BY <1>13 DEF WrapperNext, WrapperStep, LoopEnds, ForkNoMemory, Launch, Accept, Fork,
                 ForkFails, Exit, Watch, Kill, HeirsEnd, PlayerLeaves, PlayerAborts, PlayerHangs
  <2> QED
    BY <1>0, <1>13, <2>1
<1>14. CASE UNCHANGED vars
  BY <1>0, <1>14
<1> QED
  BY <1>1, <1>2, <1>3, <1>4, <1>5, <1>6, <1>7, <1>8, <1>9, <1>10, <1>11, <1>12, <1>13, <1>14
     DEF Next, HostNext, HostMain, HostThreads

-----------------------------------------------------------------------------
(* Numbers.                                                                *)

\* What is found under the number of c is c, or a number was given out twice.
LEMMA SameNumber ==
    ASSUME NEW c \in Conns, NEW d \in Conns, readerFd[c] # 0, readerFd[c] = readerFd[d]
    PROVE  c = d \/ FdReused
  BY DEF FdReused

\* An action that takes no new number, drops what it likes from the host's
\* tables, and marks nothing wrong.
LEMMA NumberKept ==
    ASSUME MovieInv, UNCHANGED <<made, readerFd, server>>, rpcfd' \in {0, rpcfd}, wrong' = {},
           \A fd \in Fds : file'[fd] \in {0, file[fd]} /\ servers'[fd] \in {0, servers[fd]},
           \A c \in Conns : \A i \in 1..Len(queue'[c]) :
              readerFd[c] # 0 /\ readerFd[queue'[c][i].from] = readerFd[c],
           \A i \in 1..Len(out') : readerFd[out'[i].meant] = out'[i].fd
    PROVE  NumberInv'
  BY DEF MovieInv, NumberInv

\* Every step keeps NumberInv.
LEMMA NumberStep == MovieInv /\ [Next]_vars => NumberInv'
<1> SUFFICES ASSUME MovieInv, TypeOK, NumberInv, [Next]_vars PROVE NumberInv'
  BY DEF MovieInv
<1> USE DEF vars, hostVars, wrapperVars, sharedVars, viewVars, serverVars, readerVars,
            sendVars, hostHistory
<1>a. wrong = {}
  BY DEF NumberInv
<1>b. ASSUME UNCHANGED queue
      PROVE  \A c \in Conns : \A i \in 1..Len(queue'[c]) :
                readerFd[c] # 0 /\ readerFd[queue'[c][i].from] = readerFd[c]
  BY <1>b DEF NumberInv
<1>c. ASSUME UNCHANGED out
      PROVE  \A i \in 1..Len(out') : readerFd[out'[i].meant] = out'[i].fd
  BY <1>c DEF NumberInv
<1>d. ASSUME NEW c \in Conns, NEW kind, Handle(c, kind)
      PROVE  /\ \A d \in Conns : \A i \in 1..Len(queue'[d]) :
                   readerFd[d] # 0 /\ readerFd[queue'[d][i].from] = readerFd[d]
             /\ readerFd[c] # 0 /\ readerFd[Head(queue[c]).from] = readerFd[c]
  <2>1. queue \in [Conns -> Seq(Requests)]
    BY DEF TypeOK, HostTypeOK, Requests
  <2>2. ASSUME NEW d \in Conns, NEW i \in 1..Len(queue'[d])
        PROVE  readerFd[d] # 0 /\ readerFd[queue'[d][i].from] = readerFd[d]
    <3>1. CASE d # c
      BY <1>d, <2>1, <2>2, <3>1, HandleTakes DEF NumberInv
    <3>2. CASE d = c
      <4>1. queue'[d] = Tail(queue[c])
        BY <1>d, <2>1, <3>2, HandleTakes
      <4>2. i + 1 \in 1..Len(queue[c]) /\ queue'[d][i] = queue[c][i + 1]
        BY <1>d, <2>2, <4>1, HandleTakes
      <4> QED
        BY <3>2, <4>2 DEF NumberInv
    <3> QED
      BY <3>1, <3>2
  <2> QED
    BY <1>d, <2>2, HandleTakes DEF NumberInv
<1>e. ASSUME NEW c \in Conns, ServerOf(c) # 0
      PROVE  ServerOf(c) \in Conns /\ readerFd[c] # 0 /\ readerFd[ServerOf(c)] = readerFd[c]
  BY <1>e, LookupType DEF ServerOf, NumberInv, TypeOK, HostTypeOK
<1>f. ASSUME NEW s \in Conns, Teardown(s)
      PROVE  \A fd \in Fds : file'[fd] \in {0, file[fd]} /\ servers'[fd] \in {0, servers[fd]}
  BY <1>f, TeardownSlot
<1>0. ASSUME UNCHANGED <<made, readerFd, server, queue, out, wrong, file, servers>>,
             rpcfd' \in {0, rpcfd}
      PROVE  NumberInv'
  BY <1>0, <1>a, <1>b, <1>c, NumberKept
<1>1. ASSUME NEW c \in Conns, Error(c) PROVE NumberInv'
  <2>1. CASE ServerOf(c) = 0
    BY <1>0, <1>1, <2>1 DEF Error
  <2>2. CASE ServerOf(c) # 0
    <3>1. Teardown(ServerOf(c)) /\ Mark("error", ServerOf(c) = c)
      BY <1>1, <2>2 DEF Error
    <3>2. wrong' = {}
      BY <1>a, <1>e, <2>2, <3>1, SameNumber DEF Mark
    <3> QED
      BY <1>1, <1>b, <1>c, <1>e, <1>f, <2>2, <3>1, <3>2, NumberKept DEF Error
  <2> QED
    BY <2>1, <2>2
<1>2. ASSUME NEW c \in Conns, SetSekrit(c) PROVE NumberInv'
  <2>1. Handle(c, "sekrit") /\ ServerOf(c) # 0 /\ Mark("sekrit", ServerOf(c) = Head(queue[c]).from)
    BY <1>2 DEF SetSekrit
  <2>2. wrong' = {}
    <3> DEFINE k == Head(queue[c]).from
    <3>1. k \in Conns /\ readerFd[k] = readerFd[ServerOf(c)] /\ readerFd[k] # 0
      <4>1. k \in Conns
        BY <2>1, HandleTakes
      <4>2. readerFd[c] # 0 /\ readerFd[k] = readerFd[c]
        BY <1>d, <2>1
      <4> QED
        BY <1>e, <2>1, <4>1, <4>2
    <3>2. ServerOf(c) \in Conns
      BY <1>e, <2>1
    <3> HIDE DEF k
    <3>3. ServerOf(c) = k \/ FdReused
      BY <3>1, <3>2, SameNumber
    <3> QED
      BY <1>a, <2>1, <3>3 DEF Mark, k
  <2> QED
    BY <1>2, <1>c, <1>d, <2>1, <2>2, NumberKept DEF SetSekrit
<1>3. ASSUME NEW c \in Conns, AbortMsg(c) PROVE NumberInv'
  <2>1. Handle(c, "abort")
    BY <1>3 DEF AbortMsg
  <2>2. CASE ServerOf(c) = 0
    BY <1>3, <1>a, <1>c, <1>d, <2>1, <2>2, NumberKept DEF AbortMsg
  <2>3. CASE ServerOf(c) # 0
    <3>1. Teardown(ServerOf(c)) /\ Mark("abort", ServerOf(c) = Head(queue[c]).from)
      BY <1>3, <2>3 DEF AbortMsg
    <3>2. wrong' = {}
      <4> DEFINE k == Head(queue[c]).from
      <4>1. k \in Conns /\ readerFd[k] = readerFd[ServerOf(c)] /\ readerFd[k] # 0
        <5>1. k \in Conns
          BY <2>1, HandleTakes
        <5>2. readerFd[c] # 0 /\ readerFd[k] = readerFd[c]
          BY <1>d, <2>1
        <5> QED
          BY <1>e, <2>1, <2>3, <5>1, <5>2
      <4>2. ServerOf(c) \in Conns
        BY <1>e, <2>3
      <4> HIDE DEF k
      <4>3. ServerOf(c) = k \/ FdReused
        BY <4>1, <4>2, SameNumber
      <4> QED
        BY <1>a, <3>1, <4>3 DEF Mark, k
    <3> QED
      BY <1>3, <1>c, <1>d, <1>e, <1>f, <2>1, <2>3, <3>1, <3>2, NumberKept DEF AbortMsg
  <2> QED
    BY <2>2, <2>3
<1>4. ASSUME NEW c \in Conns, HandlerCrashes(c) PROVE NumberInv'
  <2>1. /\ \A d \in Conns : queue'[d] = <<>>
        /\ out' = <<>> /\ \A fd \in Fds : file'[fd] = 0
        /\ UNCHANGED <<made, readerFd, server, rpcfd, servers, wrong>>
    BY <1>4 DEF HandlerCrashes, Crash
  <2>2. Len(<<>>) = 0
    OBVIOUS
  <2> QED
    BY <1>a, <2>1, <2>2, NumberKept
<1>5. CASE WebPlugInStop
  <2>1. CASE on /\ StopMovie
    <3>1. \A fd \in Fds : file'[fd] \in {0, file[fd]} /\ servers'[fd] \in {0, servers[fd]}
      BY <1>f, <2>1, StopCloses
    <3> QED
      BY <1>5, <1>a, <1>b, <1>c, <2>1, <3>1, NumberKept DEF WebPlugInStop, StopMovie
  <2>2. CASE ~on
    BY <1>0, <1>5, <2>2 DEF WebPlugInStop
  <2> QED
    BY <1>5, <2>1, <2>2 DEF WebPlugInStop
<1>6. CASE WebPlugInStart
  <2>1. CASE on
    <3>1. StopMovie
      BY <1>6, <2>1 DEF WebPlugInStart, Starts
    <3>2. \A fd \in Fds : file'[fd] \in {0, file[fd]} /\ servers'[fd] \in {0, servers[fd]}
      BY <1>f, <3>1, StopCloses
    <3> QED
      BY <1>6, <1>a, <1>b, <1>c, <3>1, <3>2, NumberKept DEF WebPlugInStart, StopMovie
  <2>2. CASE ~on
    BY <1>0, <1>6, <2>2 DEF WebPlugInStart
  <2> QED
    BY <2>1, <2>2
<1>7. CASE InitialClicked
  BY <1>0, <1>7 DEF InitialClicked
<1>8. CASE NewServer
  <2>1. PICK fd \in Fds : Connect(fd) \/ ConnectFails(fd)
    BY <1>8, FreshNumbers DEF NewServer
  <2>2. starting /\ NewSocket(fd) /\ fd # 0
    BY <2>1, ConnsAssumption DEF Connect, ConnectFails, NewSocket
  <2>3. /\ made + 1 \in Conns /\ made \in Nat /\ readerFd[made + 1] = 0 /\ server' = made + 1
        /\ readerFd' = [readerFd EXCEPT ![made + 1] = fd] /\ made' = made + 1
        /\ rpcfd' \in {0, fd} /\ UNCHANGED <<queue, wrong>>
        /\ readerFd \in [Conns -> Fds \cup {0}]
    BY <2>1, <2>2, NextConn, ConnsAssumption
       DEF Connect, ConnectFails, NewSocket, TypeOK, HostTypeOK
  <2>4. \A c \in Conns : readerFd[c] # 0 => readerFd'[c] = readerFd[c]
    BY <2>3
  <2>5. readerFd'[made + 1] = fd
    BY <2>3
  <2>6. ASSUME NEW g \in Fds
        PROVE  /\ servers'[g] # 0 => readerFd'[servers'[g]] = g
               /\ file'[g] # 0 => readerFd'[file'[g]] = g
    <3>1. \/ servers'[g] = servers[g] /\ file'[g] = file[g]
          \/ g = fd /\ servers'[g] = made + 1 /\ file'[g] = made + 1
      BY <2>1 DEF Connect, ConnectFails, TypeOK, HostTypeOK, SharedTypeOK
    <3>2. g # 0 /\ servers[g] \in Conns \cup {0} /\ file[g] \in Conns \cup {0}
      BY ConnsAssumption DEF TypeOK, HostTypeOK, SharedTypeOK
    <3> QED
      BY <2>4, <2>5, <3>1, <3>2 DEF NumberInv
  <2>7. ASSUME NEW c \in Conns, NEW i \in 1..Len(queue'[c])
        PROVE  readerFd'[c] # 0 /\ readerFd'[queue'[c][i].from] = readerFd'[c]
    <3>1. queue[c] \in Seq(Requests) /\ queue'[c] = queue[c]
      BY <2>3 DEF TypeOK, HostTypeOK, Requests
    <3>2. queue[c][i] \in Requests
      BY <2>7, <3>1, ElementOfSeq
    <3> QED
      BY <2>4, <2>7, <3>1, <3>2 DEF NumberInv, Requests
  <2>8. ASSUME NEW i \in 1..Len(out')
        PROVE  readerFd'[out'[i].meant] = out'[i].fd
    <3> DEFINE m == [fd |-> fd, meant |-> made + 1]
    <3>1. m \in Messages
      BY <2>3 DEF Messages
    <3>2. out' = out \/ out' = Append(out, m)
      BY <2>1 DEF Connect, ConnectFails
    <3>3. \/ i \in 1..Len(out) /\ out'[i] = out[i]
          \/ out'[i] = m
      BY <2>8, <3>1, <3>2, OutAppend
    <3>4. CASE out'[i] = m
      BY <2>5, <3>4
    <3>5. CASE i \in 1..Len(out) /\ out'[i] = out[i]
      <4>1. out[i] \in Messages
        <5>1. out \in Seq(Messages)
          BY DEF TypeOK, HostTypeOK, Messages
        <5> QED
          BY <3>5, <5>1, ElementOfSeq
      <4>2. out[i].fd # 0 /\ out[i].meant \in Conns /\ readerFd[out[i].meant] = out[i].fd
        BY <3>5, <4>1, ConnsAssumption DEF Messages, NumberInv
      <4> QED
        BY <2>4, <3>5, <4>2
    <3> QED
      BY <3>3, <3>4, <3>5
  <2>9. \A c \in Conns : c > made' => readerFd'[c] = 0
    BY <2>3 DEF NumberInv, Conns
  <2>10. rpcfd' # 0 => server' # 0 /\ readerFd'[server'] = rpcfd'
    BY <2>2, <2>3, <2>5
  <2> QED
    BY <1>a, <2>3, <2>6, <2>7, <2>8, <2>9, <2>10 DEF NumberInv
<1>9. CASE SendToPlayer
  <2> DEFINE m == [fd |-> rpcfd, meant |-> server]
  <2>1. m \in Messages /\ readerFd[server] = rpcfd
    BY <1>9 DEF SendToPlayer, NumberInv, TypeOK, HostTypeOK, Messages
  <2>2. out' = Append(out, m)
    BY <1>9 DEF SendToPlayer
  <2>3. \A i \in 1..Len(out') : readerFd[out'[i].meant] = out'[i].fd
    BY <2>1, <2>2, OutAppend DEF NumberInv
  <2> QED
    BY <1>9, <1>a, <1>b, <2>3, NumberKept DEF SendToPlayer
<1>10. CASE Xsend
  <2>1. out # <<>> /\ out' = Tail(out)
    BY <1>10 DEF Xsend
  <2>2. /\ Head(out) \in Messages /\ readerFd[Head(out).meant] = Head(out).fd
        /\ \A i \in 1..Len(out') : readerFd[out'[i].meant] = out'[i].fd
    BY <2>1, OutTail DEF NumberInv
  <2>3. wrong' = {}
    <3> DEFINE k == file[Head(out).fd]
    <3>1. Head(out).fd \in Fds /\ Head(out).meant \in Conns /\ Head(out).fd # 0
      BY <2>2, ConnsAssumption DEF Messages
    <3>2. k \in Conns \cup {0} /\ (k # 0 => readerFd[k] = Head(out).fd)
      BY <3>1 DEF TypeOK, SharedTypeOK, NumberInv
    <3>3. k \in {0, Head(out).meant} \/ FdReused
      BY <2>2, <3>1, <3>2 DEF FdReused
    <3> QED
      BY <1>10, <1>a, <3>3 DEF Xsend, Mark
  <2> QED
    BY <1>10, <1>b, <2>2, <2>3, NumberKept DEF Xsend
<1>11. ASSUME NEW c \in Conns, ReaderRecv(c) PROVE NumberInv'
  <2>1. readerFd[c] # 0 /\ readerFd[FileOf(c)] = readerFd[c]
    BY <1>11, ReaderAppends, ConnsAssumption DEF NumberInv, Conns
  <2>2. ASSUME NEW d \in Conns, NEW i \in 1..Len(queue'[d])
        PROVE  readerFd[d] # 0 /\ readerFd[queue'[d][i].from] = readerFd[d]
    <3>1. CASE i \in 1..Len(queue[d]) /\ queue'[d][i] = queue[d][i]
      BY <3>1 DEF NumberInv
    <3>2. CASE d = c /\ queue'[d][i].from = FileOf(c)
      BY <2>1, <3>2
    <3> QED
      BY <1>11, <2>2, <3>1, <3>2, ReaderAppends
  <2> QED
    BY <1>11, <1>a, <1>c, <2>2, NumberKept DEF ReaderRecv
<1>12. ASSUME NEW c \in Conns, ReaderEnds(c) PROVE NumberInv'
  <2>1. queue \in [Conns -> Seq(Requests)] /\ Len(<<>>) = 0
    BY DEF TypeOK, HostTypeOK, Requests
  <2>2. \A d \in Conns : \A i \in 1..Len(queue'[d]) :
           readerFd[d] # 0 /\ readerFd[queue'[d][i].from] = readerFd[d]
    BY <1>12, <2>1 DEF ReaderEnds, NumberInv
  <2> QED
    BY <1>12, <1>a, <1>c, <2>2, NumberKept DEF ReaderEnds
<1>13. CASE WrapperNext /\ UNCHANGED hostVars
  <2>1. UNCHANGED file
    BY <1>13 DEF WrapperNext, WrapperStep, LoopEnds, ForkNoMemory, Launch, Accept, Fork,
                 ForkFails, Exit, Watch, Kill, HeirsEnd, PlayerLeaves, PlayerAborts, PlayerHangs
  <2> QED
    BY <1>0, <1>13, <2>1
<1>14. CASE UNCHANGED vars
  BY <1>0, <1>14
<1> QED
  BY <1>1, <1>2, <1>3, <1>4, <1>5, <1>6, <1>7, <1>8, <1>9, <1>10, <1>11, <1>12, <1>13, <1>14
     DEF Next, HostNext, HostMain, HostThreads

-----------------------------------------------------------------------------
(* Secrets.                                                                *)

\* Only the view's current FServer has an open connection.
LEMMA OpenIsCurrent ==
    ASSUME MovieInv, NEW fd \in Fds, file[fd] # 0
    PROVE  /\ file[fd] = server /\ fd = rpcfd /\ servers[fd] = server
           /\ server \in Conns /\ readerFd[server] = fd
  BY DEF MovieInv, SlotInv, OneMovie, NumberInv, TypeOK, SharedTypeOK, HostTypeOK

\* An action that opens nothing, tears down at most one FServer, and queues
\* no request but from the connection the reader's number stands for.
LEMMA SecretKept ==
    ASSUME MovieInv, UNCHANGED readerFd,
           UNCHANGED <<posted, sekrit, file>> \/ \E s \in Conns : Teardown(s),
           \A c \in Conns : \A i \in 1..Len(queue'[c]) :
              /\ readerFd[c] # 0 /\ queue'[c][i].from # 0
              /\ Open(file, queue'[c][i].from) => file[readerFd[c]] = queue'[c][i].from
    PROVE  SecretInv'
<1> USE DEF MovieInv, SecretInv, TypeOK, SharedTypeOK, HostTypeOK
<1>1. ASSUME NEW k, k # 0, Open(file', k)
      PROVE  /\ Open(file, k) /\ k = server
             /\ \A fd \in Fds : file[fd] = k => file'[fd] = k
  <2>1. PICK fd \in Fds : file'[fd] = k
    BY <1>1 DEF Open
  <2>2. file[fd] = k
    BY <1>1, <2>1, TeardownSlot
  <2>3. file[fd] = server /\ fd = rpcfd /\ \A g \in Fds : file[g] # 0 => g = rpcfd
    BY <1>1, <2>2, OpenIsCurrent
  <2> QED
    BY <1>1, <2>1, <2>2, <2>3 DEF Open
<1>2. ASSUME NEW s \in Conns, Teardown(s)
      PROVE  s = server => \A k : k # 0 => ~Open(file', k)
  BY <1>2, TeardownSlot DEF Open
<1>3. ASSUME NEW c \in posted' PROVE readerFd'[c] # 0 /\ ~Open(file', c)
  <2>0. c # 0
    BY <1>3, ConnsAssumption DEF Teardown, Conns
  <2>1. CASE c \in posted
    BY <1>1, <2>0, <2>1
  <2>2. CASE c \notin posted
    <3>1. PICK s \in Conns : Teardown(s)
      BY <1>3, <2>2
    <3>2. c = sekrit[s]
      BY <1>3, <2>2, <3>1 DEF Teardown
    <3> QED
      BY <1>1, <1>2, <2>0, <3>1, <3>2
  <2> QED
    BY <2>1, <2>2
<1>4. ASSUME NEW s \in Conns, sekrit'[s] # 0
      PROVE  readerFd'[sekrit'[s]] # 0 /\ (Open(file', sekrit'[s]) => sekrit'[s] = s)
  <2>1. sekrit'[s] = sekrit[s]
    BY <1>4 DEF Teardown
  <2> QED
    BY <1>1, <1>4, <2>1
<1>5. ASSUME NEW c \in Conns, NEW i \in 1..Len(queue'[c])
      PROVE  Open(file', queue'[c][i].from) => file'[readerFd'[c]] = queue'[c][i].from
  <2>1. readerFd[c] \in Fds /\ queue'[c][i].from # 0
    BY <1>5
  <2> QED
    BY <1>1, <1>5, <2>1
<1> QED
  BY <1>3, <1>4, <1>5 DEF Open

\* Every step keeps SecretInv.
LEMMA SecretStep == MovieInv /\ [Next]_vars => SecretInv'
<1> SUFFICES ASSUME MovieInv, TypeOK, SecretInv, NumberInv, [Next]_vars PROVE SecretInv'
  BY DEF MovieInv
<1> USE DEF vars, hostVars, wrapperVars, sharedVars, viewVars, serverVars, readerVars,
            sendVars, hostHistory
<1>t. queue \in [Conns -> Seq(Requests)]
  BY DEF TypeOK, HostTypeOK, Requests
<1>a. \A c \in Conns : \A i \in 1..Len(queue[c]) :
         /\ readerFd[c] # 0 /\ queue[c][i].from \in Conns /\ queue[c][i].from # 0
         /\ Open(file, queue[c][i].from) => file[readerFd[c]] = queue[c][i].from
  <2>1. \A c \in Conns : \A i \in 1..Len(queue[c]) : queue[c][i] \in Requests
    BY <1>t, ElementOfSeq
  <2>2. \A c \in Conns : \A i \in 1..Len(queue[c]) : queue[c][i].from \in Conns
    BY <2>1 DEF Requests
  <2> QED
    BY <2>2 DEF SecretInv, NumberInv, Conns
<1>b. ASSUME NEW c \in Conns, NEW kind, Handle(c, kind)
      PROVE  \A d \in Conns : \A i \in 1..Len(queue'[d]) :
                /\ readerFd[d] # 0 /\ queue'[d][i].from # 0
                /\ Open(file, queue'[d][i].from) => file[readerFd[d]] = queue'[d][i].from
  <2>1. ASSUME NEW d \in Conns, NEW i \in 1..Len(queue'[d])
        PROVE  /\ readerFd[d] # 0 /\ queue'[d][i].from # 0
               /\ Open(file, queue'[d][i].from) => file[readerFd[d]] = queue'[d][i].from
    <3>1. CASE d # c
      <4>1. queue'[d] = queue[d]
        BY <1>b, <1>t, <3>1, HandleTakes
      <4> QED
        BY <1>a, <2>1, <4>1
    <3>2. CASE d = c
      <4>1. queue'[d] = Tail(queue[c])
        BY <1>b, <1>t, <3>2, HandleTakes
      <4>2. i + 1 \in 1..Len(queue[c]) /\ queue'[d][i] = queue[c][i + 1]
        BY <1>b, <2>1, <4>1, HandleTakes
      <4> QED
        BY <1>a, <3>2, <4>2
    <3> QED
      BY <3>1, <3>2
  <2> QED
    BY <2>1
<1>0. ASSUME UNCHANGED <<readerFd, queue>>,
             UNCHANGED <<posted, sekrit, file>> \/ \E s \in Conns : Teardown(s)
      PROVE  SecretInv'
  BY <1>0, <1>a, SecretKept
<1>1. ASSUME NEW c \in Conns, Error(c) PROVE SecretInv'
  <2>1. CASE ServerOf(c) = 0
    BY <1>0, <1>1, <2>1 DEF Error
  <2>2. CASE ServerOf(c) # 0
    <3>1. ServerOf(c) \in Conns /\ Teardown(ServerOf(c))
      BY <1>1, <2>2, LookupType DEF Error
    <3> QED
      BY <1>0, <1>1, <3>1 DEF Error
  <2> QED
    BY <2>1, <2>2
<1>2. ASSUME NEW c \in Conns, SetSekrit(c) PROVE SecretInv'
  <2> DEFINE k == Head(queue[c]).from
             s == ServerOf(c)
  <2>1. Handle(c, "sekrit") /\ UNCHANGED <<file, posted, readerFd>>
        /\ sekrit' = [sekrit EXCEPT ![s] = IF @ = 0 THEN k ELSE @]
        /\ s # 0
    BY <1>2 DEF SetSekrit
  <2>2. k \in Conns /\ readerFd[k] # 0 /\ (Open(file, k) => file[readerFd[c]] = k)
        /\ readerFd[c] \in Fds /\ k # 0
    <3>1. /\ 1 \in 1..Len(queue[c]) /\ Head(queue[c]) = queue[c][1]
          /\ Head(queue[c]).from \in Conns
      BY <2>1, HandleTakes
    <3> QED
      BY <1>a, <3>1 DEF NumberInv, TypeOK, HostTypeOK
  <2>3. s = servers[readerFd[c]] /\ s \in Conns
    BY <2>1, LookupType DEF ServerOf
  <2>4. Open(file, k) => s = k
    BY <2>2, <2>3, OpenIsCurrent
  <2> HIDE DEF k, s
  <2>5. ASSUME NEW t \in Conns, sekrit'[t] # 0
        PROVE  readerFd'[sekrit'[t]] # 0 /\ (Open(file', sekrit'[t]) => sekrit'[t] = t)
    <3>1. sekrit'[t] = sekrit[t] \/ (t = s /\ sekrit'[t] = k)
      BY <2>1, <2>3 DEF TypeOK, HostTypeOK
    <3>2. \A m : Open(file', m) <=> Open(file, m)
      BY <2>1 DEF Open
    <3> QED
      BY <2>1, <2>2, <2>4, <2>5, <3>1, <3>2 DEF SecretInv
  <2>6. \A d \in Conns : \A i \in 1..Len(queue'[d]) :
           Open(file', queue'[d][i].from) => file'[readerFd'[d]] = queue'[d][i].from
    BY <1>b, <2>1 DEF Open
  <2> QED
    BY <2>1, <2>5, <2>6 DEF SecretInv, Open
<1>3. ASSUME NEW c \in Conns, AbortMsg(c) PROVE SecretInv'
  <2>0. Handle(c, "abort") /\ UNCHANGED readerFd
    BY <1>3 DEF AbortMsg
  <2>1. UNCHANGED <<posted, sekrit, file>> \/ \E s \in Conns : Teardown(s)
    BY <1>3, LookupType DEF AbortMsg
  <2> QED
    BY <1>b, <2>0, <2>1, SecretKept
<1>4. ASSUME NEW c \in Conns, HandlerCrashes(c) PROVE SecretInv'
  <2>1. /\ \A d \in Conns : queue'[d] = <<>>
        /\ \A fd \in Fds : file'[fd] = 0
        /\ UNCHANGED <<readerFd, posted, sekrit>>
    BY <1>4 DEF HandlerCrashes, Crash
  <2>2. Len(<<>>) = 0
    OBVIOUS
  <2>3. \A k : k # 0 => ~Open(file', k)
    BY <2>1 DEF Open
  <2>4. \A c1 \in posted : c1 # 0
    BY DEF TypeOK, SharedTypeOK, Conns
  <2> QED
    BY <2>1, <2>2, <2>3, <2>4 DEF SecretInv
<1>5. ASSUME StopMovie
      PROVE  UNCHANGED <<posted, sekrit, file>> \/ \E s \in Conns : Teardown(s)
  BY <1>5, StopCloses
<1>6. CASE WebPlugInStop
  BY <1>0, <1>5, <1>6 DEF WebPlugInStop
<1>7. CASE WebPlugInStart
  BY <1>0, <1>5, <1>7 DEF WebPlugInStart, Starts
<1>8. CASE InitialClicked
  BY <1>0, <1>8 DEF InitialClicked
<1>9. CASE NewServer
  <2>1. PICK fd \in Fds : Connect(fd) \/ ConnectFails(fd)
    BY <1>9, FreshNumbers DEF NewServer
  <2>2. starting /\ NewSocket(fd) /\ fd # 0
    BY <2>1, ConnsAssumption DEF Connect, ConnectFails, NewSocket
  <2>3. /\ made + 1 \in Conns /\ readerFd[made + 1] = 0
        /\ readerFd' = [readerFd EXCEPT ![made + 1] = fd]
        /\ UNCHANGED <<queue, posted, sekrit>>
        /\ readerFd \in [Conns -> Fds \cup {0}]
        /\ \A g \in Fds : file'[g] \in {0, made + 1}
    BY <2>1, <2>2, NextConn
       DEF Connect, ConnectFails, NewSocket, TypeOK, SharedTypeOK, HostTypeOK
  <2>4. \A c \in Conns : readerFd[c] # 0 => readerFd'[c] = readerFd[c] /\ ~Open(file', c)
    BY <2>3 DEF Open, Conns
  <2>5. /\ \A c \in posted' : readerFd'[c] # 0 /\ ~Open(file', c)
        /\ \A s \in Conns : sekrit'[s] # 0 =>
              readerFd'[sekrit'[s]] # 0 /\ ~Open(file', sekrit'[s])
    BY <2>3, <2>4 DEF SecretInv, TypeOK, SharedTypeOK, HostTypeOK
  <2>6. \A c \in Conns : \A i \in 1..Len(queue'[c]) : ~Open(file', queue'[c][i].from)
    BY <1>a, <2>3, <2>4 DEF NumberInv
  <2> QED
    BY <2>5, <2>6 DEF SecretInv, Open
<1>10. CASE SendToPlayer
  BY <1>0, <1>10 DEF SendToPlayer
<1>11. CASE Xsend
  BY <1>0, <1>11 DEF Xsend
<1>12. ASSUME NEW c \in Conns, ReaderRecv(c) PROVE SecretInv'
  <2>1. readerFd[c] # 0 /\ FileOf(c) # 0 /\ file[readerFd[c]] = FileOf(c)
    BY <1>12, ReaderAppends, ConnsAssumption DEF Conns
  <2>2. ASSUME NEW d \in Conns, NEW i \in 1..Len(queue'[d])
        PROVE  /\ readerFd[d] # 0 /\ queue'[d][i].from # 0
               /\ Open(file, queue'[d][i].from) => file[readerFd[d]] = queue'[d][i].from
    <3>1. CASE i \in 1..Len(queue[d]) /\ queue'[d][i] = queue[d][i]
      BY <1>a, <3>1
    <3>2. CASE d = c /\ queue'[d][i].from = FileOf(c)
      BY <2>1, <3>2
    <3> QED
      BY <1>12, <2>2, <3>1, <3>2, ReaderAppends
  <2> QED
    BY <1>12, <2>2, SecretKept DEF ReaderRecv
<1>13. ASSUME NEW c \in Conns, ReaderEnds(c) PROVE SecretInv'
  <2>1. \A d \in Conns : queue'[d] = queue[d] \/ queue'[d] = <<>>
    BY <1>13, <1>t DEF ReaderEnds
  <2>2. Len(<<>>) = 0
    OBVIOUS
  <2>3. \A d \in Conns : \A i \in 1..Len(queue'[d]) :
           /\ readerFd[d] # 0 /\ queue'[d][i].from # 0
           /\ Open(file, queue'[d][i].from) => file[readerFd[d]] = queue'[d][i].from
    BY <1>a, <2>1, <2>2
  <2> QED
    BY <1>13, <2>3, SecretKept DEF ReaderEnds
<1>14. CASE WrapperNext /\ UNCHANGED hostVars
  <2>1. UNCHANGED <<file, posted>>
    BY <1>14 DEF WrapperNext, WrapperStep, LoopEnds, ForkNoMemory, Launch, Accept, Fork,
                 ForkFails, Exit, Watch, Kill, HeirsEnd, PlayerLeaves, PlayerAborts, PlayerHangs
  <2> QED
    BY <1>0, <1>14, <2>1
<1>15. CASE UNCHANGED vars
  BY <1>0, <1>15
<1> QED
  BY <1>1, <1>2, <1>3, <1>4, <1>6, <1>7, <1>8, <1>9, <1>10, <1>11, <1>12, <1>13, <1>14, <1>15
     DEF Next, HostNext, HostMain, HostThreads

-----------------------------------------------------------------------------
(* Pids.                                                                   *)

\* An action that leaves the wrapper's tables alone, and kills nobody.
LEMMA WatchKept ==
    ASSUME MovieInv, UNCHANGED <<watch, readerFd, killed>>,
           \A c \in Conns : far'[c] = "backlog" => far[c] = "backlog",
           \A c \in Conns : far'[c] = "leaked" => readerFd[c] # 0 /\ watch[c] # Lost,
           \A c \in Conns : watch[c] # 0 => pid'[c] = pid[c],
           \/ wrapper' \notin {"secret", "forked"}
           \/ UNCHANGED <<wrapper, cur>>
    PROVE  WatchInv'
<1>1. \A c \in Conns : watch[c] \in Pids => Rightful(c)'
  <2>1. Lost # 0 /\ 0 \notin Pids
    BY PidsAssumption DEF Lost
  <2> QED
    BY <2>1 DEF MovieInv, WatchInv, Rightful
<1> QED
  BY <1>1 DEF MovieInv, WatchInv

\* Every step keeps WatchInv.
LEMMA WatchStep == MovieInv /\ [Next]_vars => WatchInv'
<1> SUFFICES ASSUME MovieInv, TypeOK, WatchInv, [Next]_vars PROVE WatchInv'
  BY DEF MovieInv
<1> USE DEF TypeOK, SharedTypeOK, HostTypeOK, WrapperTypeOK, vars, hostVars, wrapperVars,
            sharedVars, viewVars, serverVars, readerVars, sendVars, hostHistory
<1>1. CASE HostNext /\ UNCHANGED wrapperVars
  <2>1. CASE NewServer
    <3>1. PICK fd \in Fds : Connect(fd) \/ ConnectFails(fd)
      BY <2>1, FreshNumbers DEF NewServer
    <3>2. starting /\ fd # 0 /\ readerFd' = [readerFd EXCEPT ![made + 1] = fd]
      BY <3>1, ConnsAssumption DEF Connect, ConnectFails, NewSocket
    <3>3. /\ made + 1 \in Conns /\ readerFd[made + 1] = 0 /\ readerFd'[made + 1] # 0
          /\ \A c \in Conns : readerFd[c] # 0 => readerFd'[c] = readerFd[c]
      BY <3>2, NextConn
    <3>4. \A c \in Conns : far'[c] = "backlog" => far[c] = "backlog" \/ c = made + 1
      BY <3>1 DEF Connect, ConnectFails
    <3>5. watch[made + 1] = 0
      BY <3>3 DEF WatchInv
    <3>6. UNCHANGED <<wrapper, cur, watch, pid, killed>>
      BY <1>1
    <3>7. \A c \in Conns : far'[c] = "backlog" => readerFd'[c] # 0 /\ watch'[c] = 0
      BY <3>3, <3>4, <3>5, <3>6 DEF WatchInv
    <3>8. /\ \A c \in Conns : watch'[c] # 0 => readerFd'[c] # 0
          /\ \A c \in Conns : watch'[c] \in Pids => Rightful(c)'
      BY <3>3, <3>6 DEF WatchInv, Rightful
    <3>9. wrapper' \in {"secret", "forked"} => cur' # 0 /\ readerFd'[cur'] # 0 /\ watch'[cur'] = 0
      BY <3>3, <3>6 DEF WatchInv
    <3>10. \A c \in Conns : far'[c] = "leaked" => readerFd'[c] # 0 /\ watch'[c] # Lost
      BY <3>1, <3>3, <3>6 DEF Connect, ConnectFails, WatchInv
    <3> QED
      BY <3>6, <3>7, <3>8, <3>9, <3>10 DEF WatchInv
  <2>2. CASE ~NewServer
    <3>1. UNCHANGED <<readerFd, far>>
      BY <1>1, <2>2 DEF HostNext, HostMain, HostThreads, Error, SetSekrit, AbortMsg,
         HandlerCrashes, Crash, WebPlugInStart, WebPlugInStop, InitialClicked,
         SendToPlayer, Xsend, ReaderRecv, ReaderEnds
    <3> QED
      BY <1>1, <3>1, WatchKept DEF WatchInv
  <2> QED
    BY <2>1, <2>2
<1>2. CASE WrapperNext /\ UNCHANGED hostVars
  <2>0. Lost # 0 /\ 0 \notin Pids /\ Lost \notin Pids
    BY PidsAssumption DEF Lost
  <2>1. CASE Launch
    BY <1>2, <2>1, WatchKept DEF Launch, WatchInv
  <2>2. CASE Accept
    <3>1. PICK c \in Backlog : cur' = c /\ far' = [far EXCEPT ![c] = "wrapper"]
      BY <2>2 DEF Accept
    <3>2. c \in Conns /\ far[c] = "backlog" /\ c # 0
      BY DEF Backlog, Conns
    <3>3. UNCHANGED <<watch, pid, readerFd, killed>>
      BY <1>2, <2>2 DEF Accept
    <3>4. \A d \in Conns : watch'[d] \in Pids => Rightful(d)'
      BY <3>3 DEF WatchInv, Rightful
    <3> QED
      BY <3>1, <3>2, <3>3, <3>4 DEF WatchInv
  <2>3. CASE Fork
    <3>1. PICK p \in Pids : pid' = [pid EXCEPT ![cur] = p]
      BY <2>3, FreshNumbers DEF Fork
    <3>2. wrapper = "secret" /\ wrapper' = "forked" /\ UNCHANGED <<far, watch, cur, readerFd, killed>>
      BY <1>2, <2>3 DEF Fork
    <3>3. cur \in Conns /\ watch[cur] = 0
      BY <3>2 DEF WatchInv
    <3>4. \A d \in Conns : watch[d] # 0 => pid'[d] = pid[d]
      BY <3>1, <3>3
    <3>5. ASSUME NEW d \in Conns, watch'[d] \in Pids PROVE Rightful(d)'
      <4>1. PICK e \in Conns : pid[e] = watch[d] /\ (e = d \/ watch[e] = Lost)
        BY <3>2, <3>5 DEF WatchInv, Rightful
      <4>2. watch[e] # 0
        BY <2>0, <3>2, <3>5, <4>1
      <4> QED
        BY <3>2, <3>4, <4>1, <4>2 DEF Rightful
    <3> QED
      BY <3>1, <3>2, <3>3, <3>5 DEF WatchInv
  <2>4. CASE ForkFails
    <3>1. \A c \in Conns : far'[c] = "leaked" => readerFd[c] # 0 /\ watch[c] # Lost
      BY <2>0, <2>4 DEF ForkFails, WatchInv
    <3>2. \A c \in Conns : far'[c] = "backlog" => far[c] = "backlog"
      BY <2>4 DEF ForkFails
    <3> QED
      BY <1>2, <2>4, <3>1, <3>2, WatchKept DEF ForkFails
  <2>5. ASSUME Exit PROVE WatchInv'
    <3>1. /\ wrapper' = "none" /\ UNCHANGED <<readerFd, killed>>
          /\ \A c \in Conns : watch'[c] = 0 /\ watch'[c] \notin Pids /\ watch'[c] # Lost
      BY <1>2, <2>0, <2>5 DEF Exit
    <3>2. \A c \in Conns : /\ far'[c] = "backlog" => far[c] = "backlog"
                           /\ far'[c] # "leaked"
      BY <2>5 DEF Exit
    <3> QED
      BY <2>0, <3>1, <3>2 DEF WatchInv
  <2>6. CASE Watch
    <3>1. /\ wrapper = "forked" /\ wrapper' = "wait"
          /\ UNCHANGED <<pid, readerFd, killed>>
          /\ far' = [far EXCEPT ![cur] = IF Alive(cur) THEN "player" ELSE "gone"]
      BY <1>2, <2>6 DEF Watch
    <3>2. cur \in Conns /\ readerFd[cur] # 0
      BY <3>1 DEF WatchInv
    <3>3. \A d \in Conns : /\ far'[d] = "backlog" => far[d] = "backlog" /\ d # cur
                           /\ far'[d] = "leaked" => far[d] = "leaked" /\ d # cur
      BY <3>1, <3>2
    <3>4. ASSUME NEW v \in {pid[cur], Lost}, watch' = [watch EXCEPT ![cur] = v]
          PROVE  WatchInv'
      <4>1. \A d \in Conns : d # cur => watch'[d] = watch[d]
        BY <3>4
      <4>2. watch'[cur] = v
        BY <3>2, <3>4
      <4>3. ASSUME NEW d \in Conns, watch'[d] \in Pids
            PROVE  Rightful(d)'
        <5>1. CASE d = cur
          BY <2>0, <3>1, <4>2, <4>3, <5>1 DEF Rightful
        <5>2. CASE d # cur
          <6>1. Rightful(d) /\ watch'[d] = watch[d]
            BY <4>1, <4>3, <5>2 DEF WatchInv
          <6>2. PICK e \in Conns : pid[e] = watch[d] /\ (e = d \/ watch[e] = Lost)
            BY <6>1 DEF Rightful
          <6>3. e # cur
            BY <2>0, <3>1, <5>2, <6>2 DEF WatchInv
          <6> QED
            BY <3>1, <4>1, <6>1, <6>2, <6>3 DEF Rightful
        <5> QED
          BY <5>1, <5>2
      <4> QED
        BY <3>1, <3>2, <3>3, <4>1, <4>3 DEF WatchInv
    <3>5. ASSUME NEW n \in Conns, n # cur, watch[n] \in Pids \/ far[n] = "leaked",
                 watch' = [watch EXCEPT ![cur] = Lost, ![n] = pid[cur]]
          PROVE  WatchInv'
      <4>1. /\ \A d \in Conns : d \notin {cur, n} => watch'[d] = watch[d]
            /\ watch'[cur] = Lost /\ watch'[n] = pid[cur]
        BY <3>2, <3>5
      <4>4. ASSUME NEW d \in Conns, watch'[d] \in Pids
            PROVE  Rightful(d)'
        <5>1. CASE d = n
          BY <3>1, <3>2, <4>1, <5>1 DEF Rightful
        <5>2. CASE d = cur
          BY <2>0, <4>1, <4>4, <5>2
        <5>3. CASE d \notin {cur, n}
          <6>1. Rightful(d) /\ watch'[d] = watch[d]
            BY <4>1, <4>4, <5>3 DEF WatchInv
          <6>2. PICK e \in Conns : pid[e] = watch[d] /\ (e = d \/ watch[e] = Lost)
            BY <6>1 DEF Rightful
          <6>3. e = d \/ watch'[e] = Lost
            BY <2>0, <3>5, <4>1, <6>2 DEF WatchInv
          <6> QED
            BY <3>1, <6>1, <6>2, <6>3 DEF Rightful
        <5> QED
          BY <5>1, <5>2, <5>3
      <4>5. readerFd[n] # 0 /\ far[n] # "backlog"
        BY <2>0, <3>5 DEF WatchInv
      <4>6. pid[cur] # Lost /\ n # cur
        BY <2>0, <3>2, <3>5
      <4>7. \A d \in Conns :
               /\ far'[d] = "backlog" => readerFd'[d] # 0 /\ watch'[d] = 0
               /\ far'[d] = "leaked" => readerFd'[d] # 0 /\ watch'[d] # Lost
               /\ watch'[d] # 0 => readerFd'[d] # 0
        BY <3>1, <3>2, <3>3, <4>1, <4>5, <4>6 DEF WatchInv
      <4> QED
        BY <3>1, <4>4, <4>7 DEF WatchInv
    <3> QED
      BY <2>6, <3>4, <3>5 DEF Watch
  <2>7. CASE Kill
    <3>1. PICK c \in Ready :
            /\ watch' = [watch EXCEPT ![c] = 0]
            /\ LET hit == {d \in Conns : pid[d] = watch[c] /\ Alive(d)} IN
               /\ player' = [d \in Conns |-> IF d \in hit THEN "dead" ELSE player[d]]
               /\ far' = [d \in Conns |-> IF d \in hit THEN "gone" ELSE far[d]]
               /\ killed' = killed \cup {d \in hit : HostOpen(d) /\ ~PidReused /\ watch[d] # Lost}
      BY <2>7 DEF Kill
    <3>2. /\ c \in Conns /\ watch[c] \in Pids /\ watch[c] # 0 /\ c \in posted
          /\ ~HostOpen(c)
      BY <2>0 DEF Ready, MovieInv, SecretInv, HostOpen, Open
    <3>3. ASSUME NEW d \in Conns, pid[d] = watch[c], HostOpen(d), watch[d] # Lost
          PROVE  PidReused
      <4>1. PICK e \in Conns : pid[e] = watch[c] /\ (e = c \/ watch[e] = Lost)
        BY <3>2 DEF WatchInv, Rightful
      <4> QED
        BY <3>2, <3>3, <4>1 DEF PidReused
    <3>4. killed' = killed
      BY <3>1, <3>3
    <3>5. /\ UNCHANGED <<wrapper, cur, pid, readerFd>> /\ wrapper = "wait"
          /\ \A d \in Conns : /\ far'[d] = "backlog" => far[d] = "backlog"
                              /\ far'[d] = "leaked" => far[d] = "leaked"
      BY <1>2, <2>7, <3>1 DEF Kill
    <3>6. ASSUME NEW d \in Conns, watch'[d] \in Pids
          PROVE  Rightful(d)'
      <4>0. PICK e \in Conns : pid[e] = watch[d] /\ (e = d \/ watch[e] = Lost)
        <5>1. watch[d] \in Pids
          BY <2>0, <3>1, <3>2, <3>6
        <5> QED
          BY <5>1 DEF WatchInv, Rightful
      <4>1. d # c /\ watch'[d] = watch[d]
        BY <2>0, <3>1, <3>2, <3>6
      <4>2. watch[e] = Lost => watch'[e] = Lost
        BY <2>0, <3>1, <3>2
      <4> QED
        BY <3>5, <4>0, <4>1, <4>2 DEF Rightful
    <3>7. \A d \in Conns :
             /\ far'[d] = "backlog" => readerFd'[d] # 0 /\ watch'[d] = 0
             /\ far'[d] = "leaked" => readerFd'[d] # 0 /\ watch'[d] # Lost
             /\ watch'[d] # 0 => readerFd'[d] # 0
      <4>1. \A d \in Conns : watch'[d] \in {0, watch[d]}
        BY <3>1
      <4> QED
        BY <2>0, <3>5, <4>1 DEF WatchInv
    <3> QED
      BY <3>4, <3>5, <3>6, <3>7 DEF WatchInv
  <2>8. ASSUME NEW c \in Conns,
               HeirsEnd(c) \/ PlayerLeaves(c) \/ PlayerAborts(c) \/ PlayerHangs(c)
        PROVE  WatchInv'
    <3>1. UNCHANGED <<watch, readerFd, killed, wrapper, cur, pid>>
      BY <1>2, <2>8 DEF HeirsEnd, PlayerLeaves, PlayerAborts, PlayerHangs
    <3>2. \A d \in Conns : /\ far'[d] = "backlog" => far[d] = "backlog"
                           /\ far'[d] = "leaked" => far[d] = "leaked"
      BY <2>8 DEF HeirsEnd, PlayerLeaves, PlayerAborts, PlayerHangs, PlayerEnds
    <3>3. \A d \in Conns : far'[d] = "leaked" => readerFd[d] # 0 /\ watch[d] # Lost
      <4>1. \A d \in Conns : far[d] = "leaked" => readerFd[d] # 0 /\ watch[d] # Lost
        BY Zenon DEF WatchInv
      <4> QED
        BY <3>2, <4>1
    <3>4. /\ \A d \in Conns : far'[d] = "backlog" => far[d] = "backlog"
          /\ \A d \in Conns : watch[d] # 0 => pid'[d] = pid[d]
      BY <3>1, <3>2
    <3> QED
      BY <3>1, <3>3, <3>4, WatchKept
  <2> QED
    BY <1>2, <2>1, <2>2, <2>3, <2>4, <2>5, <2>6, <2>7, <2>8
       DEF WrapperNext, WrapperStep, ForkNoMemory, LoopEnds
<1>3. CASE UNCHANGED vars
  BY <1>3, WatchKept DEF WatchInv
<1> QED
  BY <1>1, <1>2, <1>3 DEF Next

-----------------------------------------------------------------------------
(* The theorems.                                                           *)

\* The initial state satisfies the invariant.
LEMMA InitMovieInv == Init => MovieInv
<1> SUFFICES ASSUME Init PROVE MovieInv
  OBVIOUS
<1> USE DEF Init, SharedInit, HostInit, WrapperInit
<1>0. Len(<<>>) = 0
  OBVIOUS
<1>1. TypeOK
  BY InitTypeOK
<1>2. SlotInv
  BY DEF SlotInv, OneMovie
<1>3. NumberInv
  BY <1>0 DEF NumberInv
<1>4. SecretInv
  BY <1>0 DEF SecretInv
<1>5. WatchInv
  BY PidsAssumption DEF WatchInv, Lost
<1> QED
  BY <1>1, <1>2, <1>3, <1>4, <1>5 DEF MovieInv

\* Every step keeps the types.
LEMMA TypeStep == MovieInv /\ [Next]_vars => TypeOK'
<1> SUFFICES ASSUME MovieInv, [Next]_vars PROVE TypeOK'
  OBVIOUS
<1>0. SharedTypeOK /\ HostTypeOK /\ WrapperTypeOK
  BY DEF MovieInv, TypeOK
<1>1. CASE HostNext /\ UNCHANGED wrapperVars
  <2>1. WrapperTypeOK'
    BY <1>0, <1>1 DEF WrapperTypeOK, wrapperVars
  <2> QED
    BY <1>1, <2>1, HostTypeStep DEF TypeOK
<1>2. CASE WrapperNext /\ UNCHANGED hostVars
  <2>1. HostTypeOK'
    <3>1. /\ UNCHANGED <<on, started, rpcfd, server, starting, made, servers, rpcFd, sekrit>>
          /\ UNCHANGED <<reader, readerFd, queue, errorDue, out, sends, wrong, crashed>>
      BY <1>2 DEF hostVars, viewVars, serverVars, readerVars, sendVars, hostHistory
    <3> QED
      BY <1>0, <3>1 DEF HostTypeOK
  <2> QED
    BY <1>2, <2>1, WrapperTypeStep DEF TypeOK
<1>3. CASE UNCHANGED vars
  BY <1>3 DEF MovieInv, TypeOK, SharedTypeOK, HostTypeOK, WrapperTypeOK, vars, sharedVars,
              hostVars, wrapperVars, viewVars, serverVars, readerVars, sendVars, hostHistory
<1> QED
  BY <1>1, <1>2, <1>3 DEF Next

\* MovieInv is an invariant of host, wrapper and players together.
THEOREM MovieInvariant == Spec => []MovieInv
<1>1. MovieInv /\ [Next]_vars => MovieInv'
  BY TypeStep, SlotStep, NumberStep, SecretStep, WatchStep DEF MovieInv
<1> QED
  BY InitMovieInv, <1>1, PTL DEF Spec

\* Every variable of view, FServers, readers, wrapper and players keeps its
\* type.
THEOREM MovieTypes == Spec => []TypeOK
<1>1. MovieInv => TypeOK
  BY DEF MovieInv
<1> QED
  BY MovieInvariant, <1>1, PTL

\* Whatever the order of starts, stops, clicks and deaths, and however many
\* movies, at most the view's current FServer has a connection open, and it
\* has it under the number that the dictionary and the view know.
THEOREM AtMostOneMovie == Spec => []OneMovie
<1>1. MovieInv => OneMovie
  BY DEF MovieInv, SlotInv
<1> QED
  BY MovieInvariant, <1>1, PTL

\* Until a descriptor number is given out a second time, late errors,
\* secrets, aborts and messages reach the FServer or player they belong to.
THEOREM NumbersOwnUntilReuse == Spec => []OwnUntilReuse
<1>1. MovieInv => OwnUntilReuse
  BY DEF MovieInv, NumberInv, OwnUntilReuse
<1> QED
  BY MovieInvariant, <1>1, PTL

\* The wrapper kills no player whose movie still runs, unless the kernel
\* gave it the pid of a dead one, or its own notification is lost.
THEOREM OnlyTheStoppedKilled == Spec => []KillsOnlyTheStopped
<1>1. MovieInv => KillsOnlyTheStopped
  BY DEF MovieInv, WatchInv, KillsOnlyTheStopped
<1> QED
  BY MovieInvariant, <1>1, PTL
=============================================================================
