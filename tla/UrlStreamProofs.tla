--------------------------- MODULE UrlStreamProofs ---------------------------
(***************************************************************************)
(* Theorems about UrlStream, for any number of streams, addresses, bytes   *)
(* and messages: types, the properties of addresses, urls and bytes, and   *)
(* that UrlStream implements StreamContract.                               *)
(*                                                                         *)
(* The inductive invariant speaks of the messages of the host that the     *)
(* player has yet to handle, in whichever of the three queues they are:    *)
(* for each stream a response, data and one completion, in that order and  *)
(* for a stream that still lives at its address.  Every byte that the host *)
(* got was written, is being written, or is in the data under way; this    *)
(* ends for a stream of which NPP_Write takes less than it is offered.     *)
(***************************************************************************)
EXTENDS UrlStream, SequenceTheorems, TLAPS

\* The messages under way.
OnWay == Range(messages) \cup Range(toFood) \cup Range(todo)

Live(s) == dude[s].state \in {"started", "open"}
Ending == stage \in {"destroystream", "urlnotify", "free"}

\* Streams and addresses.
Homes ==
    /\ \A a \in Addrs : mem[a].id <= opened
    /\ \A a, b \in Addrs : mem[a].id # Nobody /\ mem[a].id = mem[b].id => a = b
    /\ \A a \in Addrs : mem[a].id # Nobody /\ a # call => mem[a].url
    /\ \A a \in Addrs : mem[a].id # Nobody /\ mem[a].headers => phase[mem[a].id] # "asked"

\* A stream that was not opened yet.
Unborn(s) ==
    /\ phase[s] = "none" /\ dude[s].state = "none"
    /\ gave[s] = 0 /\ given[s] = <<>> /\ s \notin whole /\ s \notin short

\* The call: its request, its reply or the answer, one of them.
Calls ==
    /\ call # Nobody => mem[call].id # Nobody
    /\ request # NoRequest =>
          /\ call # Nobody /\ request.addr = call /\ mem[call].id = request.id /\ ~answered
          /\ phase[request.id] = "asked" /\ gave[request.id] = 0 /\ request.id \notin whole
          /\ dude[request.id].state = "none"
    /\ answered => call # Nobody
    /\ \A m \in OnWay : m.type = "reply" =>
          call # Nobody /\ m.addr = call /\ request = NoRequest /\ ~answered
    /\ \A m \in Range(messages) : m.type # "reply"

\* The message in hand.
Hand ==
    /\ (cur = NoMsg) = (stage = "none")
    /\ cur # NoMsg => /\ cur.type # "reply" /\ mem[cur.addr].id = cur.id
                      /\ cur.addr # call /\ request.id # cur.id
    /\ stage = "write" => /\ cur.type = "data" /\ phase[cur.id] = "open"
                          /\ cur.from + cur.len <= gave[cur.id]
                          /\ cur.id \notin short => remain = cur.len
    /\ Ending => /\ cur.type = "done" /\ ~Live(cur.id)
                 /\ \A m \in OnWay : m.id = cur.id => m.type = "reply"
    /\ stage = "destroystream" => phase[cur.id] = "closed"

\* A message under way.
Belongs(m) ==
    /\ m.type # "none"
    /\ mem[m.addr].id = m.id
    /\ m.type # "reply" =>
          /\ phase[m.id] \in {"asked", "open"} /\ request.id # m.id
          /\ dude[m.id].state # "started"
    /\ m.type = "response" => phase[m.id] = "asked"
    /\ m.type = "done" => ~Live(m.id) /\ m.id \in whole

Belonging == \A m \in OnWay : Belongs(m)

\* Two messages under way, m before n.
Before(m, n) ==
    /\ m.type # "reply" \/ n.type # "reply"
    /\ m.id = n.id /\ m.type # "reply" /\ n.type # "reply" =>
          /\ m.type # "done" /\ n.type # "response"
          /\ m.type = "data" /\ n.type = "data" => m.from + m.len <= n.from

InOrder(q) == \A i, j \in 1..Len(q) : i < j => Before(q[i], q[j])
AllBefore(p, q) == \A m \in Range(p), n \in Range(q) : Before(m, n)

Ordered ==
    /\ InOrder(messages) /\ InOrder(toFood) /\ InOrder(todo)
    /\ AllBefore(messages, toFood) /\ AllBefore(messages, todo) /\ AllBefore(toFood, todo)

\* Flash has seen the response, or will before any data and the completion.
Shown(s) == phase[s] = "open" \/ \E m \in OnWay : m.type = "response" /\ m.id = s

Responses ==
    /\ \A m \in OnWay : m.type = "data" \/ (m.type = "done" /\ m.ok) => Shown(m.id)
    /\ \A s \in Streams : dude[s].state = "open" => Shown(s)

Dudes ==
    /\ \A s \in Streams :
        /\ dude[s].id = s
        /\ Live(s) => /\ dude[s].addr \in Addrs /\ mem[dude[s].addr].id = s
                      /\ s \notin whole /\ phase[s] \in {"asked", "open"}
        /\ dude[s].state = "started" => phase[s] = "asked" /\ gave[s] = 0
        /\ opened < s => Unborn(s)
    /\ \A m \in Range(todo) : m.type # "reply" => dude[m.id].state = "none"

\* Bytes taken or being taken.
Taken(a) == mem[a].ndata + (IF stage = "write" /\ cur.addr = a THEN remain ELSE 0)

Carried(s, k) ==
    \E m \in OnWay : m.type = "data" /\ m.id = s /\ m.from <= k /\ k < m.from + m.len

Given ==
    /\ BytesAtTheirOffset
    /\ \A s \in Streams : phase[s] \in {"none", "asked"} => given[s] = <<>> /\ s \notin short
    /\ \A s \in Streams \ short : Len(given[s]) <= gave[s]

Bytes ==
    stage # "exited" =>
       /\ \A a \in Addrs : mem[a].id # Nobody /\ mem[a].id \notin short =>
            /\ Len(given[mem[a].id]) = mem[a].ndata
            /\ Taken(a) <= gave[mem[a].id]
            /\ \A k \in 0..MaxTotal :
                  Taken(a) <= k /\ k < gave[mem[a].id] => Carried(mem[a].id, k)
       /\ \A m \in OnWay : m.type = "data" =>
            m.from + m.len <= gave[m.id] /\ (m.id \notin short => Taken(m.addr) <= m.from)
       /\ stage = "write" /\ cur.id \notin short => cur.from = mem[cur.addr].ndata

UrlInv == /\ TypeOK /\ Homes /\ Calls /\ Hand /\ Belonging /\ Ordered
          /\ Responses /\ Dudes /\ Given /\ Bytes
-----------------------------------------------------------------------------
(* Lemmas about the queues.                                                *)

\* The elements of a queue are what its range holds.
LEMMA RangeIs ==
    ASSUME NEW S, NEW q \in Seq(S)
    PROVE  /\ Range(q) \subseteq S
           /\ \A i \in 1..Len(q) : q[i] \in Range(q)
           /\ \A m \in Range(q) : \E i \in 1..Len(q) : m = q[i]
BY RangeEquality, ElementOfSeq

\* Taking the first message leaves the rest, which come after it.
LEMMA TakeFirst ==
    ASSUME NEW S, NEW q \in Seq(S), q # <<>>
    PROVE  /\ Head(q) \in Range(q) /\ Head(q) \in S
           /\ Tail(q) \in Seq(S)
           /\ Range(q) = Range(Tail(q)) \cup {Head(q)}
           /\ InOrder(q) => InOrder(Tail(q)) /\ \A m \in Range(Tail(q)) : Before(Head(q), m)
<1>1. /\ Head(q) \in S /\ Tail(q) \in Seq(S) /\ Len(q) \in Nat \ {0}
      /\ Len(Tail(q)) = Len(q) - 1 /\ Head(q) = q[1]
      /\ \A i \in 1..Len(Tail(q)) : Tail(q)[i] = q[i + 1]
  <2>1. Len(q) \in Nat \ {0} /\ Head(q) = q[1]
    BY EmptySeq
  <2>2. Head(q) \in S /\ Tail(q) \in Seq(S) /\ Len(Tail(q)) = Len(q) - 1
    BY HeadTailProperties
  <2>3. \A i \in 1..Len(Tail(q)) : Tail(q)[i] = q[i + 1]
    BY HeadTailProperties
  <2> QED
    BY <2>1, <2>2, <2>3
<1>2. /\ Range(q) = {q[i] : i \in 1..Len(q)}
      /\ Range(Tail(q)) = {Tail(q)[i] : i \in 1..Len(Tail(q))}
  <2>1. Range(q) = {q[i] : i \in 1..Len(q)}
    BY RangeEquality
  <2>2. Tail(q) \in Seq(S)
    BY <1>1
  <2>3. Range(Tail(q)) = {Tail(q)[i] : i \in 1..Len(Tail(q))}
    BY <2>2, RangeEquality
  <2> QED
    BY <2>1, <2>3
<1>3. Range(q) = Range(Tail(q)) \cup {Head(q)}
  <2>1. ASSUME NEW m \in Range(q) PROVE m \in Range(Tail(q)) \cup {Head(q)}
    <3>1. PICK i \in 1..Len(q) : m = q[i]
      BY <1>2
    <3>2. CASE i = 1
      BY <1>1, <3>1, <3>2
    <3>3. CASE i # 1
      <4>1. i - 1 \in 1..Len(Tail(q)) /\ Tail(q)[i - 1] = q[i]
        BY <1>1, <3>3
      <4> QED
        BY <1>2, <3>1, <4>1
    <3> QED
      BY <3>2, <3>3
  <2>2. ASSUME NEW m \in Range(Tail(q)) PROVE m \in Range(q)
    <3>1. PICK i \in 1..Len(Tail(q)) : m = Tail(q)[i]
      BY <1>2
    <3>2. i + 1 \in 1..Len(q) /\ m = q[i + 1]
      BY <1>1, <3>1
    <3> QED
      BY <1>2, <3>2
  <2>3. Head(q) \in Range(q)
    BY <1>1, <1>2
  <2> QED
    BY <2>1, <2>2, <2>3
<1>4. ASSUME InOrder(q) PROVE InOrder(Tail(q))
  BY <1>1, <1>4 DEF InOrder
<1>5. ASSUME InOrder(q), NEW m \in Range(Tail(q)) PROVE Before(Head(q), m)
  <2>1. PICK i \in 1..Len(Tail(q)) : m = Tail(q)[i]
    BY <1>2
  <2>2. 1 \in 1..Len(q) /\ i + 1 \in 1..Len(q) /\ 1 < i + 1 /\ m = q[i + 1]
    BY <1>1, <2>1
  <2> QED
    BY <1>1, <1>5, <2>2 DEF InOrder
<1> QED
  BY <1>1, <1>3, <1>4, <1>5

\* Three queues, one behind the other.
LEMMA ThreeQueues ==
    ASSUME NEW S, NEW q \in Seq(S), NEW r \in Seq(S), NEW t \in Seq(S)
    PROVE  /\ q \o r \o t \in Seq(S)
           /\ Range(q \o r \o t) = Range(q) \cup Range(r) \cup Range(t)
<1> DEFINE u == q \o r
<1>1. u \in Seq(S)
  BY ConcatProperties
<1>2. Range(u) = Range(q) \cup Range(r)
  BY RangeConcatenation
<1> HIDE DEF u
<1>3. u \o t \in Seq(S)
  BY <1>1, ConcatProperties
<1>4. Range(u \o t) = Range(u) \cup Range(t)
  BY <1>1, RangeConcatenation
<1> QED
  BY <1>2, <1>3, <1>4 DEF u

\* A message that comes after all of a queue may be put at its end.
LEMMA PutLast ==
    ASSUME NEW S, NEW q \in Seq(S), NEW m \in S
    PROVE  /\ Append(q, m) \in Seq(S)
           /\ Range(Append(q, m)) = Range(q) \cup {m}
           /\ InOrder(q) /\ (\A n \in Range(q) : Before(n, m)) => InOrder(Append(q, m))
<1>1. /\ Append(q, m) \in Seq(S) /\ Len(Append(q, m)) = Len(q) + 1 /\ Len(q) \in Nat
      /\ \A i \in 1..Len(q) : Append(q, m)[i] = q[i]
      /\ Append(q, m)[Len(q) + 1] = m
  BY AppendProperties, LenProperties
<1>2. /\ Range(q) = {q[i] : i \in 1..Len(q)}
      /\ Range(Append(q, m)) = {Append(q, m)[i] : i \in 1..Len(q) + 1}
  BY <1>1, RangeEquality
<1>3. Range(Append(q, m)) = Range(q) \cup {m}
  <2>1. ASSUME NEW n \in Range(Append(q, m)) PROVE n \in Range(q) \cup {m}
    <3>1. PICK i \in 1..Len(q) + 1 : n = Append(q, m)[i]
      BY <1>2
    <3>2. CASE i = Len(q) + 1
      BY <1>1, <3>1, <3>2
    <3>3. CASE i # Len(q) + 1
      <4>1. i \in 1..Len(q)
        BY <1>1, <3>3
      <4> QED
        BY <1>1, <1>2, <3>1, <4>1
    <3> QED
      BY <3>2, <3>3
  <2>2. ASSUME NEW n \in Range(q) PROVE n \in Range(Append(q, m))
    <3>1. PICK i \in 1..Len(q) : n = q[i]
      BY <1>2
    <3>2. i \in 1..Len(q) + 1 /\ n = Append(q, m)[i]
      BY <1>1, <3>1
    <3> QED
      BY <1>2, <3>2
  <2>3. m \in Range(Append(q, m))
    <3>1. Len(q) + 1 \in 1..Len(q) + 1
      BY <1>1
    <3> QED
      BY <1>1, <1>2, <3>1
  <2> QED
    BY <2>1, <2>2, <2>3
<1>4. ASSUME InOrder(q), \A n \in Range(q) : Before(n, m)
      PROVE  InOrder(Append(q, m))
  <2> SUFFICES ASSUME NEW i \in 1..Len(q) + 1, NEW j \in 1..Len(q) + 1, i < j
               PROVE  Before(Append(q, m)[i], Append(q, m)[j])
    BY <1>1 DEF InOrder
  <2>1. i \in 1..Len(q) /\ q[i] \in Range(q) /\ Append(q, m)[i] = q[i]
    BY <1>1, <1>2
  <2>2. CASE j = Len(q) + 1
    BY <1>1, <1>4, <2>1, <2>2
  <2>3. CASE j # Len(q) + 1
    <3>1. j \in 1..Len(q) /\ Append(q, m)[j] = q[j]
      BY <1>1, <2>3
    <3> QED
      BY <1>4, <2>1, <3>1 DEF InOrder
  <2> QED
    BY <2>2, <2>3
<1> QED
  BY <1>1, <1>3, <1>4

\* The empty list.
LEMMA ListOfNone == Range(<<>>) = {} /\ InOrder(<<>>)
<1> DEFINE q == <<>>
<1>1. q \in Seq({}) /\ Len(q) = 0 /\ 1..0 = {}
  OBVIOUS
<1> HIDE DEF q
<1>2. Range(q) = {q[i] : i \in 1..Len(q)}
  BY <1>1, RangeEquality
<1>3. Range(q) = {} /\ InOrder(q)
  BY <1>1, <1>2 DEF InOrder
<1> QED
  BY <1>3 DEF q

\* A list of one message.
LEMMA ListOfOne ==
    ASSUME NEW S, NEW a \in S
    PROVE  <<a>> \in Seq(S) /\ Range(<<a>>) = {a} /\ InOrder(<<a>>)
<1> DEFINE q == <<a>>
<1>1. q \in Seq(S) /\ Len(q) = 1 /\ 1..1 = {1} /\ q[1] = a
  OBVIOUS
<1> HIDE DEF q
<1>2. Range(q) = {q[i] : i \in 1..Len(q)}
  BY <1>1, RangeEquality
<1>3. Range(q) = {a} /\ InOrder(q)
  BY <1>1, <1>2 DEF InOrder
<1> QED
  BY <1>1, <1>3 DEF q

\* What the host lists in one go, a reply or all of a javascript: URL.
LEMMA ListOfFour ==
    ASSUME NEW S, NEW a \in S, NEW b \in S, NEW c \in S, NEW d \in S
    PROVE  /\ <<a, b, c, d>> \in Seq(S) /\ Range(<<a, b, c, d>>) = {a, b, c, d}
           /\ Before(a, b) /\ Before(a, c) /\ Before(a, d) /\ Before(b, c) /\ Before(b, d)
              /\ Before(c, d) => InOrder(<<a, b, c, d>>)
<1>1. <<a, b, c, d>> \in Seq(S)
  OBVIOUS
<1>2. Range(<<a, b, c, d>>) = {a, b, c, d}
  <2> DEFINE q == <<a, b, c, d>>
  <2>1. Range(q) = {q[i] : i \in 1..4}
    BY <1>1, RangeEquality
  <2>2. 1..4 = {1, 2, 3, 4} /\ q[1] = a /\ q[2] = b /\ q[3] = c /\ q[4] = d
    OBVIOUS
  <2> HIDE DEF q
  <2>3. Range(q) = {a, b, c, d}
    BY <2>1, <2>2
  <2> QED
    BY <2>3 DEF q
<1>3. ASSUME Before(a, b), Before(a, c), Before(a, d), Before(b, c), Before(b, d), Before(c, d)
      PROVE  InOrder(<<a, b, c, d>>)
  <2> DEFINE q == <<a, b, c, d>>
  <2>1. Len(q) = 4 /\ q[1] = a /\ q[2] = b /\ q[3] = c /\ q[4] = d
    OBVIOUS
  <2> HIDE DEF q
  <2>2. InOrder(q)
    BY <1>3, <2>1 DEF InOrder
  <2> QED
    BY <2>2 DEF q
<1> QED
  BY <1>1, <1>2, <1>3
-----------------------------------------------------------------------------
(* Lemmas about the messages.                                              *)

\* The fields of a message.
LEMMA MessageIs ==
    ASSUME NEW m \in Messages
    PROVE  /\ m = NoMsg <=> m.type = "none"
           /\ m.type # "none" => m.addr \in Addrs /\ m.id \in Streams
           /\ m.type \in {"none", "reply", "response", "data", "done"}
           /\ m.type = "response" => m.headers \in BOOLEAN
           /\ m.type = "data" => m.from \in 0..MaxTotal /\ m.len \in 0..MaxBytes
BY DEF Messages, NoMsg

\* The host builds messages.
LEMMA MessageBuilt ==
    ASSUME NEW q, q.addr \in Addrs, q.id \in Streams
    PROVE  /\ Msg("reply", q) \in Messages
           /\ \A h \in BOOLEAN : Response(q, h) \in Messages /\ AllDone(q, h) \in Messages
           /\ \A from \in 0..MaxTotal, n \in 0..MaxBytes : GotData(q, from, n) \in Messages
BY DEF Messages, Msg, Response, GotData, AllDone

\* The NPStreams that the player's memory holds.
NPStreams == [id : Streams \cup {Nobody}, url : BOOLEAN, headers : BOOLEAN,
              ndata : Offsets, notify : {"none", "flash", "dummy"}]

\* What the player does to an NPStream.
LEMMA StreamIs ==
    ASSUME NEW r \in NPStreams
    PROVE  /\ r.id \in Streams \cup {Nobody} /\ r.ndata \in Offsets
           /\ r.url \in BOOLEAN /\ r.headers \in BOOLEAN
           /\ [r EXCEPT !.url = TRUE] \in NPStreams
BY DEF NPStreams

LEMMA StreamAt ==
    ASSUME NEW r \in NPStreams, NEW n \in Offsets
    PROVE  [r EXCEPT !.ndata = n] \in NPStreams
BY DEF NPStreams

LEMMA StreamHeaders ==
    ASSUME NEW r \in NPStreams, NEW h, h \in BOOLEAN
    PROVE  [r EXCEPT !.headers = h, !.ndata = 0] \in NPStreams
<1> DEFINE r1 == [r EXCEPT !.headers = h]
<1>1. r1 \in NPStreams
  BY DEF NPStreams
<1>2. 0 \in Offsets
  BY DEF Offsets
<1> HIDE DEF r1
<1>3. [r1 EXCEPT !.ndata = 0] \in NPStreams
  BY <1>1, <1>2, StreamAt
<1> QED
  BY <1>3 DEF r1

\* No NPStream, and a new one.
LEMMA StreamFreed == NoStream \in NPStreams
<1>1. 0 \in Offsets
  BY DEF Offsets
<1> QED
  BY <1>1 DEF NoStream, NPStreams

LEMMA StreamNew ==
    ASSUME NEW i \in Streams, NEW notify \in {"none", "flash", "dummy"}
    PROVE  [NoStream EXCEPT !.id = i, !.notify = notify] \in NPStreams
<1> DEFINE r == NoStream
<1>1. r \in NPStreams
  BY StreamFreed
<1> HIDE DEF r
<1>2. [r EXCEPT !.id = i, !.notify = notify] \in NPStreams
  BY <1>1 DEF NPStreams
<1> QED
  BY <1>2 DEF r

\* The queues hold messages.
LEMMA QueuesTyped ==
    ASSUME TypeOK
    PROVE  /\ messages \in Seq(Messages) /\ toFood \in Seq(Messages)
           /\ todo \in Seq(Messages)
           /\ Range(messages) \subseteq Messages /\ Range(toFood) \subseteq Messages
           /\ Range(todo) \subseteq Messages /\ OnWay \subseteq Messages
BY RangeIs DEF TypeOK, OnWay

\* The run loop takes a message: the others come after it.
LEMMA HandleMoves ==
    ASSUME TypeOK, Ordered, NEW type, Handle(type), UNCHANGED <<toFood, todo>>
    PROVE  /\ messages' \in Seq(Messages) /\ cur' \in Messages
           /\ cur'.type = type /\ cur' \in Range(messages)
           /\ OnWay = OnWay' \cup {cur'} /\ cur' \in OnWay
           /\ Range(messages') \subseteq Range(messages)
           /\ \A m \in OnWay' : Before(cur', m)
           /\ Ordered'
<1>1. /\ messages # <<>> /\ messages' = Tail(messages) /\ cur' = Head(messages)
      /\ Head(messages).type = type
  BY DEF Handle
<1>2. /\ messages' \in Seq(Messages) /\ cur' \in Messages
      /\ cur' \in Range(messages)
      /\ Range(messages) = Range(messages') \cup {cur'}
      /\ InOrder(messages') /\ \A m \in Range(messages') : Before(cur', m)
  BY <1>1, QueuesTyped, TakeFirst DEF Ordered
<1>3. AllBefore(messages', toFood) /\ AllBefore(messages', todo)
  BY <1>2 DEF Ordered, AllBefore
<1>4. \A m \in Range(toFood) \cup Range(todo) : Before(cur', m)
  BY <1>2 DEF Ordered, AllBefore
<1> QED
  BY <1>1, <1>2, <1>3, <1>4 DEF Ordered, OnWay

\* The reader takes a message off the socket.
LEMMA ReceiveMoves ==
    ASSUME TypeOK, Ordered, Receive
    PROVE  /\ messages' \in Seq(Messages) /\ toFood' \in Seq(Messages) /\ todo' = todo
           /\ Ordered'
           /\ Head(toFood) \in OnWay
           /\ Head(toFood).type # "reply" =>
                 /\ OnWay' = OnWay /\ UNCHANGED answered
                 /\ Range(messages') = Range(messages) \cup {Head(toFood)}
           /\ Head(toFood).type = "reply" =>
                 /\ OnWay = OnWay' \cup {Head(toFood)} /\ answered'
                 /\ messages' = messages
                 /\ \A m \in OnWay' : m.type # "reply"
<1> DEFINE h == Head(toFood)
<1>1. toFood # <<>> /\ toFood' = Tail(toFood) /\ todo' = todo
  BY DEF Receive, hostVars, flashVars
<1>2. /\ toFood' \in Seq(Messages) /\ h \in Messages /\ h \in Range(toFood)
      /\ Range(toFood) = Range(toFood') \cup {h}
      /\ InOrder(toFood') /\ \A m \in Range(toFood') : Before(h, m)
  BY <1>1, QueuesTyped, TakeFirst DEF Ordered
<1>3. /\ AllBefore(messages, toFood') /\ AllBefore(toFood', todo)
      /\ \A m \in Range(messages) : Before(m, h)
      /\ \A m \in Range(todo) : Before(h, m)
  BY <1>2 DEF Ordered, AllBefore
<1>4. CASE h.type # "reply"
  <2>1. messages' = Append(messages, h) /\ UNCHANGED answered
    BY <1>4 DEF Receive
  <2>2. /\ messages' \in Seq(Messages) /\ InOrder(messages')
        /\ Range(messages') = Range(messages) \cup {h}
    BY <1>2, <1>3, <2>1, QueuesTyped, PutLast DEF Ordered
  <2>3. AllBefore(messages', toFood') /\ AllBefore(messages', todo)
    BY <1>2, <1>3, <2>2 DEF Ordered, AllBefore
  <2> QED
    BY <1>1, <1>2, <1>3, <1>4, <2>1, <2>2, <2>3 DEF Ordered, OnWay
<1>5. CASE h.type = "reply"
  <2>1. messages' = messages /\ answered'
    BY <1>5 DEF Receive
  <2>2. \A m \in Range(messages) \cup Range(toFood') \cup Range(todo) : m.type # "reply"
    BY <1>2, <1>3, <1>5 DEF Before
  <2> QED
    BY <1>1, <1>2, <1>3, <1>5, <2>1, <2>2, QueuesTyped DEF Ordered, OnWay
<1> QED
  BY <1>4, <1>5

\* The host's handler hands a message to the socket.
LEMMA HandlerSendsMoves ==
    ASSUME TypeOK, Ordered, HandlerSends
    PROVE  /\ toFood' \in Seq(Messages) /\ todo' \in Seq(Messages)
           /\ messages' = messages
           /\ OnWay' = OnWay /\ Range(todo') \subseteq Range(todo)
           /\ Ordered'
<1> DEFINE h == Head(todo)
<1>1. /\ todo # <<>> /\ todo' = Tail(todo) /\ messages' = messages
      /\ toFood' = Append(toFood, h)
  BY DEF HandlerSends
<1>2. /\ todo' \in Seq(Messages) /\ h \in Messages /\ h \in Range(todo)
      /\ Range(todo) = Range(todo') \cup {h}
      /\ InOrder(todo') /\ \A m \in Range(todo') : Before(h, m)
  BY <1>1, QueuesTyped, TakeFirst DEF Ordered
<1>3. /\ toFood' \in Seq(Messages) /\ Range(toFood') = Range(toFood) \cup {h}
      /\ InOrder(toFood')
  <2>1. \A m \in Range(toFood) : Before(m, h)
    BY <1>2 DEF Ordered, AllBefore
  <2> QED
    BY <1>1, <1>2, <2>1, QueuesTyped, PutLast DEF Ordered
<1>4. /\ AllBefore(messages, toFood') /\ AllBefore(messages, todo')
      /\ AllBefore(toFood', todo')
  BY <1>2, <1>3 DEF Ordered, AllBefore
<1> QED
  BY <1>1, <1>2, <1>3, <1>4 DEF Ordered, OnWay

\* A URLDude's message goes behind those sent and before what the handler
\* still has to send.
LEMMA DudePuts ==
    ASSUME TypeOK, Ordered, NEW m \in Messages,
           toFood' = Append(toFood, m), UNCHANGED <<messages, todo>>,
           \A n \in Range(messages) \cup Range(toFood) : Before(n, m),
           \A n \in Range(todo) : Before(m, n)
    PROVE  toFood' \in Seq(Messages) /\ OnWay' = OnWay \cup {m} /\ Ordered'
<1>1. /\ toFood' \in Seq(Messages) /\ Range(toFood') = Range(toFood) \cup {m}
      /\ InOrder(toFood')
  BY QueuesTyped, PutLast DEF Ordered
<1>2. AllBefore(messages, toFood') /\ AllBefore(toFood', todo)
  BY <1>1 DEF Ordered, AllBefore
<1> QED
  BY <1>1, <1>2 DEF Ordered, OnWay

\* The host's handler lists what it will send.
LEMMA HandlerLists ==
    ASSUME TypeOK, Ordered, todo = <<>>, UNCHANGED <<messages, toFood>>,
           InOrder(todo'),
           \A n \in OnWay, m \in Range(todo') : Before(n, m)
    PROVE  OnWay' = OnWay \cup Range(todo') /\ Ordered'
<1>1. Range(todo) = {}
  BY ListOfNone
<1>2. OnWay = Range(messages) \cup Range(toFood)
  BY <1>1 DEF OnWay
<1> QED
  BY <1>2 DEF OnWay, Ordered, AllBefore
-----------------------------------------------------------------------------
(* Types.                                                                  *)

\* The initial state satisfies the invariant.
LEMMA InvInit == Init => UrlInv
<1> SUFFICES ASSUME Init PROVE UrlInv
  OBVIOUS
<1> USE BoundsAssumption, AddrsAssumption DEF Init, NoStream
<1>1. OnWay = {} /\ Range(messages) = {} /\ Range(toFood) = {} /\ Range(todo) = {}
  BY ListOfNone DEF OnWay
<1>2. TypeOK
  <2>1. 0 \in 0..MaxTotal /\ 0 \in 0..MaxStreams /\ 0 \in 0..MaxBytes
    OBVIOUS
  <2>2. mem \in [Addrs -> [id : Streams \cup {Nobody}, url : BOOLEAN, headers : BOOLEAN,
                          ndata : Offsets, notify : {"none", "flash", "dummy"}]]
    <3>1. 0 \in Offsets
      BY DEF Offsets
    <3> QED
      BY <3>1 DEF Nobody
  <2>3. cur \in Messages
    BY DEF Messages
  <2>4. messages \in Seq(Messages) /\ toFood \in Seq(Messages) /\ todo \in Seq(Messages)
    OBVIOUS
  <2>5. dude \in [Streams -> [addr : Addrs \cup {Nobody}, id : Streams,
                             state : {"none", "started", "open", "ended"}]]
    OBVIOUS
  <2>6. given \in [Streams -> Seq(Offsets \X (1..MaxTotal))]
    OBVIOUS
  <2>7. gave \in [Streams -> 0..MaxTotal]
    BY <2>1
  <2>8. remain \in Int /\ short \subseteq Streams
    OBVIOUS
  <2> QED
    BY <2>1, <2>2, <2>3, <2>4, <2>5, <2>6, <2>7, <2>8 DEF TypeOK, NoRequest
<1>3. Homes /\ Calls
  BY <1>1 DEF Homes, Calls, Nobody
<1>4. Hand
  BY <1>1 DEF Hand, Ending
<1>5. Belonging /\ Responses
  BY <1>1 DEF Belonging, Responses
<1>6. Ordered
  BY <1>1 DEF Ordered, InOrder, AllBefore
<1>7. Dudes
  BY <1>1 DEF Dudes, Live, Unborn
<1>8. Given
  BY DEF Given, BytesAtTheirOffset
<1>9. Bytes
  BY <1>1 DEF Bytes, Nobody
<1> QED
  BY <1>2, <1>3, <1>4, <1>5, <1>6, <1>7, <1>8, <1>9 DEF UrlInv

\* A step of a URLDude keeps the types.
LEMMA DudeTypes ==
    ASSUME TypeOK, NEW s \in Streams, NEW m \in Messages, NEW state \in {"open", "ended"},
           DudeSends(s, m, state), gave' \in [Streams -> 0..MaxTotal], whole' \subseteq Streams
    PROVE  TypeOK'
<1>1. dude' \in [Streams -> [addr : Addrs \cup {Nobody}, id : Streams,
                            state : {"none", "started", "open", "ended"}]]
  <2>1. dude' = [dude EXCEPT ![s].state = state]
    BY DEF DudeSends
  <2>2. dude \in [Streams -> [addr : Addrs \cup {Nobody}, id : Streams,
                             state : {"none", "started", "open", "ended"}]]
    BY DEF TypeOK
  <2>3. [dude[s] EXCEPT !.state = state]
           \in [addr : Addrs \cup {Nobody}, id : Streams,
               state : {"none", "started", "open", "ended"}]
    BY <2>2
  <2>4. dude' = [dude EXCEPT ![s] = [dude[s] EXCEPT !.state = state]]
    BY <2>1, <2>2
  <2> QED
    BY <2>2, <2>3, <2>4
<1>2. toFood' \in Seq(Messages)
  BY QueuesTyped, PutLast DEF DudeSends
<1> QED
  BY <1>1, <1>2 DEF DudeSends, TypeOK, callVars, handlerVars, flashVars

\* What a URLDude knows of its stream.
LEMMA DudeIs ==
    ASSUME TypeOK, Dudes, NEW s \in Streams, Live(s)
    PROVE  /\ dude[s].addr \in Addrs /\ dude[s].id = s
           /\ mem[dude[s].addr].id = s /\ s \notin whole /\ s <= opened
           /\ phase[s] \in {"asked", "open"}
<1>1. opened \in Nat /\ s \in Nat
  BY BoundsAssumption DEF TypeOK, Streams
<1> QED
  BY <1>1 DEF Dudes, Unborn, Live

\* What the handler knows of the message in hand.
LEMMA HandIs ==
    ASSUME TypeOK, Homes, Hand, stage # "none"
    PROVE  /\ cur.addr \in Addrs /\ cur.id \in Streams /\ cur.id <= opened
           /\ mem[cur.addr].id = cur.id /\ cur.addr # call
           /\ cur.type = "data" => cur.from \in 0..MaxTotal /\ cur.len \in 0..MaxBytes
BY MessageIs DEF TypeOK, Homes, Hand

\* Bytes that Flash is offered.
LEMMA OfferedIs ==
    ASSUME UrlInv, stage = "write"
    PROVE  /\ cur.len \in Nat /\ mem[cur.addr].ndata \in Int
           /\ Offered = [k \in 1..cur.len |-> <<mem[cur.addr].ndata + k, cur.from + k>>]
           /\ Offered \in Seq(Offsets \X (1..MaxTotal))
           /\ Len(Offered) = cur.len
           /\ \A ret \in -1..cur.len : SubSeq(Offered, 1, ret) \in Seq(Offsets \X (1..MaxTotal))
           /\ SubSeq(Offered, 1, cur.len) = Offered
<1>1. cur.addr \in Addrs /\ cur.id \in Streams /\ cur.type = "data"
  BY HandIs DEF UrlInv, Hand
<1>2. /\ cur.from \in 0..MaxTotal /\ cur.len \in 0..MaxBytes /\ gave[cur.id] \in 0..MaxTotal
      /\ mem[cur.addr].ndata \in Int /\ cur.from + cur.len <= gave[cur.id]
  BY <1>1, HandIs DEF UrlInv, TypeOK, Hand, Offsets
<1>3. cur.len \in Nat /\ \A k \in 1..cur.len : cur.from + k \in 1..MaxTotal
  BY <1>2, BoundsAssumption
<1>4. Offered = [k \in 1..cur.len |-> <<mem[cur.addr].ndata + k, cur.from + k>>]
  BY DEF Offered
<1> DEFINE n == mem[cur.addr].ndata
           T == Offsets \X (1..MaxTotal)
           o == Offered
           c == cur.len
<1>5. n \in Int
  BY <1>2
<1> HIDE DEF n
<1>6. \A k \in 1..cur.len : n + k \in Int
  BY <1>3, <1>5
<1>7. Offered \in [1..cur.len -> T]
  BY <1>3, <1>4, <1>6 DEF n, Offsets
<1>8. c \in Nat /\ o \in [1..c -> T]
  BY <1>3, <1>7
<1> HIDE DEF T, o, c
<1>9. o \in Seq(T)
  BY <1>8, SeqDef
<1>10. Len(o) = c
  BY <1>8, <1>9, LenProperties
<1>11. \A ret \in -1..c : SubSeq(o, 1, ret) \in Seq(T)
  <2> TAKE ret \in -1..c
  <2>1. \A i \in 1..ret : o[i] \in T
    BY <1>8
  <2> QED
    BY <1>8, <2>1, SubSeqProperties
<1>12. SubSeq(o, 1, c) = o
  BY <1>9, <1>10, SubSeqFull
<1> QED
  BY <1>2, <1>3, <1>4, <1>9, <1>10, <1>11, <1>12 DEF T, o, c

\* While Flash has taken all it was offered, the bytes are in place.
LEMMA InPlace ==
    ASSUME UrlInv, stage = "write", cur.id \notin short
    PROVE  /\ cur.from = mem[cur.addr].ndata
           /\ mem[cur.addr].ndata = Len(given[cur.id])
           /\ mem[cur.addr].ndata \in Nat /\ remain = cur.len /\ remain \in Nat
           /\ mem[cur.addr].ndata + remain <= gave[cur.id]
           /\ Offered = [k \in 1..remain |-> <<cur.from + k, cur.from + k>>]
<1>1. cur.addr \in Addrs /\ cur.id \in Streams /\ mem[cur.addr].id = cur.id /\ cur.type = "data"
  BY HandIs DEF UrlInv, Hand
<1>2. mem[cur.addr].id # Nobody
  BY <1>1 DEF Streams, Nobody
<1>3. cur.from \in Nat /\ cur.len \in Nat
  BY <1>1, HandIs, BoundsAssumption DEF UrlInv
<1>4. cur.from = mem[cur.addr].ndata /\ mem[cur.addr].ndata = Len(given[cur.id])
  BY <1>1, <1>2 DEF UrlInv, Bytes
<1>5. remain = cur.len /\ cur.from + cur.len <= gave[cur.id]
  BY DEF UrlInv, Hand
<1> QED
  BY <1>3, <1>4, <1>5, OfferedIs

\* Each step keeps the types.
LEMMA TypesStep ==
    ASSUME UrlInv, Next
    PROVE  TypeOK'
<1> USE BoundsAssumption, AddrsAssumption
    DEF callVars, handlerVars, pipeVars, hostVars, flashVars
<1>i. TypeOK /\ Homes /\ Calls /\ Hand /\ Belonging /\ Ordered /\ Dudes
  BY DEF UrlInv
<1>m. mem \in [Addrs -> NPStreams]
  BY <1>i DEF TypeOK, NPStreams
<1>1. ASSUME NEW a \in Addrs, NEW kind \in Kinds, NEW notify \in {"none", "flash", "dummy"},
             Ask(a, kind, notify), started' \in BOOLEAN
      PROVE  TypeOK'
  <2>1. opened + 1 \in Streams /\ opened + 1 \in 0..MaxStreams
    <3>1. opened \in 0..MaxStreams /\ opened < MaxStreams
      BY <1>1, <1>i DEF Ask, TypeOK
    <3> QED
      BY <3>1 DEF Streams
  <2>2. mem' \in [Addrs -> NPStreams]
    <3>0. PICK i \in Streams : i = opened + 1
      BY <2>1
    <3> DEFINE r == [NoStream EXCEPT !.id = i, !.notify = notify]
    <3>1. r \in NPStreams
      BY StreamNew, Zenon
    <3>2. mem' = [mem EXCEPT ![a] = r]
      BY <1>1, <3>0 DEF Ask
    <3> HIDE DEF r
    <3> QED
      BY <1>m, <3>1, <3>2
  <2>3. /\ request' \in [addr : Addrs, id : Streams, kind : Kinds]
        /\ nested' \in BOOLEAN /\ loads' \subseteq Streams
    BY <1>1, <1>i, <2>1 DEF Ask, TypeOK
  <2>4. phase' \in [Streams -> {"none", "asked", "open", "closed", "notified"}]
    BY <1>1, <1>i, <2>1 DEF Ask, TypeOK
  <2> QED
    BY <1>1, <1>i, <2>1, <2>2, <2>3, <2>4 DEF Ask, TypeOK, NPStreams
<1>2. CASE Later
  <2>1. PICK a \in Addrs : Ask(a, "load", "dummy")
    BY <1>2 DEF Later
  <2> QED
    BY <1>1, <1>2, <2>1 DEF Later, Kinds
<1>3. CASE FlashAsks
  <2>1. PICK a \in Addrs, kind \in Kinds, notify \in {"none", "flash"} : Ask(a, kind, notify)
    BY <1>3 DEF FlashAsks
  <2>2. started' \in BOOLEAN
    BY <1>3, <1>i DEF FlashAsks, TypeOK
  <2> QED
    BY <1>1, <2>1, <2>2
<1>4. CASE CallReturns
  <2>1. mem' \in [Addrs -> NPStreams]
    BY <1>4, <1>m, StreamIs DEF CallReturns
  <2> QED
    BY <1>4, <1>i, <2>1 DEF CallReturns, TypeOK, NPStreams
<1>5. CASE Receive
  <2>1. messages' \in Seq(Messages) /\ toFood' \in Seq(Messages) /\ answered' \in BOOLEAN
    BY <1>5, <1>i, ReceiveMoves DEF TypeOK
  <2> QED
    BY <1>5, <1>i, <2>1 DEF Receive, TypeOK
<1>6. CASE ConnectionResponse
  <2>1. messages' \in Seq(Messages) /\ cur' \in Messages /\ cur'.type = "response"
    BY <1>6, <1>i, HandleMoves DEF ConnectionResponse
  <2>2. cur'.addr \in Addrs /\ cur'.id \in Streams /\ cur'.headers \in BOOLEAN
    BY <2>1, MessageIs
  <2>3. mem' \in [Addrs -> NPStreams]
    <3>1. mem[cur'.addr] \in NPStreams
      BY <1>m, <2>2
    <3>2. [mem[cur'.addr] EXCEPT !.headers = cur'.headers, !.ndata = 0] \in NPStreams
      BY <2>2, <3>1, StreamHeaders, Zenon
    <3> QED
      BY <1>6, <1>m, <2>2, <3>2 DEF ConnectionResponse
  <2>4. phase' \in [Streams -> {"none", "asked", "open", "closed", "notified"}]
    BY <1>6, <1>i, <2>2 DEF ConnectionResponse, TypeOK
  <2>5. stage' \in {"newstream", "exited"}
    BY <1>6 DEF ConnectionResponse
  <2> QED
    BY <1>6, <1>i, <2>1, <2>3, <2>4, <2>5 DEF ConnectionResponse, TypeOK, NPStreams
<1>7. CASE NewStreamReturns
  <2>1. stage' \in {"none", "exited"} /\ cur' \in Messages /\ messages' = messages
    BY <1>7, <1>i DEF NewStreamReturns, Return, Abort, Messages, TypeOK
  <2> QED
    BY <1>7, <1>i, <2>1 DEF NewStreamReturns, TypeOK
<1>8. CASE ConnectionGotData
  <2>1. messages' \in Seq(Messages) /\ cur' \in Messages /\ cur'.type = "data"
    BY <1>8, <1>i, HandleMoves DEF ConnectionGotData
  <2>2. remain' \in Int /\ stage' \in {"write", "exited"}
    <3>1. cur'.len \in Int
      BY <2>1, MessageIs
    <3> QED
      BY <1>8, <3>1 DEF ConnectionGotData
  <2> QED
    BY <1>8, <1>i, <2>1, <2>2 DEF ConnectionGotData, TypeOK
<1>9. CASE WriteReturns
  <2>1. cur.addr \in Addrs /\ cur.id \in Streams
    BY <1>9, <1>i, HandIs DEF WriteReturns
  <2>2. PICK ret \in -1..cur.len :
           /\ given' = [given EXCEPT ![cur.id] = @ \o SubSeq(Offered, 1, ret)]
           /\ short' \in {short, short \cup {cur.id}}
           /\ mem' = [mem EXCEPT ![cur.addr].ndata = @ + ret]
           /\ remain' = remain - ret
    BY <1>9 DEF WriteReturns, Takes
  <2>3. /\ cur.len \in Nat /\ mem[cur.addr].ndata + ret \in Int /\ remain' \in Int
        /\ SubSeq(Offered, 1, ret) \in Seq(Offsets \X (1..MaxTotal))
    <3>1. /\ cur.len \in Nat /\ mem[cur.addr].ndata \in Int
          /\ SubSeq(Offered, 1, ret) \in Seq(Offsets \X (1..MaxTotal))
      BY <1>9, <2>2, OfferedIs DEF WriteReturns
    <3>2. remain \in Int
      BY <1>i DEF TypeOK
    <3>3. ret \in Int
      BY <3>1
    <3> QED
      BY <2>2, <3>1, <3>2, <3>3
  <2>4. given' \in [Streams -> Seq(Offsets \X (1..MaxTotal))] /\ short' \subseteq Streams
    <3>1. given[cur.id] \o SubSeq(Offered, 1, ret) \in Seq(Offsets \X (1..MaxTotal))
      BY <1>i, <2>1, <2>3, ConcatProperties DEF TypeOK
    <3> QED
      BY <1>i, <2>1, <2>2, <3>1 DEF TypeOK
  <2>5. mem' \in [Addrs -> NPStreams]
    <3>1. [mem[cur.addr] EXCEPT !.ndata = mem[cur.addr].ndata + ret] \in NPStreams
      <4>1. mem[cur.addr] \in NPStreams /\ mem[cur.addr].ndata + ret \in Offsets
        BY <1>m, <2>1, <2>3 DEF Offsets
      <4> QED
        BY <4>1, StreamAt
    <3>2. mem' = [mem EXCEPT ![cur.addr] =
                     [mem[cur.addr] EXCEPT !.ndata = mem[cur.addr].ndata + ret]]
      BY <2>2
    <3> QED
      BY <1>m, <2>1, <3>1, <3>2
  <2>6. stage' \in {"none", "write"} /\ cur' \in Messages /\ messages' = messages
    BY <1>9, <1>i DEF WriteReturns, Return, Messages, TypeOK
  <2> QED
    BY <1>9, <1>i, <2>3, <2>4, <2>5, <2>6 DEF WriteReturns, TypeOK, NPStreams
<1>10. CASE ConnectionAllDone
  <2>1. messages' \in Seq(Messages) /\ cur' \in Messages
    BY <1>10, <1>i, HandleMoves DEF ConnectionAllDone
  <2>2. /\ phase' \in [Streams -> {"none", "asked", "open", "closed", "notified"}]
        /\ stage' \in {"destroystream", "exited"}
    BY <1>10, <1>i DEF ConnectionAllDone, TypeOK
  <2> QED
    BY <1>10, <1>i, <2>1, <2>2 DEF ConnectionAllDone, TypeOK
<1>11. CASE DestroyStreamReturns
  <2>2. /\ phase' \in [Streams -> {"none", "asked", "open", "closed", "notified"}]
        /\ stage' \in {"urlnotify", "free", "exited"}
    BY <1>11, <1>i DEF DestroyStreamReturns, TypeOK
  <2> QED
    BY <1>11, <1>i, <2>2 DEF DestroyStreamReturns, TypeOK
<1>12. CASE UrlNotifyReturns
  BY <1>12, <1>i DEF UrlNotifyReturns, TypeOK
<1>13. CASE Free
  <2>1. NoStream \in NPStreams
    BY StreamFreed
  <2>2. mem' \in [Addrs -> NPStreams]
    BY <1>13, <1>m, <2>1 DEF Free
  <2>3. stage' = "none" /\ cur' \in Messages /\ messages' = messages
    BY <1>13 DEF Free, Return, Messages
  <2> QED
    BY <1>13, <1>i, <2>2, <2>3 DEF Free, TypeOK, NPStreams
<1>14. CASE NewConnection
  <2>1. request \in [addr : Addrs, id : Streams, kind : Kinds] /\ request' = NoRequest
    BY <1>14, <1>i DEF NewConnection, TypeOK, NoRequest
  <2>2. /\ dude' \in [Streams -> [addr : Addrs \cup {Nobody}, id : Streams,
                            state : {"none", "started", "open", "ended"}]]
        /\ gave' \in [Streams -> 0..MaxTotal] /\ whole' \subseteq Streams
    <3>1. CASE request.kind \in {"frame", "load"}
      <4>1. /\ dude[request.id] \in [addr : Addrs \cup {Nobody}, id : Streams,
                                    state : {"none", "started", "open", "ended"}]
            /\ request.id \in Streams /\ request.addr \in Addrs
        BY <1>i, <2>1 DEF TypeOK
      <4>2. \/ dude' = dude
            \/ dude' = [dude EXCEPT ![request.id] =
                           [dude[request.id] EXCEPT !.addr = request.addr, !.state = "started"]]
        <5>1. CASE request.kind = "frame"
          BY <1>14, <5>1 DEF NewConnection
        <5>2. CASE request.kind = "load"
          <6>1. dude' = [dude EXCEPT ![request.id].addr = request.addr,
                                     ![request.id].state = "started"]
            BY <1>14, <5>2 DEF NewConnection
          <6> QED
            BY <1>i, <4>1, <6>1 DEF TypeOK
        <5> QED
          BY <3>1, <5>1, <5>2
      <4>3. [dude[request.id] EXCEPT !.addr = request.addr, !.state = "started"] \in
               [addr : Addrs \cup {Nobody}, id : Streams,
                state : {"none", "started", "open", "ended"}]
        BY <4>1
      <4>4. dude' \in [Streams -> [addr : Addrs \cup {Nobody}, id : Streams,
                                  state : {"none", "started", "open", "ended"}]]
        BY <1>i, <4>1, <4>2, <4>3 DEF TypeOK
      <4>5. UNCHANGED <<gave, whole>>
        BY <1>14, <3>1 DEF NewConnection
      <4> QED
        BY <1>i, <4>4, <4>5 DEF TypeOK
    <3>2. CASE request.kind = "script"
      <4>1. PICK n \in 0..MaxBytes :
               /\ n <= MaxTotal
               /\ gave' = [gave EXCEPT ![request.id] = n]
               /\ whole' = whole \cup {request.id}
        BY <1>14, <3>2 DEF NewConnection
      <4>2. dude' = dude
        BY <1>14, <3>2 DEF NewConnection
      <4>3. n \in 0..MaxTotal
        BY <4>1
      <4> QED
        BY <1>i, <2>1, <4>1, <4>2, <4>3 DEF TypeOK
    <3> QED
      BY <2>1, <3>1, <3>2 DEF Kinds
  <2>3. Msg("reply", request) \in Messages
    BY <2>1, MessageBuilt
  <2>4. todo' \in Seq(Messages)
    <3>1. CASE request.kind \in {"frame", "load"}
      <4>1. todo' = <<Msg("reply", request)>>
        BY <1>14, <3>1 DEF NewConnection
      <4> QED
        BY <2>3, <4>1, ListOfOne
    <3>2. CASE request.kind = "script"
      <4>1. PICK n \in 0..MaxBytes :
               /\ n <= MaxTotal
               /\ todo' = <<Response(request, FALSE), GotData(request, 0, n),
                            AllDone(request, TRUE), Msg("reply", request)>>
        BY <1>14, <3>2 DEF NewConnection
      <4>2. /\ Response(request, FALSE) \in Messages /\ GotData(request, 0, n) \in Messages
            /\ AllDone(request, TRUE) \in Messages
        BY <2>1, <4>1, MessageBuilt, 0 \in 0..MaxTotal
      <4> QED
        BY <2>3, <4>1, <4>2, ListOfFour
    <3> QED
      BY <2>1, <3>1, <3>2 DEF Kinds
  <2> QED
    BY <1>14, <1>i, <2>1, <2>2, <2>4 DEF NewConnection, TypeOK, NoRequest
<1>15. CASE HandlerSends
  <2>1. todo' \in Seq(Messages) /\ toFood' \in Seq(Messages)
    BY <1>15, <1>i, HandlerSendsMoves
  <2> QED
    BY <1>15, <1>i, <2>1 DEF HandlerSends, TypeOK
<1>16. ASSUME NEW s \in Streams, URLDude(s)
       PROVE  TypeOK'
  <2>1. Live(s)
    BY <1>16 DEF URLDude, DidReceiveResponse, DidReceiveData, DidFinishLoading,
       DidFailWithError, Live
  <2>2. dude[s].addr \in Addrs /\ dude[s].id \in Streams
    BY <1>i, <2>1, DudeIs
  <2>3. gave \in [Streams -> 0..MaxTotal] /\ whole \subseteq Streams
    BY <1>i DEF TypeOK
  <2>4. CASE DidReceiveResponse(s)
    BY <1>i, <2>2, <2>3, <2>4, MessageBuilt, DudeTypes DEF DidReceiveResponse
  <2>5. CASE DidReceiveData(s)
    <3>1. PICK n \in 1..MaxBytes :
              /\ gave[s] + n <= MaxTotal
              /\ gave' = [gave EXCEPT ![s] = @ + n]
              /\ DudeSends(s, GotData(dude[s], gave[s], n), "open")
      BY <2>5 DEF DidReceiveData
    <3>2. gave[s] \in 0..MaxTotal /\ n \in 0..MaxBytes /\ gave[s] + n \in 0..MaxTotal
      BY <2>3, <3>1
    <3>3. GotData(dude[s], gave[s], n) \in Messages
      BY <2>2, <3>2, MessageBuilt
    <3>4. gave' \in [Streams -> 0..MaxTotal] /\ whole' \subseteq Streams
      BY <2>3, <2>5, <3>1, <3>2 DEF DidReceiveData
    <3> QED
      BY <1>i, <3>1, <3>3, <3>4, DudeTypes
  <2>6. CASE DidFinishLoading(s)
    BY <1>i, <2>2, <2>3, <2>6, MessageBuilt, DudeTypes DEF DidFinishLoading
  <2>7. CASE DidFailWithError(s)
    BY <1>i, <2>2, <2>3, <2>7, MessageBuilt, DudeTypes DEF DidFailWithError
  <2> QED
    BY <1>16, <2>4, <2>5, <2>6, <2>7 DEF URLDude
<1> QED
  BY <1>2, <1>3, <1>4, <1>5, <1>6, <1>7, <1>8, <1>9, <1>10, <1>11, <1>12, <1>13,
     <1>14, <1>15, <1>16 DEF Next, Player
-----------------------------------------------------------------------------
(* The steps keep the rest of the invariant: first the player's.           *)

Rest == /\ Homes /\ Calls /\ Hand /\ Belonging /\ Ordered
        /\ Responses /\ Dudes /\ Given /\ Bytes

\* What is known of a message under way.
LEMMA OnWayIs ==
    ASSUME TypeOK, Homes, Belonging, NEW m \in OnWay
    PROVE  /\ m \in Messages /\ m # NoMsg /\ m.type # "none"
           /\ m.addr \in Addrs /\ m.id \in Streams /\ m.id <= opened
           /\ mem[m.addr].id = m.id
           /\ m.type = "data" => m.from \in Nat /\ m.len \in Nat
BY QueuesTyped, MessageIs, BoundsAssumption DEF Belonging, Belongs, Homes

\* A new stream, whose messages nobody has sent yet.
LEMMA AskKeeps ==
    ASSUME UrlInv, NEW a \in Addrs, NEW kind \in Kinds,
           NEW notify \in {"none", "flash", "dummy"}, Ask(a, kind, notify)
    PROVE  Rest'
<1> DEFINE s == opened + 1
<1> USE BoundsAssumption, AddrsAssumption DEF Nobody
<1>i. /\ TypeOK /\ Homes /\ Calls /\ Hand /\ Belonging /\ Ordered /\ Responses
      /\ Dudes /\ Given /\ Bytes
  BY DEF UrlInv
<1>1. /\ opened \in Nat /\ s \in Streams /\ s # Nobody /\ opened < s /\ Unborn(s)
      /\ opened' = s
  <2>1. opened \in 0..MaxStreams /\ opened < MaxStreams /\ opened' = s
    BY <1>i DEF Ask, TypeOK
  <2>2. opened \in Nat /\ s \in Streams /\ s # Nobody /\ opened < s
    BY <2>1 DEF Streams
  <2> QED
    BY <1>i, <2>1, <2>2 DEF Dudes
<1>2. /\ mem[a].id = Nobody /\ mem'[a].id = s /\ mem'[a].ndata = 0 /\ ~mem'[a].headers
      /\ \A b \in Addrs : b # a => mem'[b] = mem[b]
  BY <1>i DEF Ask, TypeOK, NoStream
<1>3. phase'[s] = "asked" /\ \A t \in Streams : t # s => phase'[t] = phase[t]
  BY <1>1, <1>i DEF Ask, TypeOK
<1>4. /\ call = Nobody /\ call' = a /\ a # Nobody
      /\ request' = [addr |-> a, id |-> s, kind |-> kind]
      /\ UNCHANGED <<answered, stage, cur, remain, messages, toFood, todo, dude, gave, whole, given, short>>
  BY DEF Ask, handlerVars, pipeVars, flashVars
<1>5. /\ OnWay' = OnWay /\ ~answered /\ request = NoRequest
      /\ \A m \in OnWay : /\ m.type # "reply" /\ m.addr \in Addrs /\ m.addr # a
                          /\ m.id \in Streams /\ m.id # s
  <2>1. OnWay' = OnWay /\ ~answered /\ request = NoRequest /\ \A m \in OnWay : m.type # "reply"
    BY <1>4, <1>i DEF OnWay, Calls
  <2>2. ASSUME NEW m \in OnWay
        PROVE  m.addr \in Addrs /\ m.addr # a /\ m.id \in Streams /\ m.id # s
    <3>1. m.addr \in Addrs /\ m.id \in Streams /\ m.id <= opened /\ mem[m.addr].id = m.id
      BY <1>i, OnWayIs
    <3> QED
      BY <1>1, <1>2, <3>1 DEF Streams
  <2> QED
    BY <2>1, <2>2
<1>6. stage # "none" => /\ cur.addr \in Addrs /\ cur.addr # a
                        /\ cur.id \in Streams /\ cur.id # s
  BY <1>1, <1>2, <1>i, HandIs DEF Streams
<1>7. \A b \in Addrs : mem[b].id # s /\ mem[b].id \in Nat
  <2>1. \A b \in Addrs : mem[b].id \in Streams \cup {Nobody} /\ mem[b].id <= opened
    BY <1>i DEF Homes, TypeOK
  <2> QED
    BY <1>1, <2>1 DEF Streams
<1> HIDE DEF s
<1>10. Homes'
  <2>1. \A b \in Addrs : mem'[b].id <= opened'
    BY <1>1, <1>2, <1>7, <1>i DEF Homes, s
  <2>2. \A b, c \in Addrs : mem'[b].id # Nobody /\ mem'[b].id = mem'[c].id => b = c
    BY <1>2, <1>7, <1>i DEF Homes
  <2>3. \A b \in Addrs : mem'[b].id # Nobody /\ b # call' => mem'[b].url
    BY <1>2, <1>4, <1>i DEF Homes, TypeOK
  <2>4. \A b \in Addrs : mem'[b].id # Nobody /\ mem'[b].headers => phase'[mem'[b].id] # "asked"
    <3> SUFFICES ASSUME NEW b \in Addrs, mem'[b].id # Nobody, mem'[b].headers
                 PROVE  phase'[mem'[b].id] # "asked"
      OBVIOUS
    <3>1. mem'[b] = mem[b] /\ mem[b].id \in Streams /\ mem[b].id # s
      BY <1>2, <1>7, <1>i DEF TypeOK
    <3> QED
      BY <1>3, <1>i, <3>1 DEF Homes
  <2> QED
    BY <2>1, <2>2, <2>3, <2>4 DEF Homes
<1>11. Calls'
  BY <1>1, <1>2, <1>3, <1>4, <1>5, <1>i DEF Calls, Unborn, NoRequest
<1>12. Hand'
  BY <1>1, <1>2, <1>3, <1>4, <1>5, <1>6, <1>i DEF Hand, Ending, Live
<1>13. Belonging'
  BY <1>1, <1>2, <1>3, <1>4, <1>5, <1>i DEF Belonging, Belongs, Live
<1>14. Ordered' /\ Responses'
  BY <1>1, <1>3, <1>4, <1>5, <1>i DEF Ordered, InOrder, AllBefore, Responses, Shown, Unborn
<1>15. Dudes'
  <2>1. ASSUME NEW t \in Streams
        PROVE  /\ dude'[t].id = t
               /\ Live(t)' => /\ dude'[t].addr \in Addrs /\ mem'[dude'[t].addr].id = t
                              /\ t \notin whole' /\ phase'[t] \in {"asked", "open"}
               /\ dude'[t].state = "started" => phase'[t] = "asked" /\ gave'[t] = 0
               /\ opened' < t => Unborn(t)'
    <3>1. CASE t = s
      <4>1. Unborn(t) /\ ~(opened' < t)
        BY <1>1, <3>1 DEF Streams
      <4> QED
        BY <1>4, <1>i, <4>1 DEF Dudes, Live, Unborn
    <3>2. CASE t # s
      <4>1. opened' < t => opened < t
        BY <1>1, <3>2 DEF s, Streams
      <4>2. /\ phase'[t] = phase[t]
            /\ UNCHANGED <<dude, gave, given, short, whole>>
        BY <1>3, <1>4, <3>2
      <4>3. Live(t) => mem'[dude[t].addr].id = t
        BY <1>2, <1>i, DudeIs DEF Streams
      <4> QED
        BY <1>i, <4>1, <4>2, <4>3 DEF Dudes, Live, Unborn
    <3> QED
      BY <3>1, <3>2
  <2> QED
    BY <1>4, <1>i, <2>1 DEF Dudes
<1>16. Given'
  BY <1>1, <1>3, <1>4, <1>i DEF Given, BytesAtTheirOffset, Unborn
<1>17. Bytes'
  BY <1>1, <1>2, <1>4, <1>5, <1>6, <1>i DEF Bytes, Taken, Carried, Unborn
<1> QED
  BY <1>10, <1>11, <1>12, <1>13, <1>14, <1>15, <1>16, <1>17 DEF Rest

\* The stub of the call gets its answer: the stream has its url.
LEMMA CallReturnsKeeps ==
    ASSUME UrlInv, CallReturns
    PROVE  Rest'
<1> USE AddrsAssumption DEF Nobody
<1>i. /\ TypeOK /\ Homes /\ Calls /\ Hand /\ Belonging /\ Ordered /\ Responses
      /\ Dudes /\ Given /\ Bytes
  BY DEF UrlInv
<1>1. /\ call # Nobody /\ answered /\ call' = Nobody /\ answered' = FALSE /\ call \in Addrs
      /\ UNCHANGED <<opened, stage, cur, remain, messages, toFood, request, todo, dude,
                     gave, whole, given, short, phase>>
  BY <1>i DEF CallReturns, handlerVars, pipeVars, hostVars, flashVars, TypeOK
<1>2. \A a \in Addrs : /\ mem'[a].id = mem[a].id /\ mem'[a].ndata = mem[a].ndata
                       /\ mem'[a].headers = mem[a].headers
                       /\ mem[a].url => mem'[a].url
                       /\ a = call => mem'[a].url
  BY <1>1, <1>i DEF CallReturns, TypeOK
<1>3. OnWay' = OnWay /\ request = NoRequest /\ \A m \in OnWay : m.type # "reply"
  BY <1>1, <1>i DEF OnWay, Calls
<1>4. \A m \in OnWay : m.addr \in Addrs
  BY <1>i, OnWayIs
<1>5. stage # "none" => cur.addr \in Addrs /\ cur.id # Nobody
  BY <1>i, HandIs DEF Streams
<1>10. Homes'
  BY <1>1, <1>2, <1>i DEF Homes
<1>11. Calls' /\ Ordered' /\ Responses' /\ Given'
  BY <1>1, <1>3, <1>i DEF Calls, Ordered, InOrder, AllBefore, Responses, Shown, Given,
     BytesAtTheirOffset
<1>12. Hand'
  BY <1>1, <1>2, <1>3, <1>5, <1>i DEF Hand, Ending, Live
<1>13. Belonging'
  BY <1>1, <1>2, <1>3, <1>4, <1>i DEF Belonging, Belongs, Live
<1>14. Dudes'
  BY <1>1, <1>2, <1>i DEF Dudes, Live, Unborn
<1>15. Bytes'
  BY <1>1, <1>2, <1>3, <1>4, <1>5, <1>i DEF Bytes, Taken, Carried
<1> QED
  BY <1>10, <1>11, <1>12, <1>13, <1>14, <1>15 DEF Rest

\* The reader passes a message on.
LEMMA ReceiveKeeps ==
    ASSUME UrlInv, Receive
    PROVE  Rest'
<1> DEFINE h == Head(toFood)
<1>i. /\ TypeOK /\ Homes /\ Calls /\ Hand /\ Belonging /\ Ordered /\ Responses
      /\ Dudes /\ Given /\ Bytes
  BY DEF UrlInv
<1>1. UNCHANGED <<mem, opened, call, stage, cur, remain, request, todo, dude, gave, whole,
                  given, short, phase>>
  BY DEF Receive, handlerVars, hostVars, flashVars
<1>2. /\ Ordered' /\ h \in OnWay /\ OnWay' \subseteq OnWay
      /\ \A m \in OnWay : m.type # "reply" => m \in OnWay'
  BY <1>i, ReceiveMoves
<1>3. Calls'
  <2>1. CASE h.type # "reply"
    <3>1. OnWay' = OnWay /\ answered' = answered /\ Range(messages') = Range(messages) \cup {h}
      BY <1>i, <2>1, ReceiveMoves
    <3> QED
      BY <1>1, <1>i, <2>1, <3>1 DEF Calls
  <2>2. CASE h.type = "reply"
    <3>1. answered' /\ messages' = messages /\ \A m \in OnWay' : m.type # "reply"
      BY <1>i, <2>2, ReceiveMoves
    <3>2. call # Nobody /\ request = NoRequest
      BY <1>2, <1>i, <2>2 DEF Calls
    <3> QED
      BY <1>1, <1>i, <3>1, <3>2 DEF Calls
  <2> QED
    BY <2>1, <2>2
<1>4. Homes' /\ Given' /\ Dudes'
  BY <1>1, <1>i DEF Homes, Given, BytesAtTheirOffset, Dudes, Live, Unborn
<1>5. Hand'
  BY <1>1, <1>2, <1>i DEF Hand, Ending, Live
<1>6. Belonging'
  BY <1>1, <1>2, <1>i DEF Belonging, Belongs, Live
<1>7. Responses'
  BY <1>1, <1>2, <1>i DEF Responses, Shown
<1>8. Bytes'
  BY <1>1, <1>2, <1>i DEF Bytes, Taken, Carried
<1> QED
  BY <1>2, <1>3, <1>4, <1>5, <1>6, <1>7, <1>8 DEF Rest

\* What is known of the message the run loop takes.
LEMMA HandleIs ==
    ASSUME UrlInv, NEW type \in {"response", "data", "done"}, Handle(type),
           UNCHANGED <<toFood, todo>>
    PROVE  /\ cur'.type = type /\ cur' # NoMsg /\ cur'.addr \in Addrs /\ cur'.id \in Streams
           /\ cur'.id <= opened /\ cur'.id # Nobody
           /\ mem[cur'.addr].id = cur'.id /\ Belongs(cur')
           /\ stage = "none" /\ call = Nobody /\ request = NoRequest
           /\ OnWay = OnWay' \cup {cur'}
           /\ \A m \in OnWay' : /\ m.type # "reply"
                                /\ m.addr \in Addrs /\ m.id \in Streams
           /\ \A m \in OnWay' : m.id = cur'.id =>
                 /\ type # "done" /\ m.type # "response"
                 /\ type = "data" /\ m.type = "data" => cur'.from + cur'.len <= m.from
           /\ Ordered' /\ Range(messages') \subseteq Range(messages)
<1>i. TypeOK /\ Homes /\ Calls /\ Belonging /\ Ordered
  BY DEF UrlInv
<1>1. stage = "none" /\ call = Nobody /\ request = NoRequest
  BY <1>i DEF Handle, Calls
<1>2. /\ cur'.type = type /\ cur' \in OnWay /\ OnWay = OnWay' \cup {cur'}
      /\ Range(messages') \subseteq Range(messages)
      /\ \A m \in OnWay' : Before(cur', m)
      /\ Ordered'
  BY <1>i, HandleMoves
<1>3. \A m \in OnWay : m.type # "reply"
  BY <1>1, <1>i DEF Calls
<1>4. \A m \in OnWay : m.addr \in Addrs /\ m.id \in Streams /\ m.id <= opened /\ m # NoMsg
  BY <1>i, OnWayIs
<1>5. Belongs(cur') /\ mem[cur'.addr].id = cur'.id
  BY <1>2, <1>i DEF Belonging, Belongs
<1>6. \A m \in OnWay' : m.id = cur'.id =>
          /\ type # "done" /\ m.type # "response"
          /\ type = "data" /\ m.type = "data" => cur'.from + cur'.len <= m.from
  BY <1>2, <1>3 DEF Before
<1> QED
  BY <1>1, <1>2, <1>3, <1>4, <1>5, <1>6 DEF Streams, Nobody

\* Flash gets to know the stream: its first response, nothing written yet.
LEMMA ResponseIs ==
    ASSUME UrlInv, ConnectionResponse
    PROVE  /\ phase[cur'.id] = "asked" /\ ~mem[cur'.addr].headers
           /\ stage' = "newstream" /\ phase' = [phase EXCEPT ![cur'.id] = "open"]
           /\ \A a \in Addrs : /\ mem'[a].id = mem[a].id /\ mem'[a].ndata = mem[a].ndata
                               /\ mem'[a].url = mem[a].url
                               /\ a # cur'.addr => mem'[a] = mem[a]
<1> USE DEF Nobody
<1>i. TypeOK /\ Homes /\ Given /\ Bytes
  BY DEF UrlInv
<1>1. Handle("response") /\ UNCHANGED <<toFood, todo>>
  BY DEF ConnectionResponse, hostVars, flashVars
<1>2. /\ cur'.type = "response" /\ cur'.addr \in Addrs /\ cur'.id \in Streams /\ cur'.id # Nobody
      /\ mem[cur'.addr].id = cur'.id /\ Belongs(cur') /\ stage = "none"
  BY <1>1, HandleIs
<1>3. phase[cur'.id] = "asked"
  BY <1>2 DEF Belongs
<1>4. ~mem[cur'.addr].headers
  BY <1>2, <1>3, <1>i DEF Homes
<1>5. /\ mem' = [mem EXCEPT ![cur'.addr].headers = cur'.headers, ![cur'.addr].ndata = 0]
      /\ phase' = [phase EXCEPT ![cur'.id] = "open"] /\ stage' = "newstream"
  BY <1>4 DEF ConnectionResponse
<1>6. /\ given[cur'.id] = <<>> /\ cur'.id \notin short
      /\ mem[cur'.addr].ndata = Len(given[cur'.id])
  BY <1>2, <1>3, <1>i DEF Given, Bytes
<1>7. mem[cur'.addr].ndata = 0
  BY <1>6
<1>8. \A a \in Addrs : /\ mem'[a].id = mem[a].id /\ mem'[a].ndata = mem[a].ndata
                       /\ mem'[a].url = mem[a].url
                       /\ a # cur'.addr => mem'[a] = mem[a]
  BY <1>2, <1>5, <1>7, <1>i DEF TypeOK
<1> QED
  BY <1>3, <1>4, <1>5, <1>8

LEMMA ResponseKeeps ==
    ASSUME UrlInv, ConnectionResponse
    PROVE  Rest'
<1> USE AddrsAssumption DEF Nobody
<1>i. /\ TypeOK /\ Homes /\ Calls /\ Hand /\ Belonging /\ Ordered /\ Responses
      /\ Dudes /\ Given /\ Bytes
  BY DEF UrlInv
<1>1. /\ Handle("response")
      /\ UNCHANGED <<opened, call, answered, remain, toFood, request, todo, dude, gave,
                     whole, given, short>>
  BY DEF ConnectionResponse, hostVars, callVars, flashVars
<1>2. /\ cur'.type = "response" /\ cur' # NoMsg /\ cur'.addr \in Addrs /\ cur'.id \in Streams
      /\ cur'.id <= opened /\ cur'.id # Nobody
      /\ mem[cur'.addr].id = cur'.id /\ Belongs(cur')
      /\ stage = "none" /\ call = Nobody /\ request = NoRequest
      /\ OnWay = OnWay' \cup {cur'}
      /\ \A m \in OnWay' : m.type # "reply" /\ m.addr \in Addrs /\ m.id \in Streams
      /\ \A m \in OnWay' : m.id = cur'.id => m.type # "response"
      /\ Ordered' /\ Range(messages') \subseteq Range(messages)
  BY <1>1, HandleIs
<1>3. /\ phase[cur'.id] = "asked" /\ stage' = "newstream"
      /\ \A a \in Addrs : /\ mem'[a].id = mem[a].id /\ mem'[a].ndata = mem[a].ndata
                          /\ mem'[a].url = mem[a].url
                          /\ a # cur'.addr => mem'[a] = mem[a]
  BY ResponseIs
<1>4. phase'[cur'.id] = "open" /\ \A s \in Streams : s # cur'.id => phase'[s] = phase[s]
  BY <1>2, <1>i, ResponseIs DEF TypeOK
<1>10. Homes'
  <2>1. \A a \in Addrs : mem[a].id \in Streams \cup {Nobody}
    BY <1>i DEF TypeOK
  <2> QED
    BY <1>1, <1>2, <1>3, <1>4, <1>i, <2>1 DEF Homes
<1>11. Calls'
  BY <1>1, <1>2, <1>3, <1>4, <1>i DEF Calls
<1>12. Hand'
  BY <1>1, <1>2, <1>3, <1>i DEF Hand, Ending, NoRequest
<1>13. Belonging'
  BY <1>1, <1>2, <1>3, <1>4, <1>i DEF Belonging, Belongs, Live
<1>14. Responses'
  BY <1>1, <1>2, <1>4, <1>i DEF Responses, Shown
<1>15. Dudes'
  <2>1. dude[cur'.id].state # "started" /\ opened \in Nat /\ cur'.id \in Nat
    BY <1>2, <1>i DEF Belongs, TypeOK, Streams
  <2>2. \A s \in Streams : opened < s => s # cur'.id
    BY <1>2, <2>1 DEF Streams
  <2> QED
    BY <1>1, <1>2, <1>3, <1>4, <1>i, <2>1, <2>2 DEF Dudes, Live, Unborn
<1>16. Given'
  BY <1>1, <1>2, <1>4, <1>i DEF Given, BytesAtTheirOffset
<1>17. Bytes'
  BY <1>1, <1>2, <1>3, <1>i DEF Bytes, Taken, Carried
<1> QED
  BY <1>2, <1>10, <1>11, <1>12, <1>13, <1>14, <1>15, <1>16, <1>17 DEF Rest

\* The handler of a response is done.
LEMMA NewStreamReturnsKeeps ==
    ASSUME UrlInv, NewStreamReturns
    PROVE  Rest'
<1>i. /\ TypeOK /\ Homes /\ Calls /\ Hand /\ Belonging /\ Ordered /\ Responses
      /\ Dudes /\ Given /\ Bytes
  BY DEF UrlInv
<1>1. /\ stage = "newstream"
      /\ \/ stage' = "none" /\ cur' = NoMsg
         \/ stage' = "exited" /\ cur' = cur
      /\ UNCHANGED <<mem, opened, call, answered, remain, messages, toFood, request, todo,
                     dude, gave, whole, given, short, phase>>
  BY DEF NewStreamReturns, Return, Abort, callVars, hostVars, flashVars
<1>2. OnWay' = OnWay
  BY <1>1 DEF OnWay
<1>3. Homes' /\ Given' /\ Dudes' /\ Calls'
  BY <1>1, <1>2, <1>i DEF Homes, Given, BytesAtTheirOffset, Dudes, Live, Unborn, Calls
<1>4. Hand'
  BY <1>1, <1>i DEF Hand, Ending
<1>5. Belonging' /\ Ordered' /\ Responses'
  BY <1>1, <1>2, <1>i DEF Belonging, Belongs, Live, Ordered, InOrder, AllBefore, Responses, Shown
<1>6. Bytes'
  BY <1>1, <1>2, <1>i DEF Bytes, Taken, Carried
<1> QED
  BY <1>3, <1>4, <1>5, <1>6 DEF Rest

\* The data the run loop takes starts where Flash's bytes end: what Flash
\* has not got yet is under way, and nothing of it comes before this message.
LEMMA DataIs ==
    ASSUME UrlInv, ConnectionGotData
    PROVE  /\ cur'.id \notin short => cur'.from = mem[cur'.addr].ndata
           /\ cur'.from \in Nat /\ cur'.len \in Nat
           /\ cur'.from + cur'.len <= gave[cur'.id]
           /\ phase[cur'.id] = "open"
<1> USE BoundsAssumption DEF Nobody
<1>i. TypeOK /\ Homes /\ Belonging /\ Responses /\ Bytes
  BY DEF UrlInv
<1>1. Handle("data") /\ UNCHANGED <<toFood, todo>>
  BY DEF ConnectionGotData, hostVars, flashVars
<1>2. /\ cur'.type = "data" /\ cur'.addr \in Addrs /\ cur'.id \in Streams /\ cur'.id # Nobody
      /\ mem[cur'.addr].id = cur'.id /\ stage = "none"
      /\ OnWay = OnWay' \cup {cur'}
      /\ \A m \in OnWay' : m.id = cur'.id =>
            /\ m.type # "response"
            /\ m.type = "data" => cur'.from + cur'.len <= m.from
  BY <1>1, HandleIs
<1>3. cur' \in OnWay
  BY <1>2
<1>4. cur'.from \in Nat /\ cur'.len \in Nat /\ gave[cur'.id] \in 0..MaxTotal
  <2>1. cur'.from \in 0..MaxTotal /\ cur'.len \in 0..MaxBytes
    BY <1>2, <1>3, <1>i, QueuesTyped, MessageIs
  <2>2. gave[cur'.id] \in 0..MaxTotal
    BY <1>2, <1>i DEF TypeOK
  <2> QED
    BY <2>1, <2>2
<1>5. /\ cur'.from + cur'.len <= gave[cur'.id]
      /\ cur'.id \notin short => Taken(cur'.addr) <= cur'.from
  BY <1>2, <1>3, <1>i DEF Bytes
<1>6. ASSUME cur'.id \notin short
      PROVE  cur'.from = mem[cur'.addr].ndata
  <2> DEFINE n == mem[cur'.addr].ndata
  <2>1. n \in Nat /\ Taken(cur'.addr) = n
    <3>1. n = Len(given[cur'.id]) /\ given[cur'.id] \in Seq(Offsets \X (1..MaxTotal))
      BY <1>2, <1>6, <1>i DEF Bytes, TypeOK
    <3>2. n \in Nat
      BY <3>1, LenProperties
    <3> QED
      BY <1>2, <3>2 DEF Taken
  <2>2. n <= cur'.from
    BY <1>5, <1>6, <2>1
  <2> SUFFICES ASSUME n < cur'.from PROVE FALSE
    BY <1>4, <2>1, <2>2
  <2>3. n < gave[cur'.id] /\ n \in 0..MaxTotal
    BY <1>4, <1>5, <2>1
  <2>4. Carried(cur'.id, n)
    BY <1>2, <1>6, <1>i, <2>1, <2>3 DEF Bytes
  <2> HIDE DEF n
  <2>5. PICK m \in OnWay : m.type = "data" /\ m.id = cur'.id /\ m.from <= n
    BY <2>4 DEF Carried
  <2>6. m.from \in Nat
    BY <1>i, <2>5, OnWayIs
  <2>7. m # cur' /\ m \in OnWay'
    BY <1>2, <1>4, <2>1, <2>5, <2>6
  <2>8. cur'.from + cur'.len <= m.from
    BY <1>2, <2>5, <2>7
  <2> QED
    BY <1>4, <2>1, <2>5, <2>6, <2>8
<1>7. phase[cur'.id] = "open"
  <2>1. \A m \in OnWay : m.id = cur'.id => m.type # "response"
    BY <1>2
  <2> QED
    BY <1>2, <1>3, <1>i, <2>1 DEF Responses, Shown
<1> QED
  BY <1>4, <1>5, <1>6, <1>7

LEMMA DataKeeps ==
    ASSUME UrlInv, ConnectionGotData
    PROVE  Rest'
<1> USE AddrsAssumption DEF Nobody
<1>i. /\ TypeOK /\ Homes /\ Calls /\ Hand /\ Belonging /\ Ordered /\ Responses
      /\ Dudes /\ Given /\ Bytes
  BY DEF UrlInv
<1>1. /\ Handle("data") /\ remain' = cur'.len /\ stage' \in {"write", "exited"}
      /\ UNCHANGED <<mem, opened, call, answered, toFood, request, todo, dude, gave,
                     whole, given, short, phase>>
  BY DEF ConnectionGotData, hostVars, callVars, flashVars
<1>2. /\ cur'.type = "data" /\ cur' # NoMsg /\ cur'.addr \in Addrs /\ cur'.id \in Streams
      /\ cur'.id # Nobody /\ mem[cur'.addr].id = cur'.id
      /\ stage = "none" /\ call = Nobody /\ request = NoRequest
      /\ OnWay = OnWay' \cup {cur'}
      /\ \A m \in OnWay' : m.type # "reply" /\ m.addr \in Addrs /\ m.id \in Streams
      /\ \A m \in OnWay' : m.id = cur'.id /\ m.type = "data" =>
            cur'.from + cur'.len <= m.from
      /\ Ordered' /\ Range(messages') \subseteq Range(messages)
  BY <1>1, HandleIs
<1>3. /\ cur'.id \notin short => cur'.from = mem[cur'.addr].ndata
      /\ cur'.from \in Nat /\ cur'.len \in Nat
      /\ cur'.from + cur'.len <= gave[cur'.id] /\ phase[cur'.id] = "open"
  BY DataIs
<1>10. Homes' /\ Given' /\ Dudes'
  BY <1>1, <1>i DEF Homes, Given, BytesAtTheirOffset, Dudes, Live, Unborn
<1>11. Calls'
  BY <1>1, <1>2, <1>i DEF Calls
<1>12. Hand'
  BY <1>1, <1>2, <1>3, <1>i DEF Hand, Ending, NoRequest
<1>13. Belonging' /\ Responses'
  BY <1>1, <1>2, <1>i DEF Belonging, Belongs, Live, Responses, Shown
<1>14. Bytes'
  <2> SUFFICES ASSUME stage' = "write" PROVE Bytes'
    BY <1>1 DEF Bytes
  <2>1. \A a \in Addrs : mem[a].ndata \in Int /\ Taken(a) = mem[a].ndata
    <3>1. \A a \in Addrs : mem[a].ndata \in Int
      BY <1>i DEF TypeOK, Offsets
    <3> QED
      BY <1>2, <3>1 DEF Taken
  <2>2. \A a \in Addrs : /\ a = cur'.addr => Taken(a)' = mem[a].ndata + cur'.len
                         /\ a # cur'.addr => Taken(a)' = Taken(a)
    <3> TAKE a \in Addrs
    <3>1. mem'[a].ndata = mem[a].ndata /\ mem[a].ndata \in Int /\ Taken(a) = mem[a].ndata
      BY <1>1, <2>1
    <3>2. CASE a = cur'.addr
      BY <1>1, <3>1, <3>2 DEF Taken
    <3>3. CASE a # cur'.addr
      BY <1>1, <3>1, <3>3 DEF Taken
    <3> QED
      BY <3>2, <3>3
  <2>3. ASSUME NEW a \in Addrs, mem[a].id # Nobody, mem[a].id \notin short
        PROVE  /\ Taken(a)' <= gave[mem[a].id]
               /\ \A k \in 0..MaxTotal :
                     Taken(a)' <= k /\ k < gave[mem[a].id] => Carried(mem[a].id, k)'
    <3>1. CASE a = cur'.addr
      <4>0. cur'.id \notin short /\ Taken(a)' = cur'.from + cur'.len
        BY <1>2, <1>3, <2>2, <2>3, <3>1
      <4>1. ASSUME NEW k \in 0..MaxTotal, cur'.from + cur'.len <= k, k < gave[mem[a].id]
            PROVE  Carried(mem[a].id, k)'
        <5>1. Carried(mem[a].id, k)
          BY <1>2, <1>3, <1>i, <2>1, <2>3, <3>1, <4>0, <4>1 DEF Bytes
        <5>2. ~(k < cur'.from + cur'.len)
          BY <1>3, <4>1
        <5> QED
          BY <1>1, <1>2, <5>1, <5>2 DEF Carried
      <4> QED
        BY <1>2, <1>3, <3>1, <4>0, <4>1
    <3>2. CASE a # cur'.addr
      <4>1. mem[a].id # cur'.id
        BY <1>2, <1>i, <2>3, <3>2 DEF Homes
      <4>2. \A k \in 0..MaxTotal : Carried(mem[a].id, k) => Carried(mem[a].id, k)'
        BY <1>1, <1>2, <4>1 DEF Carried
      <4> QED
        BY <1>2, <1>i, <2>2, <2>3, <3>2, <4>2 DEF Bytes
    <3> QED
      BY <3>1, <3>2
  <2>4. ASSUME NEW m \in OnWay', m.type = "data"
        PROVE  /\ m.from + m.len <= gave[m.id]
               /\ m.id \notin short => Taken(m.addr)' <= m.from
    <3>1. m \in OnWay /\ m.addr \in Addrs /\ mem[m.addr].id = m.id
      BY <1>2, <1>i, <2>4, OnWayIs
    <3>2. m.from + m.len <= gave[m.id] /\ (m.id \notin short => Taken(m.addr) <= m.from)
      BY <1>2, <1>i, <2>4, <3>1 DEF Bytes
    <3>3. CASE m.addr = cur'.addr
      BY <1>2, <1>3, <2>2, <2>4, <3>1, <3>2, <3>3
    <3>4. CASE m.addr # cur'.addr
      BY <2>2, <3>1, <3>2, <3>4
    <3> QED
      BY <3>3, <3>4
  <2>5. \A a \in Addrs : mem[a].id # Nobody /\ mem[a].id \notin short =>
           Len(given[mem[a].id]) = mem[a].ndata
    BY <1>2, <1>i DEF Bytes
  <2> QED
    BY <1>1, <1>3, <2>3, <2>4, <2>5 DEF Bytes
<1> QED
  BY <1>2, <1>10, <1>11, <1>12, <1>13, <1>14 DEF Rest

\* Flash takes what it was offered, at the offset it belongs to.
LEMMA WriteWholeKeeps ==
    ASSUME UrlInv, WriteReturns, cur.id \notin short'
    PROVE  Rest'
<1> USE BoundsAssumption DEF Nobody
<1>i. /\ TypeOK /\ Homes /\ Calls /\ Hand /\ Belonging /\ Ordered /\ Responses
      /\ Dudes /\ Given /\ Bytes
  BY DEF UrlInv
<1>0. PICK ret \in -1..cur.len : Takes(ret) /\ remain' = remain - ret
                                 /\ mem' = [mem EXCEPT ![cur.addr].ndata = @ + ret]
  BY DEF WriteReturns
<1>w. /\ stage = "write" /\ UNCHANGED <<opened, call, answered, messages, toFood, request, todo,
                                        dude, gave, whole, phase>>
  BY DEF WriteReturns, Return, callVars, hostVars
<1>r. ret = cur.len /\ short' = short /\ cur.id \notin short
  BY <1>0 DEF Takes
<1>t. remain = cur.len /\ remain \in Nat /\ remain' = 0
  BY <1>0, <1>r, <1>w, InPlace
<1>1. /\ stage = "write" /\ stage' = "none" /\ cur' = NoMsg
      /\ UNCHANGED <<opened, call, answered, messages, toFood, request, todo,
                     dude, gave, whole, phase, short>>
      /\ given' = [given EXCEPT ![cur.id] = @ \o Offered]
      /\ mem' = [mem EXCEPT ![cur.addr].ndata = @ + remain]
  <2>1. stage' = "none" /\ cur' = NoMsg
    BY <1>t DEF WriteReturns, Return
  <2>2. given' = [given EXCEPT ![cur.id] = @ \o Offered]
    BY <1>0, <1>r, <1>w, OfferedIs DEF Takes
  <2> QED
    BY <1>0, <1>r, <1>t, <1>w, <2>1, <2>2
<1>2. /\ cur.addr \in Addrs /\ cur.id \in Streams /\ cur.id # Nobody
      /\ mem[cur.addr].id = cur.id
  BY <1>1, <1>i, HandIs DEF Streams
<1>3. phase[cur.id] = "open"
  BY <1>1, <1>i DEF Hand
<1>4. /\ cur.from = mem[cur.addr].ndata
      /\ mem[cur.addr].ndata = Len(given[cur.id])
      /\ mem[cur.addr].ndata \in Nat /\ remain \in Nat
      /\ mem[cur.addr].ndata + remain <= gave[cur.id]
      /\ Offered = [k \in 1..remain |-> <<cur.from + k, cur.from + k>>]
      /\ Offered \in Seq(Offsets \X (1..MaxTotal)) /\ Len(Offered) = remain
  BY <1>1, <1>r, <1>t, OfferedIs, InPlace
<1>5. /\ Len(given'[cur.id]) = Len(given[cur.id]) + remain
      /\ DOMAIN given'[cur.id] = 1..(Len(given[cur.id]) + remain)
      /\ \A k \in 1..(Len(given[cur.id]) + remain) :
            given'[cur.id][k] = IF k <= Len(given[cur.id]) THEN given[cur.id][k]
                                ELSE Offered[k - Len(given[cur.id])]
      /\ \A s \in Streams : s # cur.id => given'[s] = given[s]
  <2>1. given[cur.id] \in Seq(Offsets \X (1..MaxTotal))
    BY <1>2, <1>i DEF TypeOK
  <2>2. /\ given'[cur.id] = given[cur.id] \o Offered
        /\ \A s \in Streams : s # cur.id => given'[s] = given[s]
    BY <1>1, <1>2, <1>i DEF TypeOK
  <2>3. /\ given'[cur.id] \in Seq(Offsets \X (1..MaxTotal))
        /\ Len(given'[cur.id]) = Len(given[cur.id]) + remain
        /\ \A k \in 1..(Len(given[cur.id]) + remain) :
            given'[cur.id][k] = IF k <= Len(given[cur.id]) THEN given[cur.id][k]
                                ELSE Offered[k - Len(given[cur.id])]
    <3>1. Offered \in Seq(Offsets \X (1..MaxTotal)) /\ Len(Offered) = remain
      BY <1>4
    <3> DEFINE T == Offsets \X (1..MaxTotal)
    <3> DEFINE g == given[cur.id]
    <3> DEFINE o == Offered
    <3>2. g \in Seq(T) /\ o \in Seq(T) /\ Len(o) = remain /\ given'[cur.id] = g \o o
      BY <2>1, <2>2, <3>1
    <3> HIDE DEF T, g, o
    <3>3. /\ g \o o \in Seq(T) /\ Len(g \o o) = Len(g) + Len(o)
          /\ \A k \in 1..(Len(g) + Len(o)) :
                (g \o o)[k] = IF k <= Len(g) THEN g[k] ELSE o[k - Len(g)]
      BY <3>2, ConcatProperties
    <3>4. /\ given'[cur.id] \in Seq(T) /\ Len(given'[cur.id]) = Len(g) + remain
          /\ \A k \in 1..(Len(g) + remain) :
                given'[cur.id][k] = IF k <= Len(g) THEN g[k] ELSE o[k - Len(g)]
      BY <3>2, <3>3
    <3> QED
      BY <3>4 DEF T, g, o
  <2> QED
    BY <2>2, <2>3, LenProperties
<1>6. /\ mem'[cur.addr].ndata = mem[cur.addr].ndata + remain
      /\ \A a \in Addrs : /\ mem'[a].id = mem[a].id /\ mem'[a].url = mem[a].url
                          /\ mem'[a].headers = mem[a].headers
                          /\ a # cur.addr => mem'[a].ndata = mem[a].ndata
  <2> DEFINE n == mem[cur.addr].ndata + remain
  <2>1. mem' = [mem EXCEPT ![cur.addr] = [mem[cur.addr] EXCEPT !.ndata = n]]
    BY <1>1
  <2> HIDE DEF n
  <2>2. mem \in [Addrs -> NPStreams]
    BY <1>i DEF TypeOK, NPStreams
  <2>3. /\ mem'[cur.addr] = [mem[cur.addr] EXCEPT !.ndata = n]
        /\ \A a \in Addrs : a # cur.addr => mem'[a] = mem[a]
    BY <1>2, <2>1, <2>2
  <2>4. mem[cur.addr] \in NPStreams
    BY <1>2, <2>2
  <2>5. /\ mem'[cur.addr].ndata = n /\ mem'[cur.addr].id = mem[cur.addr].id
        /\ mem'[cur.addr].url = mem[cur.addr].url
        /\ mem'[cur.addr].headers = mem[cur.addr].headers
    BY <2>3, <2>4 DEF NPStreams
  <2> QED
    BY <2>3, <2>5 DEF n
<1>7. OnWay' = OnWay /\ \A m \in OnWay : m.addr \in Addrs
  <2>1. OnWay' = OnWay
    BY <1>1 DEF OnWay
  <2>2. \A m \in OnWay : m.addr \in Addrs
    BY <1>i, OnWayIs
  <2> QED
    BY <2>1, <2>2
<1>10. Homes'
  <2>1. \A a \in Addrs : mem'[a].id = mem[a].id
    BY <1>6
  <2> QED
    BY <1>1, <1>i, <2>1 DEF Homes
<1>11. Calls'
  <2>1. call # Nobody => mem'[call].id = mem[call].id
    BY <1>6, <1>i DEF TypeOK
  <2> QED
    BY <1>1, <1>7, <1>i, <2>1 DEF Calls
<1>12. Hand'
  BY <1>1 DEF Hand, Ending
<1>13. Belonging' /\ Ordered' /\ Responses'
  BY <1>1, <1>6, <1>7, <1>i DEF Belonging, Belongs, Live, Ordered, InOrder, AllBefore,
     Responses, Shown
<1>14. ASSUME NEW s \in Streams
       PROVE  /\ dude'[s].id = s
              /\ Live(s)' => /\ dude'[s].addr \in Addrs /\ mem'[dude'[s].addr].id = s
                             /\ s \notin whole' /\ phase'[s] \in {"asked", "open"}
              /\ dude'[s].state = "started" => phase'[s] = "asked" /\ gave'[s] = 0
              /\ opened' < s => Unborn(s)'
  <2>1. opened < s => s # cur.id
    BY <1>1, <1>3, <1>i DEF Dudes, Unborn
  <2>2. UNCHANGED <<opened, dude, gave, whole, phase, short>>
    BY <1>1
  <2>3. dude[s].addr \in Addrs => mem'[dude[s].addr].id = mem[dude[s].addr].id
    BY <1>6
  <2>4. opened' < s => Unborn(s)'
    BY <1>5, <1>i, <2>1, <2>2 DEF Dudes, Unborn
  <2> QED
    BY <1>i, <2>2, <2>3, <2>4 DEF Dudes, Live
<1>15. Dudes'
  BY <1>1, <1>i, <1>14 DEF Dudes
<1>16. Given'
  <2>1. ASSUME NEW k \in DOMAIN given'[cur.id] PROVE given'[cur.id][k] = <<k, k>>
    <3>1. k \in 1..(Len(given[cur.id]) + remain)
      BY <1>5, <2>1
    <3>2. CASE k <= Len(given[cur.id])
      <4>1. k \in DOMAIN given[cur.id]
        BY <1>2, <1>i, <3>1, <3>2, LenProperties DEF TypeOK
      <4> QED
        BY <1>2, <1>5, <1>i, <1>r, <3>1, <3>2, <4>1 DEF Given, BytesAtTheirOffset
    <3>3. CASE ~(k <= Len(given[cur.id]))
      <4>1. k - Len(given[cur.id]) \in 1..remain
        <5>1. PICK n \in Nat : n = Len(given[cur.id])
          BY <1>4
        <5>2. PICK l \in Nat : l = remain
          BY <1>4
        <5>3. k \in 1..(n + l) /\ ~(k <= n)
          BY <3>1, <3>3, <5>1, <5>2
        <5>4. k - n \in 1..l
          BY <5>3
        <5> QED
          BY <5>1, <5>2, <5>4
      <4>2. cur.from + (k - Len(given[cur.id])) = k
        BY <1>4, <3>1
      <4>3. given'[cur.id][k] = Offered[k - Len(given[cur.id])]
        BY <1>5, <3>1, <3>3
      <4>4. Offered = [i \in 1..remain |-> <<cur.from + i, cur.from + i>>]
        BY <1>4
      <4> QED
        BY <4>1, <4>2, <4>3, <4>4
    <3> QED
      BY <3>2, <3>3
  <2>2. BytesAtTheirOffset'
    <3> SUFFICES ASSUME NEW s \in Streams \ short', NEW k \in DOMAIN given'[s]
                 PROVE  given'[s][k] = <<k, k>>
      BY DEF BytesAtTheirOffset
    <3>1. CASE s = cur.id
      BY <2>1, <3>1
    <3>2. CASE s # cur.id
      <4>1. given'[s] = given[s] /\ s \in Streams \ short
        BY <1>1, <1>5, <3>2
      <4> QED
        BY <1>i, <4>1 DEF Given, BytesAtTheirOffset
    <3> QED
      BY <3>1, <3>2
  <2>3. \A s \in Streams : phase'[s] \in {"none", "asked"} => given'[s] = <<>> /\ s \notin short'
    BY <1>1, <1>3, <1>5, <1>i DEF Given
  <2>4. \A s \in Streams \ short' : Len(given'[s]) <= gave'[s]
    BY <1>1, <1>4, <1>5, <1>i DEF Given
  <2> QED
    BY <2>2, <2>3, <2>4 DEF Given
<1>17. Bytes'
  <2>1. \A a \in Addrs : Taken(a)' = Taken(a)
    <3> TAKE a \in Addrs
    <3>1. mem[a].ndata \in Int /\ mem'[a].ndata \in Int
      <4>1. \A b \in Addrs : mem[b].ndata \in Int
        BY <1>i DEF TypeOK, Offsets
      <4>2. mem'[a].ndata \in {mem[a].ndata, mem[cur.addr].ndata + remain}
        BY <1>6
      <4> QED
        BY <1>2, <1>4, <4>1, <4>2
    <3>2. Taken(a)' = mem'[a].ndata
      BY <1>1, <3>1 DEF Taken
    <3> QED
      BY <1>1, <1>4, <1>6, <3>1, <3>2 DEF Taken
  <2>2. \A a \in Addrs : mem'[a].id # Nobody /\ mem'[a].id \notin short' =>
           Len(given'[mem'[a].id]) = mem'[a].ndata
    <3> SUFFICES ASSUME NEW a \in Addrs, mem[a].id # Nobody, mem[a].id \notin short
                 PROVE  Len(given'[mem[a].id]) = mem'[a].ndata
      BY <1>1, <1>6
    <3>1. CASE a = cur.addr
      BY <1>2, <1>4, <1>5, <1>6, <3>1
    <3>2. CASE a # cur.addr
      <4>1. mem[a].id # cur.id /\ mem[a].id \in Streams
        BY <1>2, <1>i, <3>2 DEF Homes, TypeOK
      <4> QED
        BY <1>1, <1>5, <1>6, <1>i, <3>2, <4>1 DEF Bytes
    <3> QED
      BY <3>1, <3>2
  <2> QED
    <3>1. stage # "exited" /\ stage' = "none" /\ UNCHANGED <<gave, short>>
      BY <1>1
    <3>3. ASSUME NEW a \in Addrs, mem'[a].id # Nobody, mem'[a].id \notin short'
          PROVE  /\ Taken(a)' <= gave'[mem'[a].id]
                 /\ \A k \in 0..MaxTotal : Taken(a)' <= k /\ k < gave'[mem'[a].id] =>
                       Carried(mem[a].id, k)'
      <4>1. /\ mem[a].id # Nobody /\ mem'[a].id = mem[a].id /\ Taken(a)' = Taken(a)
            /\ mem[a].id \notin short
        BY <1>6, <2>1, <3>1, <3>3
      <4>2. \A k : Carried(mem[a].id, k)' <=> Carried(mem[a].id, k)
        BY <1>7, <4>1 DEF Carried
      <4> QED
        BY <1>i, <3>1, <4>1, <4>2 DEF Bytes
    <3>4. ASSUME NEW m \in OnWay', m.type = "data"
          PROVE  /\ m.from + m.len <= gave'[m.id]
                 /\ m.id \notin short' => Taken(m.addr)' <= m.from
      <4>1. m \in OnWay /\ Taken(m.addr)' = Taken(m.addr)
        BY <1>7, <2>1
      <4> QED
        BY <1>i, <3>1, <3>4, <4>1 DEF Bytes
    <3> QED
      BY <2>2, <3>1, <3>3, <3>4 DEF Bytes
<1> QED
  BY <1>10, <1>11, <1>12, <1>13, <1>15, <1>16, <1>17 DEF Rest

\* Flash takes less, or has taken less of the stream before: of that stream
\* no byte is spoken of any more.
LEMMA WriteShortKeeps ==
    ASSUME UrlInv, WriteReturns, cur.id \in short'
    PROVE  Rest'
<1> USE BoundsAssumption DEF Nobody
<1>i. /\ TypeOK /\ Homes /\ Calls /\ Hand /\ Belonging /\ Ordered /\ Responses
      /\ Dudes /\ Given /\ Bytes
  BY DEF UrlInv
<1>0. PICK ret \in -1..cur.len :
           /\ given' = [given EXCEPT ![cur.id] = @ \o SubSeq(Offered, 1, ret)]
           /\ short' \in {short, short \cup {cur.id}}
           /\ mem' = [mem EXCEPT ![cur.addr].ndata = @ + ret]
  BY DEF WriteReturns, Takes
<1>1. /\ stage = "write"
      /\ UNCHANGED <<opened, call, answered, messages, toFood, request, todo, dude, gave, whole,
                     phase>>
      /\ \/ stage' = "none" /\ cur' = NoMsg
         \/ stage' = "write" /\ cur' = cur
  BY DEF WriteReturns, Return, callVars, hostVars
<1>2. /\ cur.addr \in Addrs /\ cur.id \in Streams /\ cur.id # Nobody /\ cur.id <= opened
      /\ mem[cur.addr].id = cur.id /\ phase[cur.id] = "open"
  BY <1>1, <1>i, HandIs DEF Streams, Hand
<1>3. /\ \A s \in Streams : s # cur.id => given'[s] = given[s] /\ (s \in short' <=> s \in short)
      /\ short \subseteq short' /\ cur.id \in short'
  BY <1>0, <1>2, <1>i DEF TypeOK
<1>4. \A a \in Addrs : /\ mem'[a].id = mem[a].id /\ mem'[a].url = mem[a].url
                       /\ mem'[a].headers = mem[a].headers
                       /\ a # cur.addr => mem'[a].ndata = mem[a].ndata
  <2> DEFINE n == mem[cur.addr].ndata + ret
  <2>1. mem' = [mem EXCEPT ![cur.addr] = [mem[cur.addr] EXCEPT !.ndata = n]]
    BY <1>0
  <2> HIDE DEF n
  <2>2. mem \in [Addrs -> NPStreams]
    BY <1>i DEF TypeOK, NPStreams
  <2>3. /\ mem'[cur.addr] = [mem[cur.addr] EXCEPT !.ndata = n]
        /\ \A a \in Addrs : a # cur.addr => mem'[a] = mem[a]
    BY <1>2, <2>1, <2>2
  <2>4. mem[cur.addr] \in NPStreams
    BY <1>2, <2>2
  <2>5. /\ mem'[cur.addr].id = mem[cur.addr].id /\ mem'[cur.addr].url = mem[cur.addr].url
        /\ mem'[cur.addr].headers = mem[cur.addr].headers
    BY <2>3, <2>4 DEF NPStreams
  <2> QED
    BY <2>3, <2>5
<1>5. /\ OnWay' = OnWay
      /\ \A m \in OnWay : m.addr \in Addrs /\ m.id \in Streams /\ mem[m.addr].id = m.id
  <2>1. OnWay' = OnWay
    BY <1>1 DEF OnWay
  <2> QED
    BY <1>i, <2>1, OnWayIs
<1>10. Homes'
  BY <1>1, <1>4, <1>i DEF Homes
<1>11. Calls'
  <2>1. call # Nobody => mem'[call].id = mem[call].id
    BY <1>4, <1>i DEF TypeOK
  <2> QED
    BY <1>1, <1>5, <1>i, <2>1 DEF Calls
<1>12. Hand'
  BY <1>1, <1>2, <1>3, <1>4, <1>i DEF Hand, Ending
<1>13. Belonging' /\ Ordered' /\ Responses'
  BY <1>1, <1>4, <1>5, <1>i DEF Belonging, Belongs, Live, Ordered, InOrder, AllBefore,
     Responses, Shown
<1>14. Dudes'
  <2>1. ASSUME NEW s \in Streams, opened < s PROVE Unborn(s)'
    <3>1. s # cur.id
      BY <1>1, <1>2, <1>i, <2>1 DEF Dudes, Unborn
    <3> QED
      BY <1>1, <1>3, <1>i, <2>1, <3>1 DEF Dudes, Unborn
  <2>2. \A s \in Streams : dude[s].addr \in Addrs => mem'[dude[s].addr].id = mem[dude[s].addr].id
    BY <1>4
  <2> QED
    BY <1>1, <1>i, <2>1, <2>2 DEF Dudes, Live
<1>15. Given'
  <2>1. BytesAtTheirOffset'
    BY <1>3, <1>i DEF Given, BytesAtTheirOffset
  <2>2. \A s \in Streams : phase'[s] \in {"none", "asked"} => given'[s] = <<>> /\ s \notin short'
    BY <1>1, <1>2, <1>3, <1>i DEF Given
  <2>3. \A s \in Streams \ short' : Len(given'[s]) <= gave'[s]
    BY <1>1, <1>3, <1>i DEF Given
  <2> QED
    BY <2>1, <2>2, <2>3 DEF Given
<1>16. Bytes'
  <2>1. stage # "exited" /\ UNCHANGED gave
    BY <1>1
  <2>2. ASSUME NEW a \in Addrs, a # cur.addr PROVE Taken(a)' = Taken(a)
    <3>1. mem'[a].ndata = mem[a].ndata /\ NoMsg.addr = Nobody /\ a # Nobody
      BY <1>4, <2>2, AddrsAssumption DEF NoMsg
    <3> QED
      BY <1>1, <2>2, <3>1 DEF Taken
  <2>3. ASSUME NEW a \in Addrs, mem'[a].id # Nobody, mem'[a].id \notin short'
        PROVE  /\ Len(given'[mem'[a].id]) = mem'[a].ndata
               /\ Taken(a)' <= gave'[mem'[a].id]
               /\ \A k \in 0..MaxTotal : Taken(a)' <= k /\ k < gave'[mem'[a].id] =>
                     Carried(mem[a].id, k)'
    <3>1. /\ mem'[a].id = mem[a].id /\ a # cur.addr /\ mem[a].id # cur.id /\ mem[a].id \in Streams
          /\ mem[a].id # Nobody /\ mem[a].id \notin short
      BY <1>2, <1>3, <1>4, <1>i, <2>3 DEF TypeOK
    <3>2. Taken(a)' = Taken(a) /\ mem'[a].ndata = mem[a].ndata
          /\ given'[mem[a].id] = given[mem[a].id]
      BY <1>3, <1>4, <2>2, <3>1
    <3>3. PICK s : s = mem[a].id
      OBVIOUS
    <3>4. \A k : Carried(s, k)' <=> Carried(s, k)
      BY <1>5 DEF Carried
    <3>5. mem'[a].id = s
      BY <3>1, <3>3
    <3> QED
      BY <1>i, <2>1, <3>1, <3>2, <3>3, <3>4, <3>5 DEF Bytes
  <2>4. ASSUME NEW m \in OnWay', m.type = "data"
        PROVE  /\ m.from + m.len <= gave'[m.id]
               /\ m.id \notin short' => Taken(m.addr)' <= m.from
    <3>1. m \in OnWay /\ m.addr \in Addrs /\ mem[m.addr].id = m.id
      BY <1>5
    <3>2. m.id \notin short' => m.addr # cur.addr /\ m.id \notin short
      BY <1>2, <1>3, <3>1
    <3> QED
      BY <1>i, <2>1, <2>2, <2>4, <3>1, <3>2 DEF Bytes
  <2>5. stage' = "write" => cur'.id \in short'
    BY <1>1, <1>3
  <2> QED
    BY <2>3, <2>4, <2>5 DEF Bytes
<1> QED
  BY <1>10, <1>11, <1>12, <1>13, <1>14, <1>15, <1>16 DEF Rest

LEMMA WriteKeeps ==
    ASSUME UrlInv, WriteReturns
    PROVE  Rest'
BY WriteWholeKeeps, WriteShortKeeps

\* A stream that ends well: its response came, nothing of it is under way
\* any more, and Flash has all of its bytes.
LEMMA DoneIs ==
    ASSUME UrlInv, ConnectionAllDone, cur'.ok
    PROVE  /\ phase[cur'.id] = "open" /\ cur'.id \in whole
           /\ cur'.id \notin short => Len(given[cur'.id]) = gave[cur'.id]
<1> USE BoundsAssumption DEF Nobody
<1>i. TypeOK /\ Homes /\ Belonging /\ Responses /\ Bytes
  BY DEF UrlInv
<1>1. Handle("done") /\ UNCHANGED <<toFood, todo>>
  BY DEF ConnectionAllDone, hostVars, flashVars
<1>2. /\ cur'.type = "done" /\ cur'.addr \in Addrs /\ cur'.id \in Streams /\ cur'.id # Nobody
      /\ mem[cur'.addr].id = cur'.id /\ Belongs(cur') /\ stage = "none"
      /\ OnWay = OnWay' \cup {cur'} /\ \A m \in OnWay' : m.id # cur'.id
  BY <1>1, HandleIs
<1>3. phase[cur'.id] = "open"
  <2>1. \A m \in OnWay : m.id = cur'.id => m.type # "response"
    BY <1>2
  <2> QED
    BY <1>2, <1>i, <2>1 DEF Responses, Shown
<1>4. ASSUME cur'.id \notin short
      PROVE  Len(given[cur'.id]) = gave[cur'.id]
  <2> DEFINE n == mem[cur'.addr].ndata
  <2>1. n = Len(given[cur'.id]) /\ gave[cur'.id] \in 0..MaxTotal
    BY <1>2, <1>4, <1>i DEF Bytes, TypeOK
  <2>2. n \in Nat /\ Taken(cur'.addr) = n
    <3>1. given[cur'.id] \in Seq(Offsets \X (1..MaxTotal))
      BY <1>2, <1>i DEF TypeOK
    <3>2. n \in Nat
      BY <2>1, <3>1, LenProperties
    <3> QED
      BY <1>2, <3>2 DEF Taken
  <2>3. n <= gave[cur'.id]
    BY <1>2, <1>4, <1>i, <2>2 DEF Bytes
  <2> SUFFICES ASSUME n < gave[cur'.id] PROVE FALSE
    BY <2>1, <2>2, <2>3
  <2>4. n \in 0..MaxTotal
    BY <2>1, <2>2
  <2>5. Carried(cur'.id, n)
    BY <1>2, <1>4, <1>i, <2>2, <2>4 DEF Bytes
  <2> QED
    BY <1>2, <2>5 DEF Carried
<1> QED
  BY <1>2, <1>3, <1>4 DEF Belongs

LEMMA DoneKeeps ==
    ASSUME UrlInv, ConnectionAllDone
    PROVE  Rest'
<1> USE AddrsAssumption DEF Nobody
<1>i. /\ TypeOK /\ Homes /\ Calls /\ Hand /\ Belonging /\ Ordered /\ Responses
      /\ Dudes /\ Given /\ Bytes
  BY DEF UrlInv
<1>1. /\ Handle("done")
      /\ UNCHANGED <<mem, opened, call, answered, remain, toFood, request, todo, dude, gave,
                     whole, given, short>>
  BY DEF ConnectionAllDone, hostVars, callVars, flashVars
<1>2. /\ cur'.type = "done" /\ cur' # NoMsg /\ cur'.addr \in Addrs /\ cur'.id \in Streams
      /\ cur'.id # Nobody /\ cur'.id <= opened
      /\ mem[cur'.addr].id = cur'.id /\ Belongs(cur')
      /\ stage = "none" /\ call = Nobody /\ request = NoRequest
      /\ OnWay = OnWay' \cup {cur'}
      /\ \A m \in OnWay' : m.type # "reply" /\ m.addr \in Addrs /\ m.id \in Streams
      /\ \A m \in OnWay' : m.id # cur'.id
      /\ Ordered' /\ Range(messages') \subseteq Range(messages)
  BY <1>1, HandleIs
<1>3. /\ stage' \in {"destroystream", "exited"}
      /\ stage' = "destroystream" => phase'[cur'.id] = "closed"
      /\ phase'[cur'.id] \in {phase[cur'.id], "closed"}
      /\ \A s \in Streams : s # cur'.id => phase'[s] = phase[s]
  BY <1>2, <1>i DEF ConnectionAllDone, TypeOK
<1>4. ~Live(cur'.id)
  BY <1>2 DEF Belongs
<1>10. Homes'
  <2>1. \A a \in Addrs : mem[a].id \in Streams \cup {Nobody}
    BY <1>i DEF TypeOK
  <2>2. \A a \in Addrs : mem[a].id # Nobody /\ mem[a].headers => phase'[mem[a].id] # "asked"
    BY <1>2, <1>3, <1>i, <2>1 DEF Homes
  <2> QED
    BY <1>1, <1>i, <2>2 DEF Homes
<1>11. Calls'
  BY <1>1, <1>2, <1>i DEF Calls
<1>12. Hand'
  BY <1>1, <1>2, <1>3, <1>4, <1>i DEF Hand, Ending, Live, NoRequest
<1>13. Belonging'
  BY <1>1, <1>2, <1>3, <1>i DEF Belonging, Belongs, Live
<1>14. Responses'
  <2>1. ASSUME NEW s \in Streams, s # cur'.id PROVE Shown(s) => Shown(s)'
    BY <1>2, <1>3, <2>1 DEF Shown
  <2>2. \A m \in OnWay' : m \in OnWay /\ m.id # cur'.id /\ m.id \in Streams
    BY <1>2
  <2>3. \A s \in Streams : dude[s].state = "open" => s # cur'.id
    BY <1>4 DEF Live
  <2> QED
    BY <1>1, <1>i, <2>1, <2>2, <2>3 DEF Responses
<1>15. Dudes'
  <2>1. \A s \in Streams : opened < s => s # cur'.id
    BY <1>2, <1>i DEF TypeOK, Streams
  <2> QED
    BY <1>1, <1>2, <1>3, <1>4, <1>i, <2>1 DEF Dudes, Live, Unborn
<1>16. Given'
  BY <1>1, <1>2, <1>3, <1>i DEF Given, BytesAtTheirOffset
<1>17. Bytes'
  BY <1>1, <1>2, <1>3, <1>i DEF Bytes, Taken, Carried
<1> QED
  BY <1>2, <1>10, <1>11, <1>12, <1>13, <1>14, <1>15, <1>16, <1>17 DEF Rest

\* Flash is told of the end, if it asked for that.
LEMMA DestroyStreamReturnsKeeps ==
    ASSUME UrlInv, DestroyStreamReturns
    PROVE  Rest'
<1> USE DEF Nobody
<1>i. /\ TypeOK /\ Homes /\ Calls /\ Hand /\ Belonging /\ Ordered /\ Responses
      /\ Dudes /\ Given /\ Bytes
  BY DEF UrlInv
<1>1. /\ stage = "destroystream" /\ stage' \in {"urlnotify", "free", "exited"}
      /\ UNCHANGED <<mem, opened, call, answered, cur, remain, messages, toFood, request, todo,
                     dude, gave, whole, given, short>>
  BY DEF DestroyStreamReturns, callVars, hostVars, pipeVars, flashVars
<1>2. /\ cur.addr \in Addrs /\ cur.id \in Streams /\ cur.id # Nobody /\ cur.id <= opened
      /\ mem[cur.addr].id = cur.id
  BY <1>1, <1>i, HandIs DEF Streams
<1>3. /\ ~Live(cur.id) /\ request.id # cur.id /\ phase[cur.id] = "closed"
      /\ \A m \in OnWay : m.id = cur.id => m.type = "reply"
  BY <1>1, <1>i DEF Hand, Ending
<1>4. /\ phase'[cur.id] \in {"closed", "notified"}
      /\ \A s \in Streams : s # cur.id => phase'[s] = phase[s]
  BY <1>2, <1>3, <1>i DEF DestroyStreamReturns, TypeOK
<1>5. OnWay' = OnWay
  BY <1>1 DEF OnWay
<1>6. \A m \in OnWay : m.addr \in Addrs /\ m.id \in Streams
  BY <1>i, OnWayIs
<1>10. Homes'
  <2>1. \A a \in Addrs : mem[a].id \in Streams \cup {Nobody}
    BY <1>i DEF TypeOK
  <2> QED
    BY <1>1, <1>2, <1>4, <1>i, <2>1 DEF Homes
<1>11. Calls'
  <2>1. request # NoRequest => request.id \in Streams
    BY <1>i DEF TypeOK, NoRequest
  <2> QED
    BY <1>1, <1>3, <1>4, <1>5, <1>i, <2>1 DEF Calls
<1>12. Hand'
  BY <1>1, <1>3, <1>5, <1>i DEF Hand, Ending, Live
<1>13. Belonging'
  BY <1>1, <1>3, <1>4, <1>5, <1>6, <1>i DEF Belonging, Belongs, Live
<1>14. Ordered'
  BY <1>1, <1>i DEF Ordered, InOrder, AllBefore
<1>15. Responses'
  BY <1>1, <1>3, <1>4, <1>5, <1>6, <1>i DEF Responses, Shown
<1>16. Dudes'
  <2>1. \A s \in Streams : opened < s => s # cur.id
    BY <1>2, <1>i DEF TypeOK, Streams
  <2> QED
    BY <1>1, <1>3, <1>4, <1>i, <2>1 DEF Dudes, Live, Unborn
<1>17. Given'
  BY <1>1, <1>2, <1>4, <1>i DEF Given, BytesAtTheirOffset
<1>18. Bytes'
  BY <1>1, <1>5, <1>i DEF Bytes, Taken, Carried
<1> QED
  BY <1>10, <1>11, <1>12, <1>13, <1>14, <1>15, <1>16, <1>17, <1>18 DEF Rest

\* Flash has been told.
LEMMA UrlNotifyReturnsKeeps ==
    ASSUME UrlInv, UrlNotifyReturns
    PROVE  Rest'
<1>i. /\ TypeOK /\ Homes /\ Calls /\ Hand /\ Belonging /\ Ordered /\ Responses
      /\ Dudes /\ Given /\ Bytes
  BY DEF UrlInv
<1>1. /\ stage = "urlnotify" /\ stage' = "free"
      /\ UNCHANGED <<mem, opened, call, answered, cur, remain, messages, toFood, request, todo,
                     dude, gave, whole, given, short, phase>>
  BY DEF UrlNotifyReturns, callVars, hostVars, pipeVars, flashVars
<1>2. OnWay' = OnWay
  BY <1>1 DEF OnWay
<1>3. Homes' /\ Given' /\ Dudes' /\ Calls'
  BY <1>1, <1>2, <1>i DEF Homes, Given, BytesAtTheirOffset, Dudes, Live, Unborn, Calls
<1>4. Hand'
  BY <1>1, <1>2, <1>i DEF Hand, Ending, Live
<1>5. Belonging' /\ Ordered' /\ Responses'
  BY <1>1, <1>2, <1>i DEF Belonging, Belongs, Live, Ordered, InOrder, AllBefore, Responses, Shown
<1>6. Bytes'
  BY <1>1, <1>2, <1>i DEF Bytes, Taken, Carried
<1> QED
  BY <1>3, <1>4, <1>5, <1>6 DEF Rest

\* The stream goes; nothing under way means it any more.
LEMMA FreeKeeps ==
    ASSUME UrlInv, Free
    PROVE  Rest'
<1> USE AddrsAssumption DEF Nobody
<1>i. /\ TypeOK /\ Homes /\ Calls /\ Hand /\ Belonging /\ Ordered /\ Responses
      /\ Dudes /\ Given /\ Bytes
  BY DEF UrlInv
<1>1. /\ stage = "free" /\ stage' = "none" /\ cur' = NoMsg
      /\ UNCHANGED <<opened, call, answered, remain, messages, toFood, request, todo,
                     dude, gave, whole, given, short, phase>>
      /\ mem' = [mem EXCEPT ![cur.addr] = NoStream]
  BY DEF Free, Return, callVars, hostVars, flashVars
<1>2. /\ cur.addr \in Addrs /\ cur.id \in Streams /\ cur.id # Nobody
      /\ mem[cur.addr].id = cur.id /\ cur.addr # call
  BY <1>1, <1>i, HandIs DEF Streams
<1>3. /\ ~Live(cur.id) /\ request.id # cur.id
      /\ \A m \in OnWay : m.id = cur.id => m.type = "reply"
  BY <1>1, <1>i DEF Hand, Ending
<1>4. /\ mem'[cur.addr].id = Nobody
      /\ \A a \in Addrs : a # cur.addr => mem'[a] = mem[a]
  BY <1>1, <1>2, <1>i DEF TypeOK, NoStream
<1>5. OnWay' = OnWay
  BY <1>1 DEF OnWay
<1>6. \A m \in OnWay : m.addr \in Addrs /\ m.addr # cur.addr
  <2> TAKE m \in OnWay
  <2>1. m.addr \in Addrs /\ mem[m.addr].id = m.id
    BY <1>i, OnWayIs
  <2>2. m.type = "reply" => m.addr = call
    BY <1>i DEF Calls
  <2> QED
    BY <1>2, <1>3, <2>1, <2>2
<1>10. Homes'
  <2>1. 0 <= opened
    BY <1>i DEF TypeOK
  <2> QED
    BY <1>1, <1>4, <1>i, <2>1 DEF Homes
<1>11. Calls'
  <2>1. call # Nobody => mem'[call] = mem[call]
    BY <1>2, <1>4, <1>i DEF TypeOK
  <2> QED
    BY <1>1, <1>5, <1>i, <2>1 DEF Calls
<1>12. Hand'
  BY <1>1 DEF Hand, Ending
<1>13. Belonging' /\ Ordered' /\ Responses'
  BY <1>1, <1>4, <1>5, <1>6, <1>i DEF Belonging, Belongs, Live, Ordered, InOrder, AllBefore,
     Responses, Shown
<1>14. Dudes'
  <2>1. \A s \in Streams : Live(s) => dude[s].addr # cur.addr /\ dude[s].addr \in Addrs
    BY <1>2, <1>3, <1>i DEF Dudes
  <2> QED
    BY <1>1, <1>4, <1>i, <2>1 DEF Dudes, Live, Unborn
<1>15. Given'
  BY <1>1, <1>i DEF Given, BytesAtTheirOffset
<1>16. Bytes'
  BY <1>1, <1>4, <1>5, <1>6, <1>i DEF Bytes, Taken, Carried
<1> QED
  BY <1>10, <1>11, <1>12, <1>13, <1>14, <1>15, <1>16 DEF Rest
-----------------------------------------------------------------------------
(* The steps of the host keep the rest of the invariant.                   *)

\* The call that the host's handler answers.
LEMMA RequestIs ==
    ASSUME UrlInv, request # NoRequest
    PROVE  /\ request.addr = call /\ call \in Addrs /\ request.id \in Streams
           /\ request.id # Nobody /\ request.id <= opened /\ request.kind \in Kinds
           /\ mem[call].id = request.id /\ ~answered
           /\ phase[request.id] = "asked" /\ gave[request.id] = 0 /\ request.id \notin whole
           /\ dude[request.id].state = "none"
           /\ \A m \in OnWay : m.type # "reply" /\ m.id # request.id
           /\ stage # "none" => cur.addr # call /\ cur.id # request.id
<1>i. TypeOK /\ Homes /\ Calls /\ Hand /\ Belonging
  BY DEF UrlInv
<1>1. /\ request \in [addr : Addrs, id : Streams, kind : Kinds]
  BY <1>i DEF TypeOK, NoRequest
<1>2. \A m \in OnWay : m.type # "reply"
  BY <1>i DEF Calls
<1>3. \A m \in OnWay : m.id # request.id
  BY <1>2, <1>i DEF Belonging, Belongs
<1>4. stage # "none" => cur.addr # call /\ cur.id # request.id
  BY <1>i DEF Hand
<1>5. request.addr \in Addrs /\ request.id \in Streams /\ request.kind \in Kinds
  BY <1>1
<1>6. call # Nobody /\ request.addr = call /\ mem[call].id = request.id /\ ~answered
      /\ phase[request.id] = "asked" /\ gave[request.id] = 0 /\ request.id \notin whole
      /\ dude[request.id].state = "none"
  BY <1>i DEF Calls
<1>7. request.id <= opened
  BY <1>5, <1>6, <1>i DEF Homes
<1> QED
  BY <1>2, <1>3, <1>4, <1>5, <1>6, <1>7 DEF Streams, Nobody

\* A call with a target, or one for which a URLDude is started.
LEMMA LoadKeeps ==
    ASSUME UrlInv, NewConnection, request.kind \in {"frame", "load"}
    PROVE  Rest'
<1> DEFINE r == Msg("reply", request)
<1> USE AddrsAssumption DEF Nobody
<1>i. /\ TypeOK /\ Homes /\ Calls /\ Hand /\ Belonging /\ Ordered /\ Responses
      /\ Dudes /\ Given /\ Bytes
  BY DEF UrlInv
<1>1. /\ request # NoRequest /\ request' = NoRequest /\ todo = <<>> /\ todo' = <<r>>
      /\ UNCHANGED <<mem, opened, call, answered, stage, cur, remain, messages, toFood,
                     gave, whole, given, short, phase>>
  BY DEF NewConnection, callVars, handlerVars, pipeVars, flashVars
<1>2. /\ request.addr = call /\ call \in Addrs /\ request.id \in Streams
      /\ request.id # Nobody /\ request.id <= opened
      /\ mem[call].id = request.id /\ ~answered
      /\ phase[request.id] = "asked" /\ gave[request.id] = 0 /\ request.id \notin whole
      /\ dude[request.id].state = "none"
      /\ \A m \in OnWay : m.type # "reply" /\ m.id # request.id
      /\ stage # "none" => cur.addr # call /\ cur.id # request.id
  BY <1>1, RequestIs
<1>3. r.type = "reply" /\ r.addr = call /\ r.id = request.id /\ r \in Messages
  BY <1>2, MessageBuilt DEF Msg
<1>4. /\ \A s \in Streams : s # request.id => dude'[s] = dude[s]
      /\ \/ dude' = dude
         \/ /\ dude'[request.id].state = "started" /\ dude'[request.id].addr = call
            /\ dude'[request.id].id = dude[request.id].id
  <2>1. CASE request.kind = "frame"
    BY <2>1 DEF NewConnection
  <2>2. CASE request.kind = "load"
    <3>1. dude' = [dude EXCEPT ![request.id].addr = call, ![request.id].state = "started"]
      BY <1>2, <2>2 DEF NewConnection
    <3> QED
      BY <1>2, <3>1, <1>i DEF TypeOK
  <2> QED
    BY <2>1, <2>2
<1> HIDE DEF r
<1>5. Range(todo') = {r} /\ InOrder(todo')
  BY <1>1, <1>3, ListOfOne
<1>6. OnWay' = OnWay \cup {r} /\ Ordered'
  <2>1. \A m \in OnWay : Before(m, r)
    BY <1>2, <1>3 DEF Before
  <2> QED
    BY <1>1, <1>5, <1>i, <2>1, HandlerLists
<1>7. \A m \in OnWay : m.addr \in Addrs /\ m.id \in Streams
  BY <1>i, OnWayIs
<1>8. stage # "none" => cur.addr \in Addrs /\ cur.id \in Streams
  BY <1>i, HandIs
<1>10. Homes' /\ Given'
  BY <1>1, <1>i DEF Homes, Given, BytesAtTheirOffset
<1>11. Calls'
  BY <1>1, <1>2, <1>3, <1>6, <1>i DEF Calls
<1>12. Hand'
  BY <1>1, <1>2, <1>3, <1>4, <1>6, <1>8, <1>i DEF Hand, Ending, Live, NoRequest, Streams
<1>13. Belonging'
  BY <1>1, <1>2, <1>3, <1>4, <1>6, <1>7, <1>i DEF Belonging, Belongs, Live, NoRequest, Streams
<1>14. Responses'
  <2>1. \A s \in Streams : Shown(s) => Shown(s)'
    BY <1>1, <1>6 DEF Shown
  <2>2. \A s \in Streams : dude'[s].state = "open" => dude[s].state = "open"
    BY <1>4
  <2> QED
    BY <1>3, <1>6, <1>7, <1>i, <2>1, <2>2 DEF Responses
<1>15. Dudes'
  <2>1. opened < request.id => FALSE
    BY <1>2, <1>i DEF TypeOK, Streams
  <2>2. \A m \in Range(todo') : m.type = "reply"
    BY <1>3, <1>5
  <2> QED
    BY <1>1, <1>2, <1>4, <1>i, <2>1, <2>2 DEF Dudes, Live, Unborn
<1>16. Bytes'
  BY <1>1, <1>3, <1>6, <1>i DEF Bytes, Taken, Carried
<1> QED
  BY <1>6, <1>10, <1>11, <1>12, <1>13, <1>14, <1>15, <1>16 DEF Rest

\* A javascript: URL: response, data and completion before the reply.
LEMMA ScriptKeeps ==
    ASSUME UrlInv, NewConnection, request.kind = "script"
    PROVE  Rest'
<1> USE AddrsAssumption, BoundsAssumption DEF Nobody
<1>i. /\ TypeOK /\ Homes /\ Calls /\ Hand /\ Belonging /\ Ordered /\ Responses
      /\ Dudes /\ Given /\ Bytes
  BY DEF UrlInv
<1>0. PICK n \in 0..MaxBytes :
        /\ n <= MaxTotal
        /\ gave' = [gave EXCEPT ![request.id] = n]
        /\ whole' = whole \cup {request.id}
        /\ todo' = <<Response(request, FALSE), GotData(request, 0, n),
                     AllDone(request, TRUE), Msg("reply", request)>>
  BY DEF NewConnection
<1> DEFINE a == Response(request, FALSE)
           b == GotData(request, 0, n)
           c == AllDone(request, TRUE)
           d == Msg("reply", request)
<1>1. /\ request # NoRequest /\ request' = NoRequest /\ todo = <<>>
      /\ UNCHANGED <<mem, opened, call, answered, stage, cur, remain, messages, toFood,
                     dude, given, short, phase>>
  BY DEF NewConnection, callVars, handlerVars, pipeVars, flashVars
<1>2. /\ request.addr = call /\ call \in Addrs /\ request.id \in Streams
      /\ request.id # Nobody /\ request.id <= opened
      /\ mem[call].id = request.id /\ ~answered
      /\ phase[request.id] = "asked" /\ gave[request.id] = 0 /\ request.id \notin whole
      /\ dude[request.id].state = "none"
      /\ \A m \in OnWay : m.type # "reply" /\ m.id # request.id
      /\ stage # "none" => cur.addr # call /\ cur.id # request.id
  BY <1>1, RequestIs
<1>3. /\ a.type = "response" /\ b.type = "data" /\ c.type = "done" /\ d.type = "reply"
      /\ b.from = 0 /\ b.len = n
      /\ \A m \in {a, b, c, d} : m.addr = call /\ m.id = request.id
      /\ todo' = <<a, b, c, d>>
  BY <1>0, <1>2 DEF Response, GotData, AllDone, Msg
<1>4. {a, b, c, d} \subseteq Messages
  <2>1. n \in 0..MaxBytes /\ 0 \in 0..MaxTotal /\ request.addr \in Addrs
    BY <1>0, <1>2
  <2>2. a \in Messages /\ c \in Messages /\ d \in Messages
    BY <1>2, <2>1, MessageBuilt
  <2>3. b \in Messages
    BY <1>2, <2>1, MessageBuilt
  <2> QED
    BY <2>2, <2>3
<1> HIDE DEF a, b, c, d
<1>5. Range(todo') = {a, b, c, d} /\ InOrder(todo')
  <2>1. /\ Before(a, b) /\ Before(a, c) /\ Before(a, d) /\ Before(b, c) /\ Before(b, d)
        /\ Before(c, d)
    BY <1>3 DEF Before
  <2> QED
    BY <1>3, <1>4, <2>1, ListOfFour
<1>6. OnWay' = OnWay \cup {a, b, c, d} /\ Ordered'
  <2>1. \A m \in OnWay, q \in {a, b, c, d} : Before(m, q)
    BY <1>2, <1>3 DEF Before
  <2> QED
    BY <1>1, <1>5, <1>i, <2>1, HandlerLists
<1>7. \A m \in OnWay : m.addr \in Addrs /\ m.id \in Streams /\ mem[m.addr].id = m.id
  BY <1>i, OnWayIs
<1>8. stage # "none" => cur.addr \in Addrs /\ cur.id \in Streams
  BY <1>i, HandIs
<1>9. /\ gave'[request.id] = n /\ n \in Nat
      /\ \A s \in Streams : s # request.id => gave'[s] = gave[s]
  BY <1>0, <1>2, <1>i DEF TypeOK
<1>10. Homes'
  BY <1>1, <1>i DEF Homes
<1>11. Calls'
  BY <1>1, <1>2, <1>3, <1>6, <1>i DEF Calls
<1>12. Hand'
  <2>1. stage = "write" => cur.from + cur.len <= gave'[cur.id]
    BY <1>2, <1>8, <1>9, <1>i DEF Hand
  <2> QED
    BY <1>1, <1>2, <1>3, <1>6, <1>8, <1>i, <2>1 DEF Hand, Ending, Live, NoRequest, Streams
<1>13. Belonging'
  <2>1. ASSUME NEW m \in OnWay PROVE Belongs(m)'
    BY <1>0, <1>1, <1>7, <1>i, <2>1 DEF Belonging, Belongs, Live, NoRequest, Streams
  <2>2. ASSUME NEW m \in {a, b, c, d} PROVE Belongs(m)'
    BY <1>0, <1>1, <1>2, <1>3 DEF Belongs, Live, NoRequest
  <2> QED
    BY <1>6, <2>1, <2>2 DEF Belonging
<1>14. Responses'
  <2>1. \A s \in Streams : Shown(s) => Shown(s)'
    BY <1>1, <1>6 DEF Shown
  <2>2. ASSUME NEW s \in Streams, s = request.id PROVE Shown(s)'
    BY <1>3, <1>6, <2>2 DEF Shown
  <2>3. ASSUME NEW m \in OnWay', m.type = "data" \/ (m.type = "done" /\ m.ok)
        PROVE  Shown(m.id)'
    <3>1. CASE m \in OnWay
      <4>1. m.id \in Streams /\ Shown(m.id)
        BY <1>7, <1>i, <2>3, <3>1 DEF Responses
      <4> QED
        BY <2>1, <4>1
    <3>2. CASE m \in {a, b, c, d}
      <4>1. m.id \in Streams /\ m.id = request.id
        BY <1>2, <1>3, <3>2
      <4> QED
        BY <2>2, <4>1
    <3> QED
      BY <1>6, <3>1, <3>2
  <2>4. \A s \in Streams : dude'[s].state = "open" => Shown(s)'
    BY <1>1, <1>i, <2>1 DEF Responses
  <2> QED
    BY <2>3, <2>4 DEF Responses
<1>15. Dudes'
  <2>1. opened < request.id => FALSE
    BY <1>2, <1>i DEF TypeOK, Streams
  <2>2. \A m \in Range(todo') : dude[m.id].state = "none"
    BY <1>2, <1>3, <1>5
  <2> QED
    <3>1. ASSUME NEW s \in Streams
          PROVE  /\ dude'[s].id = s
                 /\ Live(s)' => /\ dude'[s].addr \in Addrs /\ mem'[dude'[s].addr].id = s
                                /\ s \notin whole' /\ phase'[s] \in {"asked", "open"}
                 /\ dude'[s].state = "started" => phase'[s] = "asked" /\ gave'[s] = 0
                 /\ opened' < s => Unborn(s)'
      <4>1. CASE s = request.id
        BY <1>1, <1>2, <1>i, <2>1, <4>1 DEF Dudes, Live
      <4>2. CASE s # request.id
        BY <1>0, <1>1, <1>9, <1>i, <4>2 DEF Dudes, Live, Unborn
      <4> QED
        BY <4>1, <4>2
    <3> QED
      BY <1>1, <2>2, <3>1 DEF Dudes
<1>16. Given'
  <2>1. given[request.id] = <<>> /\ Len(given[request.id]) = 0
    BY <1>2, <1>i DEF Given
  <2> QED
    BY <1>1, <1>9, <1>i, <2>1 DEF Given, BytesAtTheirOffset
<1>17. Bytes'
  <2>1. stage # "exited" /\ Len(given[request.id]) = 0 /\ mem[call].ndata = 0
        /\ Taken(call) = 0
    <3>1. stage # "exited" /\ given[request.id] = <<>> /\ mem[call].ndata = Len(given[request.id])
      BY <1>2, <1>i DEF Given, Bytes, NewConnection
    <3>2. mem[call].ndata = 0 /\ Len(given[request.id]) = 0
      BY <3>1
    <3>3. Taken(call) = 0
      BY <1>2, <3>2 DEF Taken
    <3> QED
      BY <3>1, <3>2, <3>3
  <2>2. \A e \in Addrs : Taken(e)' = Taken(e)
    BY <1>1 DEF Taken
  <2>3. ASSUME NEW e \in Addrs, mem[e].id # Nobody, mem[e].id \notin short
        PROVE  /\ Len(given[mem[e].id]) = mem[e].ndata
               /\ Taken(e) <= gave'[mem[e].id]
               /\ \A k \in 0..MaxTotal :
                     Taken(e) <= k /\ k < gave'[mem[e].id] => Carried(mem[e].id, k)'
    <3>1. CASE e = call
      <4>1. ASSUME NEW k \in 0..MaxTotal, k < n PROVE Carried(mem[e].id, k)'
        <5>1. b \in OnWay' /\ b.type = "data" /\ b.id = mem'[e].id /\ b.from <= k
              /\ k < b.from + b.len
          BY <1>1, <1>2, <1>3, <1>6, <1>9, <3>1, <4>1
        <5> QED
          BY <5>1 DEF Carried
      <4> QED
        BY <1>2, <1>9, <2>1, <3>1, <4>1
    <3>2. CASE e # call
      <4>1. mem[e].id # request.id /\ mem[e].id \in Streams
        BY <1>2, <1>i, <2>3, <3>2 DEF Homes, TypeOK
      <4>2. \A k \in 0..MaxTotal : Carried(mem[e].id, k) => Carried(mem[e].id, k)'
        BY <1>1, <1>6 DEF Carried
      <4> QED
        BY <1>9, <1>i, <2>1, <2>3, <4>1, <4>2 DEF Bytes
    <3> QED
      BY <3>1, <3>2
  <2>4. ASSUME NEW m \in OnWay', m.type = "data"
        PROVE  /\ m.from + m.len <= gave'[m.id]
               /\ m.id \notin short => Taken(m.addr) <= m.from
    <3>1. CASE m \in OnWay
      BY <1>2, <1>7, <1>9, <1>i, <2>1, <2>4, <3>1 DEF Bytes
    <3>2. CASE m = b
      BY <1>3, <1>9, <2>1, <3>2
    <3> QED
      BY <1>3, <1>6, <2>4, <3>1, <3>2
  <2>5. \A m \in OnWay' : m.addr \in Addrs
    BY <1>2, <1>3, <1>6, <1>7
  <2>6. stage = "write" /\ cur.id \notin short => cur.from = mem[cur.addr].ndata
    BY <1>i DEF Bytes
  <2> QED
    BY <1>1, <2>2, <2>3, <2>4, <2>5, <2>6 DEF Bytes
<1> QED
  BY <1>6, <1>10, <1>11, <1>12, <1>13, <1>14, <1>15, <1>16, <1>17 DEF Rest

\* The handler sends on what it listed.
LEMMA HandlerSendsKeeps ==
    ASSUME UrlInv, HandlerSends
    PROVE  Rest'
<1>i. /\ TypeOK /\ Homes /\ Calls /\ Hand /\ Belonging /\ Ordered /\ Responses
      /\ Dudes /\ Given /\ Bytes
  BY DEF UrlInv
<1>1. UNCHANGED <<mem, opened, call, answered, stage, cur, remain, messages, request,
                  dude, gave, whole, given, short, phase>>
  BY DEF HandlerSends, callVars, handlerVars, flashVars
<1>2. OnWay' = OnWay /\ Range(todo') \subseteq Range(todo) /\ Ordered'
  BY <1>i, HandlerSendsMoves
<1>3. Homes' /\ Given' /\ Calls'
  BY <1>1, <1>2, <1>i DEF Homes, Given, BytesAtTheirOffset, Calls
<1>4. Dudes'
  BY <1>1, <1>2, <1>i DEF Dudes, Live, Unborn
<1>5. Hand'
  BY <1>1, <1>2, <1>i DEF Hand, Ending, Live
<1>6. Belonging' /\ Responses'
  BY <1>1, <1>2, <1>i DEF Belonging, Belongs, Live, Responses, Shown
<1>7. Bytes'
  BY <1>1, <1>2, <1>i DEF Bytes, Taken, Carried
<1> QED
  BY <1>2, <1>3, <1>4, <1>5, <1>6, <1>7 DEF Rest

\* What a URLDude sends, and how that changes the URLDude: a response first,
\* then data from where it stopped, then an end.
Reports(s, m, n, state) ==
    /\ m.id = s /\ m.addr = dude[s].addr
    /\ \/ /\ m.type = "response" /\ dude[s].state = "started" /\ state = "open"
          /\ n = 0 /\ UNCHANGED whole
       \/ /\ m.type = "data" /\ dude[s].state = "open" /\ state = "open"
          /\ m.from = gave[s] /\ m.len = n /\ UNCHANGED whole
       \/ /\ m.type = "done" /\ (m.ok => dude[s].state = "open") /\ state = "ended"
          /\ n = 0 /\ whole' = whole \cup {s}

\* A message of a URLDude comes after all of its stream that are under way,
\* and its stream lives.
LEMMA DudeFits ==
    ASSUME UrlInv, NEW s \in Streams, Live(s), NEW m \in Messages, NEW n \in Nat,
           NEW state \in {"open", "ended"}, DudeSends(s, m, state), Reports(s, m, n, state)
    PROVE  /\ OnWay' = OnWay \cup {m} /\ Ordered'
           /\ request.id # s
           /\ \A q \in Range(todo) : q.type # "reply" => q.id # s
<1>i. /\ TypeOK /\ Homes /\ Calls /\ Belonging /\ Ordered /\ Dudes /\ Bytes
  BY DEF UrlInv
<1>1. /\ stage # "exited" /\ toFood' = Append(toFood, m) /\ UNCHANGED <<messages, todo>>
  BY DEF DudeSends
<1>2. m.id = s /\ m.type \in {"response", "data", "done"}
  BY DEF Reports
<1>3. ASSUME NEW q \in OnWay, q.type # "reply", q.id = s
      PROVE  q.type # "done" /\ m.type # "response"
             /\ (q.type = "data" /\ m.type = "data" => q.from + q.len <= m.from)
  <2>1. q.type # "done" /\ dude[s].state # "started"
    BY <1>3, <1>i DEF Belonging, Belongs
  <2>2. q.type = "data" => q.from + q.len <= gave[s]
    BY <1>1, <1>3, <1>i DEF Bytes
  <2> QED
    BY <2>1, <2>2 DEF Reports
<1>4. \A q \in OnWay : Before(q, m)
  BY <1>2, <1>3 DEF Before
<1>5. \A q \in Range(todo) : q.type # "reply" => q.id # s
  BY <1>i DEF Dudes, Live
<1>6. \A q \in Range(todo) : Before(m, q)
  BY <1>2, <1>5 DEF Before
<1>7. OnWay' = OnWay \cup {m} /\ Ordered'
  BY <1>1, <1>4, <1>6, <1>i, DudePuts DEF OnWay
<1>8. request.id # s
  <2>1. request = NoRequest => request.id # s
    BY DEF NoRequest, Nobody, Streams
  <2>2. request # NoRequest => dude[request.id].state = "none"
    BY <1>i DEF Calls
  <2> QED
    BY <2>1, <2>2 DEF Live
<1> QED
  BY <1>5, <1>7, <1>8

LEMMA DudeKeeps ==
    ASSUME UrlInv, NEW s \in Streams, Live(s), NEW m \in Messages, NEW n \in Nat,
           NEW state \in {"open", "ended"}, DudeSends(s, m, state), Reports(s, m, n, state),
           gave' = [gave EXCEPT ![s] = gave[s] + n]
    PROVE  Rest'
<1> USE BoundsAssumption DEF Nobody
<1>i. /\ TypeOK /\ Homes /\ Calls /\ Hand /\ Belonging /\ Ordered /\ Responses
      /\ Dudes /\ Given /\ Bytes
  BY DEF UrlInv
<1>1. /\ stage # "exited" /\ dude' = [dude EXCEPT ![s].state = state]
      /\ UNCHANGED <<mem, opened, call, answered, stage, cur, remain, messages, request, todo,
                     given, short, phase>>
  BY DEF DudeSends, callVars, handlerVars, flashVars
<1>2. /\ OnWay' = OnWay \cup {m} /\ Ordered' /\ request.id # s
      /\ \A q \in Range(todo) : q.type # "reply" => q.id # s
  BY DudeFits
<1>3. /\ dude[s].addr \in Addrs /\ mem[dude[s].addr].id = s /\ s \notin whole
      /\ s <= opened /\ phase[s] \in {"asked", "open"}
  BY <1>i, DudeIs
<1>4. m.id = s /\ m.addr = dude[s].addr /\ m.type \in {"response", "data", "done"}
  BY DEF Reports
<1>5. /\ dude'[s].state = state /\ dude'[s].addr = dude[s].addr /\ dude'[s].id = dude[s].id
      /\ \A t \in Streams : t # s => dude'[t] = dude[t]
  BY <1>1, <1>i DEF TypeOK
<1>6. /\ gave[s] \in Nat /\ gave'[s] = gave[s] + n
      /\ \A t \in Streams : t # s => gave'[t] = gave[t]
  BY <1>i DEF TypeOK
<1>7. whole \subseteq whole' /\ (\A t \in Streams : t # s /\ t \in whole' => t \in whole)
      /\ (s \in whole' => state = "ended") /\ (m.type = "done" => s \in whole')
  BY <1>3 DEF Reports
<1>8. \A q \in OnWay : q.addr \in Addrs /\ q.id \in Streams /\ mem[q.addr].id = q.id
  BY <1>i, OnWayIs
<1>9. stage # "none" => cur.addr \in Addrs /\ cur.id \in Streams
  BY <1>i, HandIs
<1>10. Homes'
  BY <1>1, <1>i DEF Homes
<1>11. Calls'
  <2>1. request # NoRequest => request.id \in Streams
    BY <1>i DEF TypeOK, NoRequest
  <2> QED
    BY <1>1, <1>2, <1>4, <1>5, <1>6, <1>7, <1>i, <2>1 DEF Calls
<1>12. Hand'
  <2>1. Ending => cur.id # s
    BY <1>i DEF Hand
  <2>2. stage = "write" => cur.from + cur.len <= gave'[cur.id]
    <3>1. stage = "write" => /\ cur.from \in Nat /\ cur.len \in Nat
                             /\ cur.from + cur.len <= gave[cur.id]
      BY <1>i, HandIs DEF Hand
    <3> QED
      BY <1>6, <1>9, <3>1
  <2> QED
    BY <1>1, <1>2, <1>4, <1>5, <1>9, <1>i, <2>1, <2>2 DEF Hand, Ending, Live
<1>13. Belonging'
  <2>1. ASSUME NEW q \in OnWay PROVE Belongs(q)'
    <3>1. q.id \in Streams /\ Belongs(q)
      BY <1>8, <1>i DEF Belonging
    <3>2. CASE q.id = s
      BY <1>1, <1>5, <1>7, <3>1, <3>2 DEF Belongs, Live
    <3>3. CASE q.id # s
      BY <1>1, <1>5, <1>7, <3>1, <3>3 DEF Belongs, Live
    <3> QED
      BY <3>2, <3>3
  <2>2. Belongs(m)'
    <3>1. m.type = "response" => phase[s] = "asked"
      BY <1>i DEF Reports, Dudes
    <3>2. m.type = "done" => state = "ended"
      BY DEF Reports
    <3> QED
      BY <1>1, <1>2, <1>3, <1>4, <1>5, <1>7, <3>1, <3>2 DEF Belongs, Live
  <2> QED
    BY <1>2, <2>1, <2>2 DEF Belonging
<1>14. Responses'
  <2>1. \A t \in Streams : Shown(t) => Shown(t)'
    BY <1>1, <1>2 DEF Shown
  <2>2. dude[s].state = "open" => Shown(s)'
    BY <1>i, <2>1 DEF Responses
  <2>3. m.type = "response" => Shown(s)'
    BY <1>2, <1>4 DEF Shown
  <2>4. m.type = "data" \/ (m.type = "done" /\ m.ok) => Shown(s)'
    BY <2>2 DEF Reports
  <2>5. state = "open" => Shown(s)'
    BY <2>2, <2>3 DEF Reports
  <2>6. \A t \in Streams : dude'[t].state = "open" => Shown(t)'
    BY <1>5, <1>i, <2>1, <2>5 DEF Responses
  <2>7. \A q \in OnWay' : q.type = "data" \/ (q.type = "done" /\ q.ok) => Shown(q.id)'
    BY <1>2, <1>4, <1>8, <1>i, <2>1, <2>4 DEF Responses
  <2> QED
    BY <2>6, <2>7 DEF Responses
<1>15. Dudes'
  <2>1. ASSUME NEW t \in Streams
        PROVE  /\ dude'[t].id = t
               /\ Live(t)' => /\ dude'[t].addr \in Addrs /\ mem'[dude'[t].addr].id = t
                              /\ t \notin whole' /\ phase'[t] \in {"asked", "open"}
               /\ dude'[t].state = "started" => phase'[t] = "asked" /\ gave'[t] = 0
               /\ opened' < t => Unborn(t)'
    <3>1. CASE t = s
      <4>1. ~(opened' < t)
        BY <1>1, <1>3, <1>i, <3>1 DEF TypeOK, Streams
      <4> QED
        BY <1>1, <1>3, <1>5, <1>7, <1>i, <3>1, <4>1 DEF Dudes, Live
    <3>2. CASE t # s
      BY <1>1, <1>5, <1>6, <1>7, <1>i, <3>2 DEF Dudes, Live, Unborn
    <3> QED
      BY <3>1, <3>2
  <2>2. \A q \in Range(todo) : q.type # "reply" => dude'[q.id].state = "none"
    <3>1. \A q \in Range(todo) : q.id \in Streams
      BY <1>8 DEF OnWay
    <3> QED
      BY <1>2, <1>5, <1>i, <3>1 DEF Dudes
  <2> QED
    BY <1>1, <2>1, <2>2 DEF Dudes
<1>16. Given'
  <2>1. ASSUME NEW t \in Streams \ short PROVE Len(given[t]) <= gave'[t]
    <3>1. Len(given[t]) <= gave[t] /\ Len(given[t]) \in Nat
      BY <1>i, LenProperties DEF Given, TypeOK
    <3> QED
      BY <1>6, <3>1
  <2> QED
    BY <1>1, <1>i, <2>1 DEF Given, BytesAtTheirOffset
<1>17. Bytes'
  <2>1. \A a \in Addrs : Taken(a)' = Taken(a) /\ Taken(a) \in Int
    <3>1. remain \in Int /\ \A a \in Addrs : mem[a].ndata \in Int
      BY <1>i DEF TypeOK, Offsets
    <3> QED
      BY <1>1, <3>1 DEF Taken
  <2>2. ASSUME NEW a \in Addrs, mem[a].id # Nobody, mem[a].id \notin short
        PROVE  /\ Len(given[mem[a].id]) = mem[a].ndata
               /\ Taken(a) <= gave'[mem[a].id]
               /\ \A k \in 0..MaxTotal :
                     Taken(a) <= k /\ k < gave'[mem[a].id] => Carried(mem[a].id, k)'
    <3>1. /\ Len(given[mem[a].id]) = mem[a].ndata /\ Taken(a) <= gave[mem[a].id]
          /\ \A k \in 0..MaxTotal :
                Taken(a) <= k /\ k < gave[mem[a].id] => Carried(mem[a].id, k)
          /\ mem[a].id \in Streams
      BY <1>1, <1>i, <2>2 DEF Bytes, TypeOK
    <3>2. \A k \in 0..MaxTotal : Carried(mem[a].id, k) => Carried(mem[a].id, k)'
      BY <1>1, <1>2 DEF Carried
    <3>3. CASE mem[a].id = s
      <4>1. Taken(a) <= gave'[s]
        BY <1>6, <2>1, <3>1, <3>3
      <4>2. ASSUME NEW k \in 0..MaxTotal, Taken(a) <= k, k < gave'[s]
            PROVE  Carried(mem[a].id, k)'
        <5>1. CASE k < gave[s]
          BY <3>1, <3>2, <3>3, <4>2, <5>1
        <5>2. CASE ~(k < gave[s])
          <6>1. m.type = "data" /\ m.from = gave[s] /\ m.len = n
            BY <1>6, <4>2, <5>2 DEF Reports
          <6>2. m.from <= k /\ k < m.from + m.len
            BY <1>6, <4>2, <5>2, <6>1
          <6> QED
            BY <1>1, <1>2, <1>4, <3>3, <6>1, <6>2 DEF Carried
        <5> QED
          BY <5>1, <5>2
      <4> QED
        BY <3>1, <3>3, <4>1, <4>2
    <3>4. CASE mem[a].id # s
      BY <1>6, <3>1, <3>2, <3>4
    <3> QED
      BY <3>3, <3>4
  <2>3. ASSUME NEW q \in OnWay', q.type = "data"
        PROVE  /\ q.from + q.len <= gave'[q.id]
               /\ q.id \notin short => Taken(q.addr) <= q.from
    <3>1. CASE q \in OnWay
      <4>1. /\ q.from + q.len <= gave[q.id] /\ q.id \in Streams
            /\ q.id \notin short => Taken(q.addr) <= q.from
            /\ q.from \in Nat /\ q.len \in Nat
        BY <1>1, <1>i, <2>3, <3>1, OnWayIs DEF Bytes
      <4> QED
        BY <1>6, <4>1
    <3>2. CASE q = m
      <4>1. m.from = gave[s] /\ m.len = n
        BY <2>3, <3>2 DEF Reports
      <4>2. s \notin short => Taken(m.addr) <= gave[s]
        BY <1>1, <1>3, <1>4, <1>i DEF Bytes, Streams
      <4> QED
        BY <1>4, <1>6, <3>2, <4>1, <4>2
    <3> QED
      BY <1>2, <3>1, <3>2
  <2>4. \A q \in OnWay' : q.addr \in Addrs
    BY <1>2, <1>3, <1>4, <1>8
  <2>5. stage = "write" /\ cur.id \notin short => cur.from = mem[cur.addr].ndata
    BY <1>1, <1>i DEF Bytes
  <2> QED
    BY <1>1, <2>1, <2>2, <2>3, <2>4, <2>5 DEF Bytes
<1> QED
  BY <1>2, <1>10, <1>11, <1>12, <1>13, <1>14, <1>15, <1>16, <1>17 DEF Rest

\* Each step of a URLDude is such a report.
LEMMA URLDudeReports ==
    ASSUME UrlInv, NEW s \in Streams, URLDude(s)
    PROVE  /\ Live(s)
           /\ \E m \in Messages, n \in Nat, state \in {"open", "ended"} :
                 /\ DudeSends(s, m, state) /\ Reports(s, m, n, state)
                 /\ gave' = [gave EXCEPT ![s] = gave[s] + n]
<1> USE BoundsAssumption
<1>i. TypeOK /\ Dudes
  BY DEF UrlInv
<1>1. Live(s)
  BY DEF URLDude, DidReceiveResponse, DidReceiveData, DidFinishLoading,
     DidFailWithError, Live
<1>2. dude[s].addr \in Addrs /\ dude[s].id = s
  BY <1>1, <1>i, DudeIs
<1>3. gave[s] \in 0..MaxTotal /\ gave \in [Streams -> 0..MaxTotal]
  BY <1>i DEF TypeOK
<1>4. gave' = gave => gave' = [gave EXCEPT ![s] = gave[s] + 0]
  BY <1>3
<1>5. CASE DidReceiveResponse(s)
  <2> DEFINE m == Response(dude[s], TRUE)
  <2>1. m \in Messages
    BY <1>2, MessageBuilt
  <2>2. Reports(s, m, 0, "open") /\ DudeSends(s, m, "open") /\ gave' = gave
    BY <1>2, <1>5 DEF DidReceiveResponse, Reports, Response
  <2> QED
    BY <1>1, <1>4, <2>1, <2>2
<1>6. CASE DidReceiveData(s)
  <2>1. PICK n \in 1..MaxBytes :
            /\ gave[s] + n <= MaxTotal
            /\ gave' = [gave EXCEPT ![s] = @ + n]
            /\ DudeSends(s, GotData(dude[s], gave[s], n), "open")
    BY <1>6 DEF DidReceiveData
  <2> DEFINE m == GotData(dude[s], gave[s], n)
  <2>2. m \in Messages
    <3>1. gave[s] \in 0..MaxTotal /\ n \in 0..MaxBytes
      BY <1>3, <2>1
    <3> QED
      BY <1>2, <3>1, MessageBuilt
  <2>3. Reports(s, m, n, "open")
    BY <1>2, <1>6 DEF DidReceiveData, Reports, GotData
  <2>4. n \in Nat
    BY <2>1
  <2> QED
    BY <1>1, <2>1, <2>2, <2>3, <2>4
<1>7. CASE DidFinishLoading(s)
  <2> DEFINE m == AllDone(dude[s], TRUE)
  <2>1. m \in Messages
    BY <1>2, MessageBuilt
  <2>2. Reports(s, m, 0, "ended") /\ DudeSends(s, m, "ended") /\ gave' = gave
    BY <1>2, <1>7 DEF DidFinishLoading, Reports, AllDone
  <2> QED
    BY <1>1, <1>4, <2>1, <2>2
<1>8. CASE DidFailWithError(s)
  <2> DEFINE m == AllDone(dude[s], FALSE)
  <2>1. m \in Messages
    BY <1>2, MessageBuilt
  <2>2. Reports(s, m, 0, "ended") /\ DudeSends(s, m, "ended") /\ gave' = gave
    BY <1>2, <1>8 DEF DidFailWithError, Reports, AllDone
  <2> QED
    BY <1>1, <1>4, <2>1, <2>2
<1> QED
  BY <1>5, <1>6, <1>7, <1>8 DEF URLDude
-----------------------------------------------------------------------------
(* The invariant, and the properties it gives.                             *)

\* A step keeps the invariant.
LEMMA InvStep == UrlInv /\ [Next]_vars => UrlInv'
<1> SUFFICES ASSUME UrlInv, [Next]_vars PROVE UrlInv'
  OBVIOUS
<1>1. CASE Next
  <2>1. ASSUME Later PROVE Rest'
    <3>1. PICK a \in Addrs : Ask(a, "load", "dummy")
      BY <2>1 DEF Later
    <3> QED
      BY <3>1, AskKeeps DEF Kinds
  <2>2. ASSUME FlashAsks PROVE Rest'
    <3>1. PICK a \in Addrs, kind \in Kinds, notify \in {"none", "flash"} : Ask(a, kind, notify)
      BY <2>2 DEF FlashAsks
    <3> QED
      BY <3>1, AskKeeps
  <2>3. ASSUME NewConnection PROVE Rest'
    <3>1. request.kind \in Kinds
      BY <2>3, RequestIs DEF NewConnection
    <3> QED
      BY <2>3, <3>1, LoadKeeps, ScriptKeeps DEF Kinds
  <2>4. ASSUME NEW s \in Streams, URLDude(s) PROVE Rest'
    <3>1. PICK m \in Messages, n \in Nat, state \in {"open", "ended"} :
              /\ DudeSends(s, m, state) /\ Reports(s, m, n, state)
              /\ gave' = [gave EXCEPT ![s] = gave[s] + n]
      BY <2>4, URLDudeReports
    <3>2. Live(s)
      BY <2>4, URLDudeReports
    <3> QED
      BY <3>1, <3>2, DudeKeeps
  <2>5. Rest'
    BY <1>1, <2>1, <2>2, <2>3, <2>4, CallReturnsKeeps, ReceiveKeeps, ResponseKeeps,
       NewStreamReturnsKeeps, DataKeeps, WriteKeeps, DoneKeeps, DestroyStreamReturnsKeeps,
       UrlNotifyReturnsKeeps, FreeKeeps, HandlerSendsKeeps DEF Next, Player
  <2> QED
    BY <1>1, <2>5, TypesStep DEF Rest, UrlInv
<1>2. CASE UNCHANGED vars
  <2>1. UNCHANGED <<mem, opened, stage, cur, remain, call, nested, answered, messages, started,
                    toFood, request, todo, dude, gave, given, short, loads, whole, phase>>
    BY <1>2 DEF vars, callVars, handlerVars, pipeVars, hostVars, flashVars
  <2>2. OnWay' = OnWay
    BY <2>1 DEF OnWay
  <2>3. TypeOK'
    BY <2>1 DEF UrlInv, TypeOK
  <2>4. Homes' /\ Calls' /\ Given'
    BY <2>1, <2>2 DEF UrlInv, Homes, Calls, Given, BytesAtTheirOffset
  <2>5. Hand' /\ Dudes'
    BY <2>1, <2>2 DEF UrlInv, Hand, Ending, Live, Dudes, Unborn
  <2>6. Belonging' /\ Ordered' /\ Responses'
    BY <2>1, <2>2 DEF UrlInv, Belonging, Belongs, Live, Ordered, InOrder, AllBefore,
       Responses, Shown
  <2>7. Bytes'
    BY <2>1, <2>2 DEF UrlInv, Bytes, Taken, Carried
  <2> QED
    BY <2>3, <2>4, <2>5, <2>6, <2>7 DEF UrlInv
<1> QED
  BY <1>1, <1>2

LEMMA InvHolds == Spec => []UrlInv
BY InvInit, InvStep, PTL DEF Spec

\* The types of UrlStream: messages of the host name addresses and streams
\* that exist, no message carries more bytes than the bounds, and Flash is
\* given no byte that no stream has, whatever NPP_Write takes.
THEOREM UrlTypes == Spec => []TypeOK
<1>1. UrlInv => TypeOK
  BY DEF UrlInv
<1> QED
  BY <1>1, InvHolds, PTL

\* connection_all_done (np.c) never hands to Flash, or frees, a url that the
\* stub of the call has not stored: whenever it gets that far for a stream,
\* the call that opened this stream has returned.
THEOREM UrlFilled == Spec => []UrlFilledBeforeUse
<1>1. UrlInv => UrlFilledBeforeUse
  <2> SUFFICES ASSUME UrlInv, stage \in {"urlnotify", "free"} PROVE mem[cur.addr].url
    BY DEF UrlFilledBeforeUse
  <2>1. /\ cur.addr \in Addrs /\ cur.id \in Streams /\ mem[cur.addr].id = cur.id
        /\ cur.addr # call
    BY HandIs DEF UrlInv
  <2> QED
    BY <2>1 DEF UrlInv, Homes, Streams, Nobody
<1> QED
  BY <1>1, InvHolds, PTL

\* The messages of the host, which carry the address of an NPStream, always
\* mean the stream that lives there, however streams are freed and malloc
\* reuses their addresses.
THEOREM MessagesHit == Spec => []HitsItsStream
<1>1. UrlInv => HitsItsStream
  <2> SUFFICES ASSUME UrlInv PROVE HitsItsStream
    OBVIOUS
  <2>i. TypeOK /\ Homes /\ Hand /\ Belonging
    BY DEF UrlInv
  <2> DEFINE pipe == messages \o toFood \o todo
  <2>1. pipe \in Seq(Messages) /\ Range(pipe) = OnWay
    <3>1. messages \in Seq(Messages) /\ toFood \in Seq(Messages) /\ todo \in Seq(Messages)
      BY <2>i, QueuesTyped
    <3> QED
      BY <3>1, ThreeQueues DEF OnWay
  <2> HIDE DEF pipe
  <2>2. ASSUME NEW i \in DOMAIN pipe PROVE mem[pipe[i].addr].id = pipe[i].id
    <3>1. pipe[i] \in OnWay
      <4>1. i \in 1..Len(pipe)
        BY <2>1, <2>2, LenProperties
      <4>2. pipe[i] \in Range(pipe)
        BY <2>1, <4>1, RangeIs
      <4> QED
        BY <2>1, <4>2
    <3> QED
      BY <2>i, <3>1 DEF Belonging, Belongs
  <2>3. cur # NoMsg => mem[cur.addr].id = cur.id
    BY <2>i DEF Hand
  <2> QED
    BY <2>2, <2>3 DEF HitsItsStream, pipe
<1> QED
  BY <1>1, InvHolds, PTL

\* The write loop of connection_got_data hands Flash each byte of a stream at
\* the offset it has in what the host received, up to the first NPP_Write
\* that takes less than it is offered: then, and only then, can the loop put
\* a byte at the offset of another one.
THEOREM BytesInPlace == Spec => []BytesAtTheirOffset
<1>1. UrlInv => BytesAtTheirOffset
  BY DEF UrlInv, Given
<1> QED
  BY <1>1, InvHolds, PTL
-----------------------------------------------------------------------------
(* Nobody waits for what will not come.                                    *)

\* A message of this type for this stream is under way.
Coming(type, s) == \E m \in OnWay : m.type = type /\ m.id = s

Unclosed(s) == phase[s] \in {"asked", "open"}

\* The call has its request, its answer, or a reply under way.
CallOwed == call # Nobody => request # NoRequest \/ answered \/ \E m \in OnWay : m.type = "reply"

\* Streams without a target: opened ones, which somebody will close.
LoadsOwed ==
    /\ \A s \in loads : s <= opened
    /\ request.kind = "frame" => request.id \notin loads
    /\ stage # "exited" =>
          \A s \in loads : Unclosed(s) => request.id = s \/ Live(s) \/ Coming("done", s)

\* The step leaves the loads alone, and takes nothing that a load waits for
\* unless it closes the load.
KeepsLoads ==
    /\ UNCHANGED <<opened, request, loads>>
    /\ stage' # "exited" => stage # "exited"
    /\ \A m \in OnWay : m.type = "done" => m \in OnWay' \/ stage' = "exited" \/ ~Unclosed(m.id)'
    /\ \A s \in Streams : Unclosed(s)' => Unclosed(s)
    /\ \A s \in Streams : Live(s) => Live(s)' \/ Coming("done", s)'

LEMMA LoadsKept ==
    ASSUME TypeOK, LoadsOwed, KeepsLoads
    PROVE  LoadsOwed'
<1>1. /\ \A s \in loads' : s <= opened'
      /\ request'.kind = "frame" => request'.id \notin loads'
  BY DEF LoadsOwed, KeepsLoads
<1>2. ASSUME stage' # "exited", NEW s \in loads, Unclosed(s)'
      PROVE  request'.id = s \/ Live(s)' \/ Coming("done", s)'
  <2>1. s \in Streams /\ stage # "exited" /\ Unclosed(s) /\ request' = request
    BY <1>2 DEF KeepsLoads, TypeOK
  <2>2. CASE request.id = s
    BY <2>1, <2>2
  <2>3. CASE Live(s)
    BY <2>1, <2>3 DEF KeepsLoads
  <2>4. CASE Coming("done", s)
    <3>1. PICK m \in OnWay : m.type = "done" /\ m.id = s
      BY <2>4 DEF Coming
    <3>2. m \in OnWay'
      BY <1>2, <3>1 DEF KeepsLoads
    <3> QED
      BY <3>1, <3>2 DEF Coming
  <2> QED
    BY <1>2, <2>1, <2>2, <2>3, <2>4 DEF LoadsOwed
<1>3. loads' = loads
  BY DEF KeepsLoads
<1> QED
  BY <1>1, <1>2, <1>3 DEF LoadsOwed

\* A new stream: its request is on the way.
LEMMA AskOwes ==
    ASSUME UrlInv, CallOwed, LoadsOwed, NEW a \in Addrs, NEW kind \in Kinds,
           NEW notify \in {"none", "flash", "dummy"}, Ask(a, kind, notify)
    PROVE  CallOwed' /\ LoadsOwed'
<1> DEFINE s == opened + 1
<1>i. TypeOK /\ Calls
  BY DEF UrlInv
<1>1. /\ opened \in Nat /\ opened' = s /\ call = Nobody /\ stage' = stage
      /\ request' = [addr |-> a, id |-> s, kind |-> kind]
      /\ loads' = IF kind = "frame" THEN loads ELSE loads \cup {s}
      /\ phase' = [phase EXCEPT ![s] = "asked"]
      /\ dude' = dude /\ OnWay' = OnWay
  BY <1>i DEF Ask, TypeOK, handlerVars, pipeVars, OnWay
<1>2. loads \subseteq Streams /\ \A t \in loads : t <= opened /\ t \in Nat /\ t # s
  BY <1>1, <1>i DEF TypeOK, LoadsOwed, Streams
<1>3. request.id = Nobody /\ \A t \in loads : t # Nobody
  BY <1>1, <1>2, <1>i DEF Calls, NoRequest, Streams, Nobody
<1>4. \A t \in loads : phase'[t] = phase[t]
  BY <1>1, <1>2, <1>i DEF TypeOK
<1>5. CallOwed'
  <2>1. request' # NoRequest'
    BY <1>1, AddrsAssumption DEF NoRequest, Nobody
  <2> QED
    BY <2>1 DEF CallOwed
<1> HIDE DEF s
<1>6. ASSUME stage # "exited", NEW t \in loads', Unclosed(t)'
      PROVE  request'.id = t \/ Live(t)' \/ Coming("done", t)'
  <2>1. CASE t = s
    BY <1>1, <2>1
  <2>2. CASE t # s
    <3>1. t \in loads /\ Unclosed(t) /\ request.id # t
      BY <1>1, <1>3, <1>4, <1>6, <2>2 DEF Unclosed
    <3>2. Live(t) \/ Coming("done", t)
      BY <1>6, <3>1 DEF LoadsOwed
    <3> QED
      BY <1>1, <3>2 DEF Live, Coming
  <2> QED
    BY <2>1, <2>2
<1>7. /\ \A t \in loads' : t <= opened'
      /\ request'.kind = "frame" => request'.id \notin loads'
  BY <1>1, <1>2 DEF s
<1> QED
  BY <1>1, <1>5, <1>6, <1>7 DEF LoadsOwed

\* The reader drops nothing: the reply ends the call, the rest is queued.
LEMMA ReceiveOwes ==
    ASSUME UrlInv, CallOwed, LoadsOwed, Receive
    PROVE  CallOwed' /\ LoadsOwed'
<1>i. TypeOK /\ Ordered
  BY DEF UrlInv
<1>1. UNCHANGED <<call, opened, loads, stage, request, dude, phase>>
  BY DEF Receive, handlerVars, hostVars, flashVars
<1>2. Head(toFood).type # "reply" => OnWay' = OnWay /\ UNCHANGED answered
  BY <1>i, ReceiveMoves
<1>3. Head(toFood).type = "reply" => OnWay = OnWay' \cup {Head(toFood)} /\ answered'
  BY <1>i, ReceiveMoves
<1>4. CallOwed'
  BY <1>1, <1>2, <1>3 DEF CallOwed, NoRequest
<1>5. KeepsLoads
  BY <1>1, <1>2, <1>3 DEF KeepsLoads, Unclosed, Live
<1> QED
  BY <1>4, <1>5, <1>i, LoadsKept

\* The run loop takes a message while no call waits; the completion of a
\* stream closes it, or ends the player.
LEMMA HandleOwes ==
    ASSUME UrlInv, CallOwed, LoadsOwed, ConnectionResponse \/ ConnectionGotData \/ ConnectionAllDone
    PROVE  CallOwed' /\ LoadsOwed'
<1>i. TypeOK /\ Homes /\ Belonging
  BY DEF UrlInv
<1>1. UNCHANGED <<call, opened, loads, toFood, request, todo, dude>>
  BY DEF ConnectionResponse, ConnectionGotData, ConnectionAllDone, callVars, hostVars, flashVars
<1>2. PICK type \in {"response", "data", "done"} :
        /\ Handle(type)
        /\ type = "response" => ConnectionResponse
        /\ type = "data" => ConnectionGotData
        /\ type = "done" => ConnectionAllDone
  BY DEF ConnectionResponse, ConnectionGotData, ConnectionAllDone
<1>3. /\ cur'.type = type /\ cur'.id \in Streams /\ stage = "none" /\ call = Nobody
      /\ OnWay = OnWay' \cup {cur'}
  BY <1>1, <1>2, HandleIs
<1>4. CallOwed'
  BY <1>1, <1>3 DEF CallOwed, Nobody
<1>5. \A s \in Streams : Unclosed(s)' => Unclosed(s)
  <2>1. CASE type = "response"
    <3>1. phase[cur'.id] = "asked" /\ phase' = [phase EXCEPT ![cur'.id] = "open"]
      BY <1>2, <2>1, ResponseIs
    <3> QED
      BY <1>i, <3>1 DEF Unclosed, TypeOK
  <2>2. CASE type = "data"
    BY <1>2, <2>2 DEF ConnectionGotData, Unclosed
  <2>3. CASE type = "done"
    BY <1>2, <1>i, <2>3 DEF ConnectionAllDone, Unclosed, TypeOK
  <2> QED
    BY <2>1, <2>2, <2>3
<1>6. type = "done" => stage' = "exited" \/ phase'[cur'.id] = "closed"
  BY <1>2, <1>3, <1>i DEF ConnectionAllDone, TypeOK
<1>7. KeepsLoads
  BY <1>1, <1>3, <1>5, <1>6 DEF KeepsLoads, Unclosed, Live
<1> QED
  BY <1>4, <1>7, <1>i, LoadsKept

\* The callbacks return: the messages stay, and no stream opens.
LEMMA ReturnsOwe ==
    ASSUME UrlInv, CallOwed, LoadsOwed,
           NewStreamReturns \/ WriteReturns \/ DestroyStreamReturns \/ UrlNotifyReturns \/ Free
    PROVE  CallOwed' /\ LoadsOwed'
<1>i. TypeOK
  BY DEF UrlInv
<1>1. /\ UNCHANGED <<call, answered, opened, loads, messages, toFood, request, todo, dude>>
      /\ stage # "exited"
  BY DEF NewStreamReturns, WriteReturns, DestroyStreamReturns, UrlNotifyReturns, Free, Return,
     Abort, callVars, hostVars, pipeVars
<1>2. \A s \in Streams : Unclosed(s)' => Unclosed(s)
  <2>1. phase' = phase \/ phase' = [phase EXCEPT ![cur.id] = "notified"]
    BY DEF NewStreamReturns, WriteReturns, DestroyStreamReturns, UrlNotifyReturns, Free
  <2> QED
    BY <1>i, <2>1 DEF Unclosed, TypeOK
<1>3. OnWay' = OnWay
  BY <1>1 DEF OnWay
<1>4. CallOwed'
  BY <1>1, <1>3 DEF CallOwed, NoRequest
<1>5. KeepsLoads
  BY <1>1, <1>2, <1>3 DEF KeepsLoads, Live
<1> QED
  BY <1>4, <1>5, <1>i, LoadsKept

\* The host takes the request: it replies, and unless there is a target it
\* starts a URLDude or lists the completion itself.
LEMMA NewConnectionOwes ==
    ASSUME UrlInv, LoadsOwed, NewConnection
    PROVE  CallOwed' /\ LoadsOwed'
<1> USE BoundsAssumption DEF Nobody
<1>i. TypeOK /\ Dudes
  BY DEF UrlInv
<1>1. /\ request # NoRequest /\ request' = NoRequest /\ todo = <<>> /\ stage # "exited"
      /\ UNCHANGED <<call, answered, opened, loads, messages, toFood, stage, phase>>
  BY DEF NewConnection, callVars, handlerVars, pipeVars, flashVars
<1>2. /\ request.addr \in Addrs /\ request.id \in Streams /\ request.kind \in Kinds
      /\ dude[request.id].state = "none"
  BY <1>1, <1>i, RequestIs
<1>0. PICK r : r = request.id
  OBVIOUS
<1> DEFINE d == Msg("reply", request)
           c == AllDone(request, TRUE)
<1>3. d \in Messages /\ d.type = "reply" /\ c.type = "done" /\ c.id = r
  BY <1>0, <1>2, MessageBuilt DEF Msg, AllDone
<1>4. /\ d \in OnWay' /\ OnWay \subseteq OnWay'
      /\ request.kind = "script" => c \in OnWay'
  <2>1. OnWay = Range(messages) \cup Range(toFood)
    BY <1>1, ListOfNone DEF OnWay
  <2>2. CASE request.kind # "script"
    <3>1. todo' = <<d>>
      BY <2>2 DEF NewConnection
    <3>2. Range(todo') = {d}
      BY <1>3, <3>1, ListOfOne
    <3> QED
      BY <1>1, <2>1, <2>2, <3>2 DEF OnWay
  <2>3. CASE request.kind = "script"
    <3>1. PICK n \in 0..MaxBytes :
              /\ n <= MaxTotal
              /\ todo' = <<Response(request, FALSE), GotData(request, 0, n), c, d>>
      BY <2>3 DEF NewConnection
    <3> DEFINE a == Response(request, FALSE)
               b == GotData(request, 0, n)
    <3>2. a \in Messages /\ b \in Messages /\ c \in Messages
      <4>1. n \in 0..MaxBytes /\ 0 \in 0..MaxTotal
        OBVIOUS
      <4> QED
        BY <1>2, <4>1, MessageBuilt
    <3>3. todo' = <<a, b, c, d>>
      BY <3>1
    <3> HIDE DEF a, b, c, d
    <3>4. Range(todo') = {a, b, c, d}
      BY <1>3, <3>2, <3>3, ListOfFour
    <3> QED
      BY <1>1, <2>1, <3>4 DEF OnWay
  <2> QED
    BY <2>2, <2>3
<1> HIDE DEF c, d
<1>5. CallOwed'
  BY <1>3, <1>4 DEF CallOwed
<1>6. \A s \in Streams : Live(s) => Live(s)'
  BY <1>2, <1>i DEF NewConnection, Live, TypeOK
<1>7. request.kind = "load" => Live(r)'
  BY <1>0, <1>2, <1>i DEF NewConnection, Live, TypeOK
<1>8. ASSUME NEW s \in loads, Unclosed(s) PROVE Live(s)' \/ Coming("done", s)'
  <2>1. s \in Streams /\ (request.id = s \/ Live(s) \/ Coming("done", s))
    BY <1>1, <1>8, <1>i DEF LoadsOwed, TypeOK
  <2>2. CASE request.id = s
    <3>1. request.kind # "frame"
      BY <1>8, <2>2 DEF LoadsOwed
    <3> QED
      BY <1>0, <1>2, <1>3, <1>4, <1>7, <2>2, <3>1 DEF Coming, Kinds
  <2>3. CASE Live(s)
    BY <1>6, <2>1, <2>3
  <2>4. CASE Coming("done", s)
    BY <1>4, <2>4 DEF Coming
  <2> QED
    BY <2>1, <2>2, <2>3, <2>4
<1>9. request'.kind # "frame"
  BY <1>1 DEF NoRequest
<1>10. \A s : Unclosed(s)' = Unclosed(s)
  BY <1>1 DEF Unclosed
<1> QED
  BY <1>1, <1>5, <1>8, <1>9, <1>10 DEF LoadsOwed

\* Sending a message only moves it.
LEMMA HandlerSendsOwes ==
    ASSUME UrlInv, CallOwed, LoadsOwed, HandlerSends
    PROVE  CallOwed' /\ LoadsOwed'
<1>i. TypeOK /\ Ordered
  BY DEF UrlInv
<1>1. UNCHANGED <<call, answered, opened, loads, stage, request, dude, phase>>
  BY DEF HandlerSends, callVars, handlerVars, flashVars
<1>2. OnWay' = OnWay
  BY <1>i, HandlerSendsMoves
<1>3. CallOwed'
  BY <1>1, <1>2 DEF CallOwed, NoRequest
<1>4. KeepsLoads
  BY <1>1, <1>2 DEF KeepsLoads, Unclosed, Live
<1> QED
  BY <1>3, <1>4, <1>i, LoadsKept

\* A URLDude that ends sends the completion.
LEMMA URLDudeOwes ==
    ASSUME UrlInv, CallOwed, LoadsOwed, NEW t \in Streams, URLDude(t)
    PROVE  CallOwed' /\ LoadsOwed'
<1>i. TypeOK
  BY DEF UrlInv
<1>1. PICK m \in Messages, n \in Nat, state \in {"open", "ended"} :
        DudeSends(t, m, state) /\ Reports(t, m, n, state)
  BY URLDudeReports
<1>2. Live(t)
  BY URLDudeReports
<1>3. OnWay' = OnWay \cup {m}
  BY <1>1, <1>2, DudeFits
<1>4. /\ UNCHANGED <<call, answered, opened, loads, stage, request, phase>>
      /\ dude' = [dude EXCEPT ![t].state = state]
  BY <1>1 DEF DudeSends, callVars, handlerVars
<1>5. \A s \in Streams : Live(s) => Live(s)' \/ s = t
  BY <1>4, <1>i DEF Live, TypeOK
<1>6. Live(t)' \/ Coming("done", t)'
  <2>1. CASE state = "open"
    BY <1>4, <1>i, <2>1 DEF Live, TypeOK
  <2>2. CASE state = "ended"
    <3>1. m.type = "done" /\ m.id = t
      BY <1>1, <2>2 DEF Reports
    <3> QED
      BY <1>3, <3>1 DEF Coming
  <2> QED
    BY <2>1, <2>2
<1>7. CallOwed'
  BY <1>3, <1>4 DEF CallOwed, NoRequest
<1>8. KeepsLoads
  BY <1>3, <1>4, <1>5, <1>6 DEF KeepsLoads, Unclosed
<1> QED
  BY <1>7, <1>8, <1>i, LoadsKept

\* Every step leaves a call its answer and a load its end.
LEMMA OwedStep ==
    UrlInv /\ CallOwed /\ LoadsOwed /\ [Next]_vars => CallOwed' /\ LoadsOwed'
<1> SUFFICES ASSUME UrlInv, CallOwed, LoadsOwed, [Next]_vars PROVE CallOwed' /\ LoadsOwed'
  OBVIOUS
<1>1. CASE Later
  <2>1. PICK a \in Addrs : Ask(a, "load", "dummy")
    BY <1>1 DEF Later
  <2> QED
    BY <2>1, AskOwes DEF Kinds
<1>2. CASE FlashAsks
  <2>1. PICK a \in Addrs, kind \in Kinds, notify \in {"none", "flash"} : Ask(a, kind, notify)
    BY <1>2 DEF FlashAsks
  <2> QED
    BY <2>1, AskOwes
<1>3. CASE CallReturns
  <2>1. /\ call' = Nobody
        /\ UNCHANGED <<opened, loads, stage, messages, toFood, request, todo, dude, phase>>
    BY <1>3 DEF CallReturns, handlerVars, pipeVars, hostVars
  <2>2. CallOwed'
    BY <2>1 DEF CallOwed, Nobody
  <2>3. KeepsLoads
    BY <2>1 DEF KeepsLoads, Unclosed, Live, OnWay
  <2> QED
    BY <2>2, <2>3, LoadsKept DEF UrlInv
<1>4. CASE UNCHANGED vars
  <2>1. UNCHANGED <<call, answered, opened, loads, stage, messages, toFood, request, todo, dude,
                    phase>>
    BY <1>4 DEF vars, callVars, handlerVars, pipeVars, hostVars
  <2>2. CallOwed'
    BY <2>1 DEF CallOwed, NoRequest, OnWay
  <2>3. KeepsLoads
    BY <2>1 DEF KeepsLoads, Unclosed, Live, OnWay
  <2> QED
    BY <2>2, <2>3, LoadsKept DEF UrlInv
<1>5. CASE \E t \in Streams : URLDude(t)
  BY <1>5, URLDudeOwes
<1> QED
  BY <1>1, <1>2, <1>3, <1>4, <1>5, ReceiveOwes, HandleOwes, ReturnsOwe, NewConnectionOwes,
     HandlerSendsOwes DEF Next, Player

\* On the main thread nobody waits in vain: while the player runs, a call
\* that was not answered yet has its request at the host, its reply on the
\* way or the answer at hand, and a stream opened without a target that was
\* not closed yet has its request, its URLDude or its completion.
THEOREM NobodyForgotten == Spec => []NothingForgotten
<1>1. Init => CallOwed /\ LoadsOwed
  BY DEF Init, CallOwed, LoadsOwed, NoRequest, Nobody
<1>2. Spec => [](UrlInv /\ CallOwed /\ LoadsOwed)
  BY <1>1, InvInit, InvStep, OwedStep, PTL DEF Spec
<1>3. UrlInv /\ CallOwed /\ LoadsOwed => NothingForgotten
  <2> SUFFICES ASSUME UrlInv, CallOwed, LoadsOwed PROVE NothingForgotten
    OBVIOUS
  <2>i. TypeOK /\ Calls /\ Belonging
    BY DEF UrlInv
  <2> DEFINE pipe == messages \o toFood \o todo
             Comes(type, s) == \E i \in DOMAIN pipe : pipe[i].type = type /\ pipe[i].id = s
  <2>1. pipe \in Seq(Messages) /\ Range(pipe) = OnWay
    <3>1. messages \in Seq(Messages) /\ toFood \in Seq(Messages) /\ todo \in Seq(Messages)
      BY <2>i, QueuesTyped
    <3> QED
      BY <3>1, ThreeQueues DEF OnWay
  <2> HIDE DEF pipe
  <2>2. \A type, s : Coming(type, s) => Comes(type, s)
    <3>1. \A m \in OnWay : \E i \in DOMAIN pipe : m = pipe[i]
      <4>1. DOMAIN pipe = 1..Len(pipe)
        BY <2>1, LenProperties
      <4> QED
        BY <2>1, <4>1, RangeIs
    <3> QED
      BY <3>1 DEF Coming
  <2>3. ASSUME call # Nobody
        PROVE  request.addr = call \/ answered \/ Comes("reply", mem[call].id)
    <3>1. CASE request # NoRequest
      BY <2>i, <3>1 DEF Calls
    <3>2. CASE \E m \in OnWay : m.type = "reply"
      <4>1. PICK m \in OnWay : m.type = "reply"
        BY <3>2
      <4>2. m.addr = call /\ m.id = mem[call].id
        BY <2>i, <4>1 DEF Calls, Belonging, Belongs
      <4>3. Coming("reply", mem[call].id)
        BY <4>1, <4>2 DEF Coming
      <4> QED
        BY <2>2, <4>3
    <3> QED
      BY <2>3, <3>1, <3>2 DEF CallOwed
  <2>4. ASSUME stage # "exited", NEW s \in loads, phase[s] \in {"asked", "open"}
        PROVE  request.id = s \/ dude[s].state \in {"started", "open"} \/ Comes("done", s)
    <3>1. request.id = s \/ Live(s) \/ Coming("done", s)
      BY <2>4 DEF LoadsOwed, Unclosed
    <3> QED
      BY <2>2, <3>1 DEF Live
  <2> HIDE DEF Comes
  <2> QED
    BY <2>3, <2>4 DEF NothingForgotten, pipe, Comes
<1> QED
  BY <1>2, <1>3, PTL
-----------------------------------------------------------------------------
(* UrlStream implements StreamContract.                                    *)

\* What the contract sees of the bytes and of the end of a stream.
Written == [s \in Streams |-> Len(given[s])]
Complete == [s \in Streams |-> s \in whole]

\* A step that the contract does not see.
LEMMA Unseen ==
    ASSUME UNCHANGED <<gave, given, short, whole, phase>>, (stage' # "exited") <=> (stage # "exited")
    PROVE  UNCHANGED Contract!cvars
<1>1. (stage' # "exited") = (stage # "exited")
  OBVIOUS
<1> QED
  BY <1>1 DEF Contract!cvars

\* The host got more of one stream, or its end.
LEMMA Arrives ==
    ASSUME UrlInv, UrlInv', NEW s \in Streams, NEW n \in Nat,
           phase[s] # "none", s \notin whole,
           gave' = [gave EXCEPT ![s] = gave[s] + n],
           whole' \in {whole, whole \cup {s}},
           UNCHANGED <<phase, given, short, stage>>
    PROVE  Contract!Arrive(s)
<1>1. gave[s] \in Nat /\ gave' \in [Streams -> 0..MaxTotal] /\ gave \in [Streams -> 0..MaxTotal]
  <2>1. gave \in [Streams -> 0..MaxTotal]
    BY DEF UrlInv, TypeOK
  <2>2. gave' \in [Streams -> 0..MaxTotal]
    BY DEF UrlInv, TypeOK
  <2>3. gave[s] \in 0..MaxTotal
    BY <2>1
  <2> QED
    BY <2>1, <2>2, <2>3, BoundsAssumption
<1>2. gave'[s] >= gave[s] /\ gave' = [gave EXCEPT ![s] = gave'[s]]
  BY <1>1
<1>3. ~Complete[s] /\ Complete'[s] \in BOOLEAN
  <2>1. Complete[s] = (s \in whole) /\ Complete'[s] = (s \in whole')
    BY DEF Complete
  <2>2. CASE s \in whole'
    <3>1. (s \in whole') = TRUE
      BY <2>2
    <3> QED
      BY <2>1, <3>1
  <2>3. CASE s \notin whole'
    <3>1. (s \in whole') = FALSE
      BY <2>3
    <3> QED
      BY <2>1, <3>1
  <2> QED
    BY <2>2, <2>3
<1>4. Complete' = [Complete EXCEPT ![s] = Complete'[s]]
  <2>1. \A t \in Streams : t # s => (t \in whole' <=> t \in whole)
    OBVIOUS
  <2>2. \A t \in Streams : t # s => Complete'[t] = Complete[t]
    <3> TAKE t \in Streams
    <3>1. Complete[t] = (t \in whole) /\ Complete'[t] = (t \in whole')
      BY DEF Complete
    <3>2. CASE t \in whole
      <4>1. (t \in whole) = TRUE /\ (t # s => (t \in whole') = TRUE)
        BY <2>1, <3>2
      <4> QED
        BY <3>1, <4>1
    <3>3. CASE t \notin whole
      <4>1. (t \in whole) = FALSE /\ (t # s => (t \in whole') = FALSE)
        BY <2>1, <3>3
      <4> QED
        BY <3>1, <4>1
    <3> QED
      BY <3>2, <3>3
  <2>3. /\ DOMAIN Complete = Streams /\ DOMAIN Complete' = Streams
        /\ Complete = [t \in Streams |-> Complete[t]]
        /\ Complete' = [t \in Streams |-> Complete'[t]]
    BY DEF Complete
  <2> QED
    BY <2>2, <2>3
<1>5. Written' = Written /\ (stage # "exited")' = (stage # "exited")
  BY DEF Written
<1> QED
  BY <1>2, <1>3, <1>4, <1>5 DEF Contract!Arrive, Complete, Written

\* Each step is a step of the contract, or one it does not see.
LEMMA ContractStep ==
    ASSUME UrlInv, UrlInv', Next
    PROVE  [Contract!Next]_(Contract!cvars)
<1> USE BoundsAssumption DEF callVars, handlerVars, pipeVars, hostVars, flashVars
<1>i. TypeOK /\ Homes /\ Hand /\ Belonging /\ Dudes /\ Given
  BY DEF UrlInv
<1>1. ASSUME NEW a \in Addrs, NEW kind \in Kinds, NEW notify \in {"none", "flash", "dummy"},
             Ask(a, kind, notify), stage # "exited"
      PROVE  [Contract!Next]_(Contract!cvars)
  <2>1. opened + 1 \in Streams /\ phase[opened + 1] = "none"
    <3>1. opened \in 0..MaxStreams /\ opened < MaxStreams
      BY <1>1, <1>i DEF Ask, TypeOK
    <3>2. opened + 1 \in Streams /\ opened < opened + 1
      BY <3>1 DEF Streams
    <3> QED
      BY <1>i, <3>2 DEF Dudes, Unborn
  <2>2. UNCHANGED <<gave, given, short, whole, stage>>
    BY <1>1 DEF Ask
  <2>3. phase' = [phase EXCEPT ![opened + 1] = "asked"]
    BY <1>1 DEF Ask
  <2>4. Contract!Ask(opened + 1)
    BY <2>1, <2>2, <2>3 DEF Contract!Ask
  <2> QED
    BY <1>1, <2>1, <2>4 DEF Contract!Next
<1>2. CASE Later
  <2>1. PICK a \in Addrs : Ask(a, "load", "dummy")
    BY <1>2 DEF Later
  <2> QED
    BY <1>1, <1>2, <2>1 DEF Later, Kinds
<1>3. CASE FlashAsks
  <2>1. PICK a \in Addrs, kind \in Kinds, notify \in {"none", "flash"} : Ask(a, kind, notify)
    BY <1>3 DEF FlashAsks
  <2> QED
    BY <1>1, <1>3, <2>1 DEF FlashAsks
<1>4. CASE CallReturns \/ Receive \/ UrlNotifyReturns \/ Free \/ HandlerSends
  <2>1. /\ UNCHANGED <<gave, given, short, whole, phase>>
        /\ (stage' # "exited") <=> (stage # "exited")
    BY <1>4 DEF CallReturns, Receive, UrlNotifyReturns, Free, HandlerSends, Return
  <2> QED
    BY <2>1, Unseen
<1>12. CASE NewStreamReturns
  <2>1. /\ UNCHANGED <<gave, given, short, whole, phase>> /\ stage = "newstream"
        /\ stage' \in {"none", "exited"}
    BY <1>12 DEF NewStreamReturns, Return, Abort
  <2>2. CASE stage' = "none"
    BY <2>1, <2>2, Unseen
  <2>3. CASE stage' = "exited"
    BY <2>1, <2>3 DEF Contract!Next, Contract!End
  <2> QED
    BY <2>1, <2>2, <2>3
<1>5. CASE ConnectionResponse
  <2>1. /\ phase[cur'.id] = "asked" /\ stage' = "newstream"
        /\ phase' = [phase EXCEPT ![cur'.id] = "open"]
        /\ UNCHANGED <<gave, given, short, whole>>
    BY <1>5, ResponseIs DEF ConnectionResponse
  <2>2. stage = "none" /\ cur'.id \in Streams
    BY <1>5, HandleIs DEF ConnectionResponse
  <2>3. (stage' # "exited") = (stage # "exited")
    BY <2>1, <2>2
  <2>4. Contract!NewStream(cur'.id)
    BY <2>1, <2>3 DEF Contract!NewStream
  <2> QED
    BY <2>2, <2>4 DEF Contract!Next
<1>6. CASE ConnectionGotData
  <2>1. /\ UNCHANGED <<gave, given, short, whole, phase>> /\ stage = "none"
        /\ stage' \in {"write", "exited"}
    BY <1>6 DEF ConnectionGotData, Handle
  <2>2. CASE stage' = "write"
    BY <2>1, <2>2, Unseen
  <2>3. CASE stage' = "exited"
    BY <2>1, <2>3 DEF Contract!Next, Contract!End
  <2> QED
    BY <2>1, <2>2, <2>3
<1>7. CASE WriteReturns
  <2>1. /\ stage = "write" /\ stage' \in {"none", "write"} /\ UNCHANGED <<gave, whole, phase>>
        /\ (stage' # "exited") = (stage # "exited")
    BY <1>7 DEF WriteReturns, Return
  <2>2. PICK ret \in -1..cur.len :
           /\ given' = [given EXCEPT ![cur.id] = @ \o SubSeq(Offered, 1, ret)]
           /\ short' = IF ret = cur.len THEN short ELSE short \cup {cur.id}
    BY <1>7 DEF WriteReturns, Takes
  <2>3. PICK s \in Streams : s = cur.id
    BY <2>1, <1>i, HandIs
  <2>4. phase[s] = "open"
    BY <2>1, <2>3, <1>i DEF Hand
  <2>5. /\ Len(given'[s]) \in Nat /\ Len(given[s]) \in Nat
        /\ Len(given'[s]) >= Len(given[s])
        /\ \A t \in Streams : t # s => given'[t] = given[t]
    <3> DEFINE T == Offsets \X (1..MaxTotal)
               g == given[s]
               o == SubSeq(Offered, 1, ret)
    <3>1. g \in Seq(T) /\ given'[s] = g \o o /\ \A t \in Streams : t # s => given'[t] = given[t]
      BY <2>2, <2>3, <1>i DEF TypeOK
    <3>2. o \in Seq(T)
      BY <2>1, OfferedIs
    <3> HIDE DEF T, g, o
    <3>3. Len(g \o o) = Len(g) + Len(o) /\ Len(g) \in Nat /\ Len(o) \in Nat
      BY <3>1, <3>2, ConcatProperties, LenProperties
    <3>4. Len(g \o o) \in Nat /\ Len(g \o o) >= Len(g)
      BY <3>3
    <3> QED
      BY <3>1, <3>3, <3>4 DEF g
  <2>6. /\ Written' = [Written EXCEPT ![s] = Written'[s]]
        /\ Written[s] = Len(given[s]) /\ Written'[s] = Len(given'[s])
    BY <2>5 DEF Written
  <2>7. CASE s \in short'
    <3>1. short' = short \cup {s} /\ Written'[s] >= Written[s]
      BY <2>2, <2>3, <2>5, <2>6, <2>7
    <3>2. Contract!WriteShort(s)
      BY <2>1, <2>4, <2>6, <3>1 DEF Contract!WriteShort, Written
    <3> QED
      BY <2>1, <3>2 DEF Contract!Next
  <2>8. CASE s \notin short'
    <3>1. short' = short /\ s \notin short
      BY <2>2, <2>3, <2>8
    <3>2. CASE Len(given'[s]) = Len(given[s])
      <4>1. Written' = Written
        BY <2>5, <3>2 DEF Written
      <4> QED
        BY <2>1, <3>1, <4>1 DEF Contract!cvars, Written
    <3>3. CASE Len(given'[s]) # Len(given[s])
      <4>1. Written'[s] > Written[s]
        BY <2>5, <2>6, <3>3
      <4>2. Written'[s] <= gave[s]
        BY <2>1, <2>6, <2>8 DEF UrlInv, Given
      <4>3. Contract!Write(s)
        BY <2>1, <2>4, <2>6, <3>1, <4>1, <4>2 DEF Contract!Write, Written
      <4> QED
        BY <2>1, <4>3 DEF Contract!Next
    <3> QED
      BY <3>2, <3>3
  <2> QED
    BY <2>7, <2>8
<1>8. CASE ConnectionAllDone
  <2>1. UNCHANGED <<gave, given, short, whole>>
    BY <1>8 DEF ConnectionAllDone
  <2>2. stage = "none" /\ cur'.id \in Streams
    BY <1>8, HandleIs DEF ConnectionAllDone
  <2>3. CASE cur'.ok
    <3>1. /\ phase[cur'.id] = "open" /\ cur'.id \in whole
          /\ cur'.id \notin short => Len(given[cur'.id]) = gave[cur'.id]
      BY <1>8, <2>3, DoneIs
    <3>2. stage' = "destroystream" /\ phase' = [phase EXCEPT ![cur'.id] = "closed"]
      BY <1>8, <2>3 DEF ConnectionAllDone
    <3>3. (stage' # "exited") = (stage # "exited")
      BY <2>2, <3>2
    <3>4. Contract!DestroyStream(cur'.id)
      BY <2>1, <2>2, <3>1, <3>2, <3>3 DEF Contract!DestroyStream
    <3> QED
      BY <2>2, <3>4 DEF Contract!Next
  <2>4. CASE ~cur'.ok
    <3>1. stage' = "exited" /\ UNCHANGED phase
      BY <1>8, <2>4 DEF ConnectionAllDone
    <3> QED
      BY <2>1, <3>1 DEF Contract!Next, Contract!End
  <2> QED
    BY <2>3, <2>4
<1>9. CASE DestroyStreamReturns
  <2>1. /\ stage = "destroystream" /\ stage' \in {"urlnotify", "free", "exited"}
        /\ UNCHANGED <<gave, given, short, whole>>
        /\ phase' \in {phase, [phase EXCEPT ![cur.id] = "notified"]}
        /\ stage' = "exited" => phase' = phase
    BY <1>9 DEF DestroyStreamReturns
  <2>2. cur.id \in Streams /\ phase[cur.id] = "closed"
    BY <2>1, <1>i, HandIs DEF Hand
  <2>3. CASE stage' = "exited"
    BY <2>1, <2>3 DEF Contract!Next, Contract!End
  <2>4. CASE stage' # "exited" /\ phase' = phase
    BY <2>1, <2>4, Unseen
  <2>5. CASE stage' # "exited" /\ phase' = [phase EXCEPT ![cur.id] = "notified"]
    <3>1. (stage' # "exited") = (stage # "exited")
      BY <2>1, <2>5
    <3>2. Contract!UrlNotify(cur.id)
      BY <2>1, <2>2, <2>5, <3>1 DEF Contract!UrlNotify
    <3> QED
      BY <2>1, <2>2, <3>2 DEF Contract!Next
  <2> QED
    BY <2>1, <2>3, <2>4, <2>5
<1>10. CASE NewConnection
  <2>1. UNCHANGED <<phase, given, short, stage>> /\ request # NoRequest
    BY <1>10 DEF NewConnection
  <2>2. /\ request.id \in Streams /\ request.kind \in Kinds /\ phase[request.id] = "asked"
        /\ gave[request.id] = 0 /\ request.id \notin whole
    BY <2>1, RequestIs
  <2>3. CASE request.kind # "script"
    <3>1. UNCHANGED <<gave, whole>>
      BY <1>10, <2>3 DEF NewConnection
    <3> QED
      BY <2>1, <3>1, Unseen
  <2>4. CASE request.kind = "script"
    <3>1. PICK n \in 0..MaxBytes :
            gave' = [gave EXCEPT ![request.id] = n] /\ whole' = whole \cup {request.id}
      BY <1>10, <2>4 DEF NewConnection
    <3>2. n \in Nat /\ gave' = [gave EXCEPT ![request.id] = gave[request.id] + n]
      <4>1. n \in Nat /\ gave[request.id] + n = n
        BY <2>2, <3>1
      <4> QED
        BY <3>1, <4>1
    <3>3. whole' \in {whole, whole \cup {request.id}} /\ phase[request.id] # "none"
      BY <2>2, <3>1
    <3>4. PICK s \in Streams : s = request.id
      BY <2>2
    <3>5. /\ gave' = [gave EXCEPT ![s] = gave[s] + n]
          /\ whole' \in {whole, whole \cup {s}} /\ phase[s] # "none" /\ s \notin whole
      BY <2>2, <3>2, <3>3, <3>4
    <3>6. Contract!Arrive(s)
      BY <2>1, <3>2, <3>5, Arrives
    <3> QED
      BY <3>6 DEF Contract!Next
  <2> QED
    BY <2>3, <2>4
<1>11. ASSUME NEW s \in Streams, URLDude(s) PROVE [Contract!Next]_(Contract!cvars)
  <2>1. Live(s)
    BY <1>11, URLDudeReports
  <2>2. PICK m \in Messages, n \in Nat, state \in {"open", "ended"} :
           /\ DudeSends(s, m, state) /\ Reports(s, m, n, state)
           /\ gave' = [gave EXCEPT ![s] = gave[s] + n]
    BY <1>11, URLDudeReports
  <2>3. phase[s] # "none" /\ s \notin whole
    BY <1>i, <2>1, DudeIs
  <2>4. UNCHANGED <<phase, given, short, stage>> /\ whole' \in {whole, whole \cup {s}}
    BY <2>2 DEF DudeSends, Reports
  <2>5. Contract!Arrive(s)
    BY <2>2, <2>3, <2>4, Arrives
  <2> QED
    BY <2>5 DEF Contract!Next
<1> QED
  BY <1>2, <1>3, <1>4, <1>5, <1>6, <1>7, <1>8, <1>9, <1>10, <1>11, <1>12 DEF Next, Player

\* Flash gets from the streams what StreamContract promises: newstream, its
\* bytes and no others, destroystream when it has all of them, then at most
\* one urlnotify; nothing is promised of the bytes of a stream of which it
\* took less than it was offered.
THEOREM ImplementsContract == Spec => ContractSpec
<1>1. Init => Contract!Init
  <2> SUFFICES ASSUME Init PROVE Contract!Init
    OBVIOUS
  <2>1. \A s \in Streams : (s \in whole) = FALSE
    BY DEF Init
  <2>2. [s \in Streams |-> s \in whole] = [s \in Streams |-> FALSE]
    BY <2>1
  <2>3. [s \in Streams |-> Len(given[s])] = [s \in Streams |-> 0]
    BY DEF Init
  <2>4. (stage # "exited") = TRUE
    BY DEF Init
  <2> QED
    BY <2>2, <2>3, <2>4 DEF Init, Contract!Init
<1>2. UrlInv /\ UrlInv' /\ [Next]_vars => [Contract!Next]_(Contract!cvars)
  <2> SUFFICES ASSUME UrlInv, UrlInv', UNCHANGED vars PROVE UNCHANGED Contract!cvars
    BY ContractStep
  <2> QED
    BY DEF vars, callVars, handlerVars, hostVars, flashVars, Contract!cvars
<1> QED
  BY <1>1, <1>2, InvHolds, PTL DEF Spec, ContractSpec, Contract!Spec
=============================================================================
