--------------------------- MODULE RpcSendProofs ----------------------------
(***************************************************************************)
(* Theorems about RpcSend, for any senders, connections, lengths and       *)
(* buffers: types, that xsend_thread never sleeps on a backlog, that the   *)
(* readers lose the boundaries of messages only to a timeout, and that     *)
(* RpcSend implements RpcChannel.                                          *)
(*                                                                         *)
(* The first inductive invariant follows the units of each connection from *)
(* the message that xsend_thread is sending over the socket buffers to the *)
(* message that the reader has in part: each unit is followed by the next  *)
(* of its message, or the last one by the header of another.  The second   *)
(* one adds which message that is: the next of those that xsend took.      *)
(***************************************************************************)
EXTENDS RpcSend, SequenceTheorems, TLAPS

\* What is called for, queued or sent has an id, and no more than the
\* message is sent.
Ids ==
    /\ \A s \in Senders : spc[s] = "calling" => arg[s].id # 0
    /\ \A i \in 1..Len(pending_sends) : pending_sends[i].id # 0
    /\ xthread = "sending" => hdr.id # 0 /\ len <= hdr.size

Follows(u, v) ==
    IF u.k < u.size THEN v = [id |-> u.id, k |-> u.k + 1, size |-> u.size] ELSE v.k = 1

\* Part p of a message, followed by the units s.
Framed(p, s) ==
    /\ p # <<>> => Len(p) < p[1].size
    /\ \A i \in 1..Len(p) : p[i] = [id |-> p[1].id, k |-> i, size |-> p[1].size]
    /\ \A i \in 1..Len(s) : i + 1 \in 1..Len(s) => Follows(s[i], s[i + 1])
    /\ s # <<>> => IF p = <<>> THEN s[1].k = 1 ELSE Follows(p[Len(p)], s[1])

\* The last of these units, of which there is one.
LastUnit(p, s) == IF s # <<>> THEN s[Len(s)] ELSE p[Len(p)]

\* xsend_thread is in the middle of a message for f.
Amid(f) == xthread = "sending" /\ hdr.fd = f /\ 0 < len /\ len < hdr.size

\* What has been sent on f ends where the next unit belongs.
EndsRight(f) ==
    IF Amid(f)
    THEN /\ part[f] # <<>> \/ sock[f] # <<>>
         /\ LastUnit(part[f], sock[f]) =
               [id |-> hdr.id, k |-> hdr.size - len, size |-> hdr.size]
    ELSE part[f] # <<>> \/ sock[f] # <<>> =>
            LastUnit(part[f], sock[f]).k = LastUnit(part[f], sock[f]).size

\* The connections that have lost nothing to a timeout.
Intact == Fds \ cut

Framing ==
    \A f \in Intact :
        /\ peer[f] # "badmagic"
        /\ Framed(part[f], sock[f])
        /\ Connected(f) => EndsRight(f)

SendInv == TypeOK /\ Ids /\ NoSleepingBacklog /\ Framing

-----------------------------------------------------------------------------
(* Sequences of units.                                                     *)

\* The reader takes the next unit: it completes the message, or goes on.
LEMMA FramedTake ==
    ASSUME NEW p \in Seq(Unit), NEW s \in Seq(Unit), s # <<>>, Framed(p, s)
    PROVE  LET q == Append(p, Head(s)) IN
           /\ Tail(s) \in Seq(Unit) /\ q \in Seq(Unit) /\ q # <<>> /\ Len(q) \in Nat
           /\ q[Len(q)] = s[1] /\ q[Len(q)].size = q[1].size /\ q[Len(q)].k = Len(q)
           /\ q[1].k = 1
           /\ s[1].k = 1 \/ p # <<>>
           /\ Len(q) = q[1].size => Framed(<<>>, Tail(s))
           /\ Len(q) # q[1].size => Framed(q, Tail(s))
           /\ Tail(s) # <<>> => LastUnit(<<>>, Tail(s)) = LastUnit(p, s)
                                /\ LastUnit(q, Tail(s)) = LastUnit(p, s)
           /\ Tail(s) = <<>> => LastUnit(q, Tail(s)) = LastUnit(p, s) /\ LastUnit(p, s) = s[1]
<1> DEFINE q == Append(p, Head(s))
<1>1. /\ Len(s) \in Nat /\ Len(s) # 0 /\ Head(s) = s[1] /\ Head(s) \in Unit
      /\ Tail(s) \in Seq(Unit) /\ Len(Tail(s)) = Len(s) - 1
      /\ \A i \in 1..Len(Tail(s)) : Tail(s)[i] = s[i + 1]
  <2>1. Len(s) \in Nat /\ Len(s) # 0
    BY EmptySeq
  <2>2. Head(s) = s[1]
    OBVIOUS
  <2> QED
    BY <2>1, <2>2, HeadTailProperties
<1>2. /\ q \in Seq(Unit) /\ q # <<>> /\ Len(q) = Len(p) + 1 /\ Len(p) \in Nat
      /\ \A i \in 1..Len(p) : q[i] = p[i]
      /\ q[Len(p) + 1] = s[1]
  BY <1>1, AppendProperties, LenProperties
<1>3. p = <<>> <=> Len(p) = 0
  BY EmptySeq
<1>4. Tail(s) = <<>> <=> Len(Tail(s)) = 0
  BY <1>1, EmptySeq
<1> HIDE DEF q
<1>5. s[1] \in Unit /\ s[1].k \in 1..MaxLen /\ s[1].size \in HdrLen..MaxLen /\ MaxLen \in Nat
      /\ HdrLen \in Nat /\ HdrLen # 0
  BY <1>1, BoundsAssumption DEF Unit
<1>6. q[1].size = s[1].size /\ s[1] = [id |-> q[1].id, k |-> Len(q), size |-> q[1].size]
      /\ (Len(p) # 0 => Len(q) <= q[1].size)
  <2>1. CASE Len(p) = 0
    <3>1. q[1] = s[1] /\ s[1].k = 1 /\ Len(q) = 1
      BY <1>1, <1>2, <1>3, <1>4, <2>1 DEF Framed
    <3> QED
      BY <1>5, <2>1, <3>1 DEF Unit
  <2>2. CASE Len(p) # 0
    <3>1. /\ Follows(p[Len(p)], s[1]) /\ Len(p) < p[1].size /\ q[1] = p[1]
          /\ p[Len(p)] = [id |-> p[1].id, k |-> Len(p), size |-> p[1].size]
      BY <1>1, <1>2, <1>3, <2>2 DEF Framed
    <3>2. s[1] = [id |-> p[1].id, k |-> Len(p) + 1, size |-> p[1].size]
      BY <3>1 DEF Follows
    <3>3. p[1].size \in Nat
      <4>1. p[1] \in Unit
        BY <1>2, <2>2, ElementOfSeq
      <4> QED
        BY <4>1, <1>5 DEF Unit
    <3> QED
      BY <1>2, <3>1, <3>2, <3>3
  <2> QED
    BY <2>1, <2>2
<1>7. \A i \in 1..Len(Tail(s)) : i + 1 \in 1..Len(Tail(s)) => Follows(Tail(s)[i], Tail(s)[i + 1])
  <2>1. ASSUME NEW i \in 1..Len(Tail(s)), i + 1 \in 1..Len(Tail(s))
        PROVE  Follows(Tail(s)[i], Tail(s)[i + 1])
    <3>1. /\ i + 1 \in 1..Len(s) /\ (i + 1) + 1 \in 1..Len(s)
          /\ Tail(s)[i] = s[i + 1] /\ Tail(s)[i + 1] = s[(i + 1) + 1]
      BY <1>1, <2>1
    <3> QED
      BY <3>1 DEF Framed
  <2> QED
    BY <2>1
<1>8. Tail(s) # <<>> => Follows(s[1], s[2]) /\ Tail(s)[1] = s[2]
  <2>1. Tail(s) # <<>> => 1 \in 1..Len(s) /\ 1 + 1 \in 1..Len(s) /\ 1 \in 1..Len(Tail(s))
    BY <1>1, <1>4
  <2> QED
    BY <1>1, <2>1 DEF Framed
<1>9. ASSUME Len(q) = q[1].size PROVE Framed(<<>>, Tail(s))
  <2>1. Tail(s) # <<>> => Tail(s)[1].k = 1
    BY <1>5, <1>6, <1>8, <1>9 DEF Follows
  <2> QED
    BY <1>7, <2>1 DEF Framed
<1>10. ASSUME Len(q) # q[1].size PROVE Framed(q, Tail(s))
  <2>1. Len(q) < q[1].size
    BY <1>1, <1>2, <1>5, <1>6, <1>10
  <2>2. ASSUME NEW i \in 1..Len(q)
        PROVE  q[i] = [id |-> q[1].id, k |-> i, size |-> q[1].size]
    <3>1. CASE i = Len(q)
      BY <1>2, <1>6, <3>1
    <3>2. CASE i \in 1..Len(p)
      <4>1. 1 \in 1..Len(p) /\ q[1] = p[1] /\ q[i] = p[i]
        BY <1>2, <3>2
      <4> QED
        BY <3>2, <4>1 DEF Framed
    <3> QED
      BY <1>2, <3>1, <3>2
  <2> QED
    BY <1>2, <1>7, <1>8, <2>1, <2>2 DEF Framed
<1>11. /\ Tail(s) # <<>> => LastUnit(<<>>, Tail(s)) = LastUnit(p, s)
                            /\ LastUnit(q, Tail(s)) = LastUnit(p, s)
       /\ Tail(s) = <<>> => LastUnit(q, Tail(s)) = LastUnit(p, s) /\ LastUnit(p, s) = s[1]
  <2>1. CASE Tail(s) # <<>>
    <3>1. Tail(s)[Len(Tail(s))] = s[Len(s)]
      <4>1. Len(Tail(s)) \in 1..Len(Tail(s))
        BY <1>1, <1>4, <2>1
      <4> QED
        BY <1>1, <4>1
    <3> QED
      BY <2>1, <3>1 DEF LastUnit
  <2>2. CASE Tail(s) = <<>>
    <3>1. Len(s) = 1
      BY <1>1, <1>4, <2>2
    <3> QED
      BY <1>2, <2>2, <3>1 DEF LastUnit
  <2> QED
    BY <2>1, <2>2
<1>12. (s[1].k = 1 \/ p # <<>>) /\ q[1].k = 1
  <2>1. CASE p = <<>>
    BY <1>2, <1>3, <2>1 DEF Framed
  <2>2. CASE p # <<>>
    <3>1. 1 \in 1..Len(p) /\ q[1] = p[1]
      BY <1>2, <1>3, <2>2
    <3>2. p[1] = [id |-> p[1].id, k |-> 1, size |-> p[1].size]
      BY <3>1 DEF Framed
    <3> QED
      BY <3>1, <3>2
  <2> QED
    BY <2>1, <2>2
<1>13. q[Len(q)] = s[1] /\ q[Len(q)].size = q[1].size /\ q[Len(q)].k = Len(q) /\ Len(q) \in Nat
  BY <1>2, <1>6
<1> QED
  BY <1>1, <1>2, <1>9, <1>10, <1>11, <1>12, <1>13 DEF q

\* The units m.size - n + 1 .. m.size - n + b of a message m.
LEMMA Chunk ==
    ASSUME NEW m \in Message, m.id # 0, NEW n \in 1..m.size, NEW b \in 1..n
    PROVE  LET c == SubSeq(Units(m), m.size - n + 1, m.size - n + b) IN
           /\ c \in Seq(Unit) /\ Len(c) = b
           /\ \A i \in 1..b : c[i] = [id |-> m.id, k |-> m.size - n + i, size |-> m.size]
<1> DEFINE a == m.size - n
<1>1. /\ m.id \in 1..MaxMsgs /\ m.size \in HdrLen..MaxLen /\ m.size \in 1..MaxLen /\ MaxLen \in Nat /\ a \in Nat
      /\ a + b <= m.size /\ m.size \in Nat /\ n \in Nat /\ b \in Nat
  BY BoundsAssumption DEF Message
<1>2. \A k \in 1..m.size : Units(m)[k] = [id |-> m.id, k |-> k, size |-> m.size]
                           /\ Units(m)[k] \in Unit
  BY <1>1 DEF Units, Unit
<1>3. ASSUME NEW i \in (a + 1)..(a + b) PROVE Units(m)[i] \in Unit
  <2>1. i \in 1..m.size
    BY <1>1
  <2> QED
    BY <1>2, <2>1
<1>4. /\ SubSeq(Units(m), a + 1, a + b) \in Seq(Unit)
      /\ Len(SubSeq(Units(m), a + 1, a + b)) = (a + b) - (a + 1) + 1
      /\ \A i \in 1..((a + b) - (a + 1) + 1) :
            SubSeq(Units(m), a + 1, a + b)[i] = Units(m)[(a + 1) + i - 1]
  <2>1. a + 1 \in Int /\ a + b \in Int /\ a + 1 <= a + b
    BY <1>1
  <2> HIDE DEF a
  <2> QED
    BY <1>3, <2>1, SubSeqProperties
<1>5. ASSUME NEW i \in 1..b
      PROVE  SubSeq(Units(m), a + 1, a + b)[i] = [id |-> m.id, k |-> a + i, size |-> m.size]
  <2>1. i \in 1..((a + b) - (a + 1) + 1) /\ (a + 1) + i - 1 = a + i /\ a + i \in 1..m.size
    BY <1>1
  <2> HIDE DEF a
  <2> QED
    BY <1>2, <1>4, <2>1
<1>6. (a + b) - (a + 1) + 1 = b
  BY <1>1
<1> QED
  BY <1>4, <1>5, <1>6

\* Units that continue where p and s end.
LEMMA FramedAppend ==
    ASSUME NEW p \in Seq(Unit), NEW s \in Seq(Unit), NEW c \in Seq(Unit), c # <<>>, Framed(p, s),
           \A i \in 1..Len(c) : i + 1 \in 1..Len(c) => Follows(c[i], c[i + 1]),
           IF p # <<>> \/ s # <<>> THEN Follows(LastUnit(p, s), c[1]) ELSE c[1].k = 1
    PROVE  /\ s \o c \in Seq(Unit) /\ s \o c # <<>>
           /\ Framed(p, s \o c)
           /\ LastUnit(p, s \o c) = c[Len(c)]
<1> DEFINE t == s \o c
<1>1. /\ t \in Seq(Unit) /\ Len(t) = Len(s) + Len(c) /\ Len(s) \in Nat /\ Len(c) \in Nat /\ Len(c) # 0
      /\ \A i \in 1..(Len(s) + Len(c)) : t[i] = IF i <= Len(s) THEN s[i] ELSE c[i - Len(s)]
  BY ConcatProperties, LenProperties, EmptySeq
<1>2. s = <<>> <=> Len(s) = 0
  BY EmptySeq
<1> HIDE DEF t
<1>3. t # <<>>
  BY <1>1, EmptySeq
<1>4. ASSUME NEW i \in 1..Len(t), i + 1 \in 1..Len(t) PROVE Follows(t[i], t[i + 1])
  <2>1. CASE i + 1 <= Len(s)
    <3>1. i \in 1..Len(s) /\ i + 1 \in 1..Len(s) /\ t[i] = s[i] /\ t[i + 1] = s[i + 1]
      BY <1>1, <1>4, <2>1
    <3> QED
      BY <3>1 DEF Framed
  <2>2. CASE i = Len(s)
    <3>1. t[i] = s[Len(s)] /\ t[i + 1] = c[1] /\ s # <<>>
      <4>1. (i + 1) - Len(s) = 1 /\ ~(i + 1 <= Len(s)) /\ i <= Len(s)
        BY <1>1, <1>4, <2>2
      <4> QED
        BY <1>1, <1>2, <1>4, <2>2, <4>1
    <3> QED
      BY <3>1 DEF LastUnit
  <2>3. CASE i > Len(s)
    <3> DEFINE j == i - Len(s)
    <3>1. /\ j \in 1..Len(c) /\ j + 1 \in 1..Len(c) /\ (i + 1) - Len(s) = j + 1
          /\ ~(i <= Len(s)) /\ ~(i + 1 <= Len(s))
      BY <1>1, <1>4, <2>3
    <3>2. t[i] = c[j] /\ t[i + 1] = c[j + 1]
      BY <1>1, <1>4, <3>1
    <3> QED
      BY <3>1, <3>2
  <2> QED
    BY <1>1, <1>4, <2>1, <2>2, <2>3
<1>5. IF p = <<>> THEN t[1].k = 1 ELSE Follows(p[Len(p)], t[1])
  <2>1. CASE s = <<>>
    <3>1. t[1] = c[1]
      <4>1. 1 \in 1..(Len(s) + Len(c)) /\ ~(1 <= Len(s)) /\ 1 - Len(s) = 1
        BY <1>1, <1>2, <2>1
      <4> QED
        BY <1>1, <4>1
    <3> QED
      BY <2>1, <3>1 DEF LastUnit
  <2>2. CASE s # <<>>
    <3>1. t[1] = s[1]
      BY <1>1, <1>2, <2>2
    <3> QED
      BY <2>2, <3>1 DEF Framed
  <2> QED
    BY <2>1, <2>2
<1>6. t[Len(t)] = c[Len(c)]
  <2>1. Len(t) \in 1..(Len(s) + Len(c)) /\ ~(Len(t) <= Len(s)) /\ Len(t) - Len(s) = Len(c)
    BY <1>1
  <2> QED
    BY <1>1, <2>1
<1> QED
  BY <1>1, <1>3, <1>4, <1>5, <1>6 DEF Framed, LastUnit, t

-----------------------------------------------------------------------------
(* Types.                                                                  *)

\* The initial state satisfies the invariant.
LEMMA InitSendInv == Init => SendInv
<1> SUFFICES ASSUME Init PROVE SendInv
  OBVIOUS
<1> USE DEF Init
<1>0. /\ Len(<<>>) = 0 /\ 0 \in 0..MaxMsgs /\ 0 \in 0..MaxLen /\ HdrLen \in HdrLen..MaxLen /\ 0 <= Cap
      /\ <<>> \in Seq(Message) /\ <<>> \in Seq(Unit) /\ <<>> \in Seq(Seq(Unit))
  BY BoundsAssumption, EmptySeq
<1>1. NoMessage \in Message
  BY <1>0, BoundsAssumption DEF NoMessage, Message
<1>2. TypeOK
  BY <1>0, <1>1 DEF TypeOK
<1>3. Ids
  BY <1>0 DEF Ids
<1>4. NoSleepingBacklog
  BY DEF NoSleepingBacklog
<1>5. Framing
  <2>1. ASSUME NEW f \in Intact
        PROVE  peer[f] # "badmagic" /\ part[f] = <<>> /\ sock[f] = <<>> /\ ~Amid(f)
    BY DEF Intact, Amid
  <2>2. Framed(<<>>, <<>>)
    BY <1>0 DEF Framed
  <2> QED
    BY <2>1, <2>2 DEF Framing, EndsRight
<1> QED
  BY <1>2, <1>3, <1>4, <1>5 DEF SendInv

\* The units of a message form a sequence of units.
LEMMA UnitsType ==
    ASSUME NEW m \in Message, m.id # 0
    PROVE  Units(m) \in Seq(Unit)
<1>1. m.size \in HdrLen..MaxLen /\ m.size \in 1..MaxLen /\ m.size \in Nat /\ m.id \in 1..MaxMsgs
      /\ MaxLen \in Nat
  BY BoundsAssumption DEF Message
<1>2. Units(m) \in [1..m.size -> Unit]
  BY <1>1 DEF Units, Unit
<1> QED
  BY <1>1, <1>2

\* A call of xsend keeps types, ids and the waking of xsend_thread.
LEMMA SenderTypes ==
    ASSUME SendInv, NEW s \in Senders, Call(s) \/ Startup(s) \/ Xsend(s)
    PROVE  TypeOK' /\ Ids' /\ NoSleepingBacklog'
<1> USE DEF senderVars, queueVars, threadVars, connVars
<1>0. TypeOK /\ Ids /\ NoSleepingBacklog
  BY DEF SendInv
<1>1. CASE Call(s)
  <2>1. PICK f \in Fds, n \in HdrLen..MaxLen :
           arg' = [arg EXCEPT ![s] = [id |-> count + 1, fd |-> f, size |-> n]]
    BY <1>1 DEF Call
  <2>2. /\ [id |-> count + 1, fd |-> f, size |-> n] \in Message /\ count + 1 # 0
        /\ count + 1 \in 0..MaxMsgs
    BY <1>0, <1>1, BoundsAssumption DEF Call, TypeOK, Message
  <2>3. TypeOK'
    BY <1>0, <1>1, <2>1, <2>2 DEF Call, TypeOK
  <2>4. Ids'
    BY <1>0, <1>1, <2>1, <2>2 DEF Call, TypeOK, Ids
  <2>5. NoSleepingBacklog'
    BY <1>0, <1>1 DEF Call, NoSleepingBacklog
  <2> QED
    BY <2>3, <2>4, <2>5
<1>2. CASE Startup(s)
  BY <1>0, <1>2 DEF Startup, TypeOK, Ids, NoSleepingBacklog
<1>3. CASE Xsend(s)
  <2>1. arg[s] \in Message /\ arg[s].id # 0 /\ arg[s].fd \in Fds /\ NoMessage \in Message
    <3>1. NoMessage \in Message
      BY BoundsAssumption DEF NoMessage, Message
    <3> QED
      BY <1>0, <1>3, <3>1 DEF Xsend, TypeOK, Ids, Message
  <2>2. /\ pending_sends' \in Seq(Message) /\ Len(pending_sends') = Len(pending_sends) + 1
        /\ \A i \in 1..Len(pending_sends) : pending_sends'[i] = pending_sends[i]
        /\ pending_sends'[Len(pending_sends) + 1] = arg[s] /\ Len(pending_sends) \in Nat
    BY <1>0, <1>3, <2>1, AppendProperties, LenProperties DEF Xsend, TypeOK
  <2>3. Append(accepted[arg[s].fd], Units(arg[s])) \in Seq(Seq(Unit))
    BY <1>0, <2>1, UnitsType, AppendProperties DEF TypeOK
  <2>4. TypeOK'
    BY <1>0, <1>3, <2>1, <2>2, <2>3 DEF Xsend, TypeOK
  <2>5. \A i \in 1..Len(pending_sends') : pending_sends'[i].id # 0
    <3>1. \A i \in 1..Len(pending_sends') : i \in 1..Len(pending_sends) \/ i = Len(pending_sends) + 1
      BY <2>2
    <3> QED
      BY <1>0, <2>1, <2>2, <3>1 DEF Ids
  <2>6. Ids'
    BY <1>0, <1>3, <2>5 DEF Xsend, TypeOK, Ids
  <2>7. NoSleepingBacklog'
    BY <1>3 DEF Xsend, NoSleepingBacklog
  <2> QED
    BY <2>4, <2>6, <2>7
<1> QED
  BY <1>1, <1>2, <1>3

\* So does a step of xsend_thread.
LEMMA ThreadTypes ==
    ASSUME SendInv, Thread \/ SpuriousWakeup
    PROVE  TypeOK' /\ Ids' /\ NoSleepingBacklog'
<1> USE DEF senderVars, queueVars, threadVars, connVars
<1>0. TypeOK /\ Ids /\ NoSleepingBacklog
  BY DEF SendInv
<1>1. CASE Relock \/ Sleep \/ SpuriousWakeup
  BY <1>0, <1>1 DEF Relock, Sleep, SpuriousWakeup, TypeOK, Ids, NoSleepingBacklog
<1>2. CASE Pop
  <2>1. pending_sends \in Seq(Message) /\ pending_sends # <<>> /\ Len(pending_sends) \in Nat
        /\ Len(pending_sends) # 0 /\ Head(pending_sends) = pending_sends[1]
    <3>1. pending_sends \in Seq(Message) /\ pending_sends # <<>>
      BY <1>0, <1>2 DEF Pop, TypeOK
    <3>2. Head(pending_sends) = pending_sends[1]
      BY <3>1
    <3> QED
      BY <3>1, <3>2, EmptySeq
  <2>2. /\ Head(pending_sends) \in Message /\ Tail(pending_sends) \in Seq(Message)
        /\ Len(Tail(pending_sends)) = Len(pending_sends) - 1
        /\ \A i \in 1..Len(Tail(pending_sends)) : Tail(pending_sends)[i] = pending_sends[i + 1]
    BY <2>1, HeadTailProperties
  <2>3. /\ hdr' = Head(pending_sends) /\ len' = hdr'.size /\ pending_sends' = Tail(pending_sends)
        /\ UNCHANGED <<spc, arg>> /\ xthread' = "sending"
    BY <1>2 DEF Pop
  <2>4. hdr' \in Message /\ hdr'.id # 0 /\ len' \in 0..MaxLen /\ len' <= hdr'.size
    BY <1>0, <2>1, <2>2, <2>3, BoundsAssumption DEF Ids, Message
  <2>5. TypeOK'
    BY <1>0, <1>2, <2>2, <2>4 DEF Pop, TypeOK
  <2>6. \A i \in 1..Len(pending_sends') : pending_sends'[i].id # 0
    BY <1>0, <2>1, <2>2, <2>3 DEF Ids
  <2>7. Ids'
    BY <1>0, <2>3, <2>4, <2>6 DEF Ids
  <2> QED
    BY <2>3, <2>5, <2>7 DEF NoSleepingBacklog
<1>3. CASE SendSome
  <2>1. PICK bs \in 1..len :
          /\ Len(sock[hdr.fd]) + bs <= Cap
          /\ sock' = [sock EXCEPT ![hdr.fd] =
                @ \o SubSeq(Units(hdr), hdr.size - len + 1, hdr.size - len + bs)]
          /\ len' = len - bs
    BY <1>3 DEF SendSome
  <2> DEFINE c == SubSeq(Units(hdr), hdr.size - len + 1, hdr.size - len + bs)
  <2>2. hdr \in Message /\ hdr.id # 0 /\ len \in 1..hdr.size /\ hdr.fd \in Fds /\ hdr.size \in Nat
    BY <1>0, <1>3 DEF SendSome, TypeOK, Ids, Message
  <2>3. c \in Seq(Unit) /\ Len(c) = bs
    BY <2>2, Chunk
  <2> HIDE DEF c
  <2>4. sock[hdr.fd] \o c \in Seq(Unit) /\ Len(sock[hdr.fd] \o c) = Len(sock[hdr.fd]) + bs
    <3>1. sock[hdr.fd] \in Seq(Unit)
      BY <1>0, <2>2 DEF TypeOK
    <3> QED
      BY <2>3, <3>1, ConcatProperties
  <2>5. sock' = [sock EXCEPT ![hdr.fd] = sock[hdr.fd] \o c]
    BY <2>1 DEF c
  <2>6. sock' \in [Fds -> Seq(Unit)] /\ \A f \in Fds : Len(sock'[f]) <= Cap
    <3>1. \A f \in Fds : sock'[f] = IF f = hdr.fd THEN sock[hdr.fd] \o c ELSE sock[f]
      BY <1>0, <2>5 DEF TypeOK
    <3>2. \A f \in Fds : Len(sock[f]) <= Cap
      BY <1>0 DEF TypeOK
    <3>3. \A f \in Fds : Len(sock'[f]) <= Cap
      BY <2>1, <2>4, <3>1, <3>2
    <3> QED
      BY <1>0, <2>2, <2>4, <2>5, <3>3 DEF TypeOK
  <2>7. len' \in 0..MaxLen /\ len' <= hdr.size
    BY <1>0, <2>1, <2>2, BoundsAssumption DEF TypeOK, Message
  <2>8. UNCHANGED <<spc, arg, count, pending_sends, accepted, xthread, hdr, open, peer, part, again,
                    cut, received>>
    BY <1>3 DEF SendSome
  <2> QED
    BY <1>0, <2>6, <2>7, <2>8 DEF TypeOK, Ids, NoSleepingBacklog
<1>4. CASE SendError
  <2>1. 0 \in 0..MaxLen /\ 0 <= hdr.size
    BY <1>0, BoundsAssumption DEF TypeOK, Message
  <2>2. cut' \subseteq Fds
    BY <1>0, <1>4 DEF SendError, TypeOK, Message
  <2> QED
    BY <1>0, <1>4, <2>1, <2>2 DEF SendError, TypeOK, Ids, NoSleepingBacklog
<1>5. CASE Sent
  <2>1. NoMessage \in Message
    BY BoundsAssumption DEF NoMessage, Message
  <2> QED
    BY <1>0, <1>5, <2>1 DEF Sent, TypeOK, Ids, NoSleepingBacklog
<1> QED
  BY <1>1, <1>2, <1>3, <1>4, <1>5 DEF Thread

\* So does what happens at the other end, and the end of a connection.
LEMMA PeerTypes ==
    ASSUME SendInv, NEW f \in Fds,
           \/ RecvUnit(f) \/ RecvBadMagic(f) \/ RecvTimeout(f) \/ DropHeader(f) \/ RecvShort(f)
           \/ Stall(f) \/ Resume(f) \/ PeerExit(f) \/ CloseFd(f)
    PROVE  TypeOK' /\ Ids' /\ NoSleepingBacklog'
<1> USE DEF senderVars, queueVars, threadVars, connVars
<1>0. TypeOK /\ Ids /\ NoSleepingBacklog
  BY DEF SendInv
<1>1. CASE RecvUnit(f)
  <2> DEFINE p == Append(part[f], Head(sock[f]))
  <2>1. sock[f] \in Seq(Unit) /\ sock[f] # <<>> /\ part[f] \in Seq(Unit) /\ Len(sock[f]) <= Cap
        /\ received[f] \in Seq(Seq(Unit))
    BY <1>0, <1>1 DEF RecvUnit, TypeOK
  <2>2. /\ Tail(sock[f]) \in Seq(Unit) /\ Head(sock[f]) \in Unit
        /\ Len(Tail(sock[f])) = Len(sock[f]) - 1 /\ Len(sock[f]) \in Nat
    BY <2>1, HeadTailProperties, LenProperties
  <2>3. p \in Seq(Unit)
    BY <2>1, <2>2, AppendProperties
  <2> HIDE DEF p
  <2>4. Append(received[f], p) \in Seq(Seq(Unit)) /\ <<>> \in Seq(Unit)
    BY <2>1, <2>3, AppendProperties, EmptySeq
  <2>5. /\ sock' = [sock EXCEPT ![f] = Tail(sock[f])]
        /\ part' \in {[part EXCEPT ![f] = <<>>], [part EXCEPT ![f] = p]}
        /\ received' \in {received, [received EXCEPT ![f] = Append(received[f], p)]}
        /\ UNCHANGED <<senderVars, queueVars, threadVars, open, peer, again, cut>>
    BY <1>1 DEF RecvUnit, Taken, p
  <2>6. sock' \in [Fds -> Seq(Unit)] /\ \A g \in Fds : Len(sock'[g]) <= Cap
    <3>1. Len(Tail(sock[f])) <= Cap
      BY <2>1, <2>2, BoundsAssumption
    <3> QED
      BY <1>0, <2>2, <2>5, <3>1 DEF TypeOK
  <2>7. part' \in [Fds -> Seq(Unit)] /\ received' \in [Fds -> Seq(Seq(Unit))]
    <3>1. part \in [Fds -> Seq(Unit)] /\ received \in [Fds -> Seq(Seq(Unit))]
      BY <1>0 DEF TypeOK
    <3>2. part' \in [Fds -> Seq(Unit)]
      BY <2>3, <2>4, <2>5, <3>1
    <3>3. received' \in [Fds -> Seq(Seq(Unit))]
      BY <2>4, <2>5, <3>1
    <3> QED
      BY <3>2, <3>3
  <2> QED
    BY <1>0, <2>5, <2>6, <2>7 DEF TypeOK, Ids, NoSleepingBacklog
<1>2. CASE RecvBadMagic(f)
  <2>1. /\ sock[f] \in Seq(Unit) /\ sock[f] # <<>> /\ Len(sock[f]) <= Cap /\ <<>> \in Seq(Unit)
        /\ Len(sock[f]) \in Nat /\ Tail(sock[f]) \in Seq(Unit)
        /\ Len(Tail(sock[f])) = Len(sock[f]) - 1
    <3>1. sock[f] \in Seq(Unit) /\ sock[f] # <<>> /\ Len(sock[f]) <= Cap
      BY <1>0, <1>2 DEF RecvBadMagic, TypeOK
    <3> QED
      BY <3>1, HeadTailProperties, LenProperties, EmptySeq
  <2>2. Len(Tail(sock[f])) <= Cap
    BY <2>1, BoundsAssumption
  <2>3. sock' \in [Fds -> Seq(Unit)] /\ \A g \in Fds : Len(sock'[g]) <= Cap
    BY <1>0, <1>2, <2>1, <2>2 DEF RecvBadMagic, TypeOK
  <2> QED
    BY <1>0, <1>2, <2>1, <2>3 DEF RecvBadMagic, TypeOK, Ids, NoSleepingBacklog
<1>6. CASE RecvTimeout(f) \/ RecvShort(f)
  BY <1>0, <1>6 DEF RecvTimeout, RecvShort, TypeOK, Ids, NoSleepingBacklog
<1>7. CASE DropHeader(f)
  <2>1. <<>> \in Seq(Unit)
    BY EmptySeq
  <2> QED
    BY <1>0, <1>7, <2>1 DEF DropHeader, TypeOK, Ids, NoSleepingBacklog
<1>3. CASE Stall(f) \/ Resume(f)
  BY <1>0, <1>3 DEF Stall, Resume, TypeOK, Ids, NoSleepingBacklog
<1>4. CASE PeerExit(f)
  <2>1. <<>> \in Seq(Unit) /\ Len(<<>>) <= Cap
    BY EmptySeq, BoundsAssumption
  <2>2. sock' \in [Fds -> Seq(Unit)] /\ \A g \in Fds : Len(sock'[g]) <= Cap
    BY <1>0, <1>4, <2>1 DEF PeerExit, TypeOK
  <2> QED
    BY <1>0, <1>4, <2>1, <2>2 DEF PeerExit, TypeOK, Ids, NoSleepingBacklog
<1>5. CASE CloseFd(f)
  BY <1>0, <1>5 DEF CloseFd, TypeOK, Ids, NoSleepingBacklog
<1> QED
  BY <1>1, <1>2, <1>3, <1>4, <1>5, <1>6, <1>7
-----------------------------------------------------------------------------
(* Framing.                                                                *)

\* A step that leaves a connection and the message being sent on it alone.
LEMMA FramingKept ==
    ASSUME SendInv, NEW f \in Intact,
           UNCHANGED <<sock[f], part[f]>>, peer'[f] # "badmagic",
           \/ ~Connected(f)'
           \/ /\ Connected(f) /\ hdr' = hdr /\ len' = len
              /\ Amid(f)' <=> Amid(f)
           \/ Connected(f) /\ ~Amid(f) /\ ~Amid(f)'
    PROVE  /\ peer'[f] # "badmagic"
           /\ Framed(part[f], sock[f])'
           /\ Connected(f)' => EndsRight(f)'
<1>1. Framed(part[f], sock[f]) /\ (Connected(f) => EndsRight(f))
  BY DEF SendInv, Framing
<1>2. Framed(part[f], sock[f])'
  BY <1>1 DEF Framed
<1>3. LastUnit(part[f], sock[f])' = LastUnit(part[f], sock[f])
  BY DEF LastUnit
<1>4. ASSUME Connected(f)' PROVE EndsRight(f)'
  <2>1. CASE Connected(f) /\ hdr' = hdr /\ len' = len /\ (Amid(f)' <=> Amid(f))
    BY <1>1, <1>3, <2>1 DEF EndsRight
  <2>2. CASE Connected(f) /\ ~Amid(f) /\ ~Amid(f)'
    BY <1>1, <1>3, <2>2 DEF EndsRight
  <2> QED
    BY <1>4, <2>1, <2>2
<1> QED
  BY <1>2, <1>4

\* send takes some units of hdr: they continue where the units of that
\* connection ended.
LEMMA SendSomeFraming ==
    ASSUME SendInv, SendSome, NEW f \in Intact
    PROVE  /\ peer'[f] # "badmagic"
           /\ Framed(part[f], sock[f])'
           /\ Connected(f)' => EndsRight(f)'
<1> USE DEF senderVars, queueVars
<1>0. TypeOK /\ Ids /\ Framing /\ f \in Fds
  BY DEF SendInv, Intact
<1>1. PICK bs \in 1..len :
        /\ Len(sock[hdr.fd]) + bs <= Cap
        /\ sock' = [sock EXCEPT ![hdr.fd] =
              @ \o SubSeq(Units(hdr), hdr.size - len + 1, hdr.size - len + bs)]
        /\ len' = len - bs
  BY DEF SendSome
<1> DEFINE c == SubSeq(Units(hdr), hdr.size - len + 1, hdr.size - len + bs)
<1>2. /\ hdr \in Message /\ hdr.id # 0 /\ len \in 1..hdr.size /\ hdr.fd \in Fds
      /\ hdr.size \in Nat /\ len \in Nat /\ bs \in Nat /\ xthread = "sending" /\ Connected(hdr.fd)
      /\ bs # 0 /\ bs <= len
  <2>1. xthread = "sending" /\ len > 0 /\ Connected(hdr.fd)
    BY DEF SendSome
  <2>2. hdr \in Message /\ len \in Nat /\ hdr.id # 0 /\ len <= hdr.size
    BY <1>0, <2>1, BoundsAssumption DEF TypeOK, Ids
  <2>3. hdr.fd \in Fds /\ hdr.size \in Nat
    BY <2>2, BoundsAssumption DEF Message
  <2> QED
    BY <2>1, <2>2, <2>3
<1>3. /\ c \in Seq(Unit) /\ Len(c) = bs
      /\ \A i \in 1..bs : c[i] = [id |-> hdr.id, k |-> hdr.size - len + i, size |-> hdr.size]
  BY <1>2, Chunk
<1>4. UNCHANGED <<hdr, open, peer, part, xthread>> /\ sock' = [sock EXCEPT ![hdr.fd] = sock[hdr.fd] \o c]
  BY <1>1 DEF SendSome
<1> HIDE DEF c
<1>5. CASE f # hdr.fd
  <2>1. UNCHANGED <<sock[f], part[f], peer[f]>> /\ ~Amid(f) /\ ~Amid(f)' /\ (Connected(f)' <=> Connected(f))
    BY <1>0, <1>4, <1>5 DEF TypeOK, Amid, Connected
  <2>2. peer'[f] # "badmagic"
    BY <1>0, <2>1 DEF Framing
  <2> QED
    BY <2>1, <2>2, FramingKept
<1>6. CASE f = hdr.fd
  <2>1. sock[f] \in Seq(Unit) /\ part[f] \in Seq(Unit) /\ Framed(part[f], sock[f]) /\ EndsRight(f)
        /\ peer[f] # "badmagic"
    BY <1>0, <1>2, <1>6 DEF TypeOK, Framing
  <2>2. sock'[f] = sock[f] \o c /\ part'[f] = part[f] /\ peer'[f] = peer[f]
    BY <1>0, <1>4, <1>6 DEF TypeOK
  <2>3. c # <<>>
    BY <1>2, <1>3, EmptySeq
  <2>4. \A i \in 1..Len(c) : i + 1 \in 1..Len(c) => Follows(c[i], c[i + 1])
    <3>1. ASSUME NEW i \in 1..Len(c), i + 1 \in 1..Len(c) PROVE Follows(c[i], c[i + 1])
      <4>1. /\ c[i] = [id |-> hdr.id, k |-> hdr.size - len + i, size |-> hdr.size]
            /\ c[i + 1] = [id |-> hdr.id, k |-> hdr.size - len + (i + 1), size |-> hdr.size]
        BY <1>3, <3>1
      <4>2. i \in Nat /\ i < len
        BY <1>2, <1>3, <3>1
      <4>3. hdr.size - len + i < hdr.size
            /\ hdr.size - len + (i + 1) = (hdr.size - len + i) + 1
        BY <1>2, <4>2
      <4> QED
        BY <4>1, <4>3 DEF Follows
    <3> QED
      BY <3>1
  <2>5. c[1] = [id |-> hdr.id, k |-> hdr.size - len + 1, size |-> hdr.size]
    <3>1. 1 \in 1..bs
      BY <1>2
    <3> QED
      BY <1>3, <3>1
  <2>6. IF part[f] # <<>> \/ sock[f] # <<>> THEN Follows(LastUnit(part[f], sock[f]), c[1])
                                            ELSE c[1].k = 1
    <3>1. CASE Amid(f)
      <4>1. /\ part[f] # <<>> \/ sock[f] # <<>>
            /\ LastUnit(part[f], sock[f]) = [id |-> hdr.id, k |-> hdr.size - len, size |-> hdr.size]
        BY <2>1, <3>1 DEF EndsRight
      <4>2. hdr.size - len < hdr.size
        BY <1>2
      <4> QED
        BY <2>5, <4>1, <4>2 DEF Follows
    <3>2. CASE ~Amid(f)
      <4>1. hdr.size - len + 1 = 1
        BY <1>2, <1>6, <3>2 DEF Amid
      <4>2. part[f] # <<>> \/ sock[f] # <<>> =>
              LastUnit(part[f], sock[f]).k = LastUnit(part[f], sock[f]).size
        BY <2>1, <3>2 DEF EndsRight
      <4>3. ASSUME part[f] # <<>> \/ sock[f] # <<>>
            PROVE  ~(LastUnit(part[f], sock[f]).k < LastUnit(part[f], sock[f]).size)
        <5>1. LastUnit(part[f], sock[f]) \in Unit
          BY <2>1, <4>3, EmptySeq, ElementOfSeq DEF LastUnit
        <5> QED
          BY <4>2, <4>3, <5>1, BoundsAssumption DEF Unit
      <4> QED
        BY <2>5, <4>1, <4>3 DEF Follows
    <3> QED
      BY <3>1, <3>2
  <2>7. Framed(part[f], sock[f] \o c) /\ sock[f] \o c # <<>>
        /\ LastUnit(part[f], sock[f] \o c) = c[bs]
    BY <1>3, <2>1, <2>3, <2>4, <2>6, FramedAppend
  <2>8. c[bs] = [id |-> hdr.id, k |-> hdr.size - len + bs, size |-> hdr.size]
    BY <1>2, <1>3
  <2>9. EndsRight(f)'
    <3>1. hdr' = hdr /\ len' = len - bs /\ hdr.size - len + bs = hdr.size - (len - bs)
          /\ (~Amid(f)' => hdr.size - len + bs = hdr.size)
      BY <1>1, <1>2, <1>4, <1>6 DEF Amid
    <3>2. LastUnit(part[f], sock[f])' = c[bs] /\ sock'[f] # <<>>
      BY <2>2, <2>7 DEF LastUnit
    <3> QED
      BY <2>8, <3>1, <3>2 DEF EndsRight
  <2> QED
    BY <2>1, <2>2, <2>7, <2>9
<1> QED
  BY <1>5, <1>6

\* The reader takes a unit: it goes on with its message or completes it.
LEMMA RecvUnitFraming ==
    ASSUME SendInv, NEW g \in Fds, RecvUnit(g), NEW f \in Intact
    PROVE  /\ peer'[f] # "badmagic"
           /\ Framed(part[f], sock[f])'
           /\ Connected(f)' => EndsRight(f)'
<1> USE DEF senderVars, queueVars, threadVars
<1>0. TypeOK /\ Ids /\ Framing /\ f \in Fds
  BY DEF SendInv, Intact
<1>1. UNCHANGED <<xthread, hdr, len, open, peer>>
  BY DEF RecvUnit
<1>2. peer'[f] # "badmagic" /\ (Amid(f)' <=> Amid(f)) /\ (Connected(f)' <=> Connected(f))
  BY <1>0, <1>1 DEF Framing, Amid, Connected
<1>3. CASE f # g
  <2>1. sock'[f] = sock[f] /\ part'[f] = part[f]
    BY <1>0, <1>3 DEF RecvUnit, TypeOK
  <2> QED
    BY <1>1, <1>2, <2>1, FramingKept
<1>4. CASE f = g
  <2> DEFINE q == Append(part[f], Head(sock[f]))
  <2>1. sock[f] \in Seq(Unit) /\ part[f] \in Seq(Unit) /\ sock[f] # <<>> /\ Framed(part[f], sock[f])
    BY <1>0, <1>4 DEF RecvUnit, TypeOK, Framing
  <2>2. /\ q # <<>> /\ Len(q) \in Nat
        /\ q[Len(q)] = sock[f][1] /\ q[Len(q)].size = q[1].size /\ q[Len(q)].k = Len(q)
        /\ Len(q) = q[1].size => Framed(<<>>, Tail(sock[f]))
        /\ Len(q) # q[1].size => Framed(q, Tail(sock[f]))
        /\ Tail(sock[f]) # <<>> =>
              /\ LastUnit(<<>>, Tail(sock[f])) = LastUnit(part[f], sock[f])
              /\ LastUnit(q, Tail(sock[f])) = LastUnit(part[f], sock[f])
        /\ Tail(sock[f]) = <<>> =>
              /\ LastUnit(q, Tail(sock[f])) = LastUnit(part[f], sock[f])
              /\ LastUnit(part[f], sock[f]) = sock[f][1]
    BY <2>1, FramedTake
  <2>3. sock'[f] = Tail(sock[f]) /\ part'[f] = IF Len(q) = q[1].size THEN <<>> ELSE q
    BY <1>0, <1>4 DEF RecvUnit, Taken, TypeOK
  <2> HIDE DEF q
  <2>4. Framed(part[f], sock[f])'
    BY <2>2, <2>3 DEF Framed
  <2>5. ASSUME Connected(f)' PROVE EndsRight(f)'
    <3>1. EndsRight(f)
      BY <1>0, <1>2, <2>5 DEF Framing
    <3>2. ASSUME part'[f] # <<>> \/ sock'[f] # <<>>
          PROVE  LastUnit(part[f], sock[f])' = LastUnit(part[f], sock[f])
      BY <2>2, <2>3, <3>2 DEF LastUnit
    <3>3. CASE part'[f] = <<>> /\ sock'[f] = <<>>
      <4>1. LastUnit(part[f], sock[f]).k = LastUnit(part[f], sock[f]).size
        BY <2>2, <2>3, <3>3
      <4>2. ~Amid(f)
        <5>1. hdr.size \in Nat /\ len \in Nat
          BY <1>0, BoundsAssumption DEF TypeOK, Message
        <5> QED
          BY <3>1, <4>1, <5>1 DEF EndsRight, Amid
      <4> QED
        BY <1>2, <3>3, <4>2 DEF EndsRight
    <3>4. CASE part'[f] # <<>> \/ sock'[f] # <<>>
      <4>1. part[f] # <<>> \/ sock[f] # <<>>
        BY <2>1
      <4> QED
        BY <1>1, <1>2, <3>1, <3>2, <3>4, <4>1 DEF EndsRight
    <3> QED
      BY <3>3, <3>4
  <2> QED
    BY <1>2, <2>4, <2>5
<1> QED
  BY <1>3, <1>4

\* What a timeout took from a connection stays lost.
LEMMA IntactBefore ==
    ASSUME SendInv, [Next]_vars
    PROVE  Intact' \subseteq Intact
<1>1. cut \subseteq cut'
  BY DEF Next, vars, senderVars, queueVars, threadVars, connVars, Call, Startup, Xsend, Thread,
     Relock, Pop, Sleep, SendSome, SendError, Sent, SpuriousWakeup, RecvUnit, RecvBadMagic,
     RecvTimeout, DropHeader, RecvShort, Stall, Resume, PeerExit, CloseFd
<1> QED
  BY <1>1 DEF Intact

\* Every step keeps the frames of the connections that lose nothing by it.
LEMMA NextFraming == SendInv /\ Next => Framing'
<1> SUFFICES ASSUME SendInv, Next, NEW f \in Intact'
             PROVE  /\ peer'[f] # "badmagic"
                    /\ Framed(part[f], sock[f])'
                    /\ Connected(f)' => EndsRight(f)'
  BY DEF Framing
<1>i. f \in Intact /\ f \notin cut'
  BY IntactBefore DEF Intact
<1> USE DEF senderVars, queueVars, threadVars, connVars
<1>0. TypeOK /\ Ids /\ Framing /\ f \in Fds /\ peer[f] # "badmagic" /\ Framed(part[f], sock[f])
  BY <1>i DEF SendInv, Intact, Framing
<1>1. CASE Thread \/ SpuriousWakeup
  <2>1. CASE SendSome
    BY <1>i, <2>1, SendSomeFraming
  <2>2. CASE ~SendSome
    <3>1. UNCHANGED <<sock, open, peer, part>>
      BY <1>1, <2>2 DEF Thread, Relock, Pop, Sleep, SendError, Sent, SpuriousWakeup
    <3>2. (Connected(f)' <=> Connected(f))
      BY <3>1 DEF Connected
    <3>3. CASE Relock \/ Sleep \/ SpuriousWakeup
      <4>1. hdr' = hdr /\ len' = len /\ (Amid(f)' <=> Amid(f))
        BY <3>3 DEF Relock, Sleep, SpuriousWakeup, Amid
      <4> QED
        BY <1>0, <3>1, <3>2, <4>1, <1>i, FramingKept
    <3>4. CASE Pop
      <4>1. ~Amid(f)
        BY <3>4 DEF Pop, Amid
      <4>2. len' = hdr'.size /\ hdr' \in Message
        <5>1. TypeOK'
          BY <3>4, ThreadTypes DEF Thread
        <5> QED
          BY <3>4, <5>1 DEF Pop, TypeOK
      <4>3. ~Amid(f)'
        BY <4>2, BoundsAssumption DEF Amid, Message
      <4> QED
        BY <1>0, <3>1, <3>2, <4>1, <4>3, <1>i, FramingKept
    <3>5. CASE Sent
      <4>1. ~Amid(f) /\ ~Amid(f)'
        BY <3>5 DEF Sent, Amid
      <4> QED
        BY <1>0, <3>1, <3>2, <4>1, <1>i, FramingKept
    <3>6. CASE SendError
      <4>1. CASE hdr.fd = f
        <5>1. ~Connected(f)
          BY <1>i, <3>6, <4>1 DEF SendError
        <5> QED
          BY <1>0, <3>1, <3>2, <5>1, <1>i, FramingKept
      <4>2. CASE hdr.fd # f
        <5>1. ~Amid(f) /\ ~Amid(f)'
          BY <3>6, <4>2 DEF SendError, Amid
        <5> QED
          BY <1>0, <3>1, <3>2, <5>1, <1>i, FramingKept
      <4> QED
        BY <4>1, <4>2
    <3> QED
      BY <1>1, <2>2, <3>3, <3>4, <3>5, <3>6 DEF Thread
  <2> QED
    BY <2>1, <2>2
<1>2. ASSUME NEW s \in Senders, Call(s) \/ Startup(s) \/ Xsend(s)
      PROVE  /\ peer'[f] # "badmagic"
             /\ Framed(part[f], sock[f])'
             /\ Connected(f)' => EndsRight(f)'
  <2>1. UNCHANGED <<sock, open, peer, part, hdr, len>> /\ (Amid(f)' <=> Amid(f))
    BY <1>2 DEF Call, Startup, Xsend, Amid
  <2>2. (Connected(f)' <=> Connected(f))
    BY <2>1 DEF Connected
  <2> QED
    BY <1>0, <2>1, <2>2, <1>i, FramingKept
<1>3. ASSUME NEW g \in Fds, RecvBadMagic(g) \/ DropHeader(g) \/ PeerExit(g)
      PROVE  /\ peer'[f] # "badmagic"
             /\ Framed(part[f], sock[f])'
             /\ Connected(f)' => EndsRight(f)'
  <2>1. UNCHANGED <<xthread, hdr, len>> /\ (Amid(f)' <=> Amid(f))
    BY <1>3 DEF RecvBadMagic, DropHeader, PeerExit, Amid
  <2>2. CASE g # f
    <3>1. UNCHANGED <<sock[f], part[f], peer[f], open>>
      BY <1>0, <1>3, <2>2 DEF RecvBadMagic, DropHeader, PeerExit, TypeOK
    <3> QED
      BY <1>0, <1>i, <2>1, <3>1, FramingKept DEF Connected
  <2>3. CASE g = f /\ RecvBadMagic(g)
    <3>1. /\ sock[f] \in Seq(Unit) /\ part[f] \in Seq(Unit) /\ sock[f] # <<>>
          /\ Append(part[f], Head(sock[f]))[1].k # 1
      BY <1>0, <2>3 DEF RecvBadMagic, Taken, TypeOK
    <3>2. Append(part[f], Head(sock[f]))[1].k = 1
      BY <1>0, <3>1, FramedTake
    <3> QED
      BY <3>1, <3>2
  <2>4. CASE g = f /\ DropHeader(g)
    BY <1>i, <2>4 DEF DropHeader
  <2>5. CASE g = f /\ PeerExit(g)
    <3>1. /\ sock'[f] = <<>> /\ part'[f] = <<>> /\ peer'[f] = "gone"
      BY <1>0, <2>5 DEF PeerExit, TypeOK
    <3>2. Framed(<<>>, <<>>)
      BY DEF Framed
    <3> QED
      BY <3>1, <3>2 DEF Connected
  <2> QED
    BY <1>3, <2>2, <2>3, <2>4, <2>5
<1>4. ASSUME NEW g \in Fds,
             RecvTimeout(g) \/ RecvShort(g) \/ Stall(g) \/ Resume(g) \/ CloseFd(g)
      PROVE  /\ peer'[f] # "badmagic"
             /\ Framed(part[f], sock[f])'
             /\ Connected(f)' => EndsRight(f)'
  <2>1. UNCHANGED <<sock, part, xthread, hdr, len>> /\ (Amid(f)' <=> Amid(f))
    BY <1>4 DEF RecvTimeout, RecvShort, Stall, Resume, CloseFd, Amid
  <2>2. peer'[f] # "badmagic" /\ (Connected(f)' => Connected(f))
    BY <1>0, <1>4 DEF RecvTimeout, RecvShort, TimedOut, Stall, Resume, CloseFd, Connected, TypeOK
  <2> QED
    BY <1>i, <2>1, <2>2, FramingKept
<1> QED
  BY <1>i, <1>1, <1>2, <1>3, <1>4, RecvUnitFraming DEF Next

-----------------------------------------------------------------------------
(* The theorems.                                                           *)

\* The conjunction is inductive: in every reachable state the units on their
\* way are framed, ids are known and no backlog is slept on.
THEOREM SendInvariant == Spec => []SendInv
<1>1. SendInv /\ [Next]_vars => SendInv'
  <2> SUFFICES ASSUME SendInv, [Next]_vars PROVE SendInv'
    OBVIOUS
  <2>1. CASE Next
    <3>1. TypeOK' /\ Ids' /\ NoSleepingBacklog'
      BY <2>1, SenderTypes, ThreadTypes, PeerTypes DEF Next
    <3>2. Framing'
      BY <2>1, NextFraming
    <3> QED
      BY <3>1, <3>2 DEF SendInv
  <2>2. CASE UNCHANGED vars
    <3>1. TypeOK' /\ Ids' /\ NoSleepingBacklog'
      BY <2>2 DEF vars, SendInv, TypeOK, Ids, NoSleepingBacklog
    <3>2. Framing'
      BY <2>2 DEF vars, SendInv, Framing, Framed, EndsRight, LastUnit, Amid, Connected, Intact
    <3> QED
      BY <3>1, <3>2 DEF SendInv
  <2> QED
    BY <2>1, <2>2
<1> QED
  BY <1>1, InitSendInv, PTL DEF Spec

\* The queue, the thread, the socket buffers and the readers keep their types
\* (PROTOCOLBUFFERS.py:58-106, 489-508).
THEOREM SendTypes == Spec => []TypeOK
<1>1. SendInv => TypeOK
  BY DEF SendInv
<1> QED
  BY <1>1, SendInvariant, PTL

\* xsend_thread never waits for a signal while a message is queued
\* (PROTOCOLBUFFERS.py:62-88, 99-106).
THEOREM NoBacklogSleptOn == Spec => []NoSleepingBacklog
<1>1. SendInv => NoSleepingBacklog
  BY DEF SendInv
<1> QED
  BY <1>1, SendInvariant, PTL

\* In either direction a reader that does not find a header where it expects
\* one reads a connection from which the sender's or its own timeout took
\* units: nothing else loses the boundaries of messages, for any senders,
\* connections, lengths and buffers (PROTOCOLBUFFERS.py:74-84, 492-499).
THEOREM BoundariesKept == Spec => []NeverDesynced
<1>1. SendInv => NeverDesynced
  BY DEF SendInv, Framing, Intact, NeverDesynced
<1> QED
  BY <1>1, SendInvariant, PTL

\* Where the sender has no timeout, it takes two of the reader: the one inside a
\* header that drops units comes after one between messages, whose EAGAIN errno
\* still holds (PROTOCOLBUFFERS.py:492-493).
StaleErrno ==
    \A f \in Fds \ TimedFds : f \in cut => f \in again \/ peer[f] = "gone"

LEMMA StaleErrnoStep == SendInv /\ StaleErrno /\ [Next]_vars => StaleErrno'
<1> SUFFICES ASSUME SendInv, StaleErrno, [Next]_vars,
                    NEW f \in Fds, f \notin TimedFds, f \in cut'
             PROVE  f \in again' \/ peer'[f] = "gone"
  BY DEF StaleErrno
<1> USE DEF SendInv, TypeOK, StaleErrno, senderVars, queueVars, threadVars, connVars
<1>1. CASE SendError
  BY <1>1 DEF SendError
<1>2. ASSUME NEW g \in Fds, DropHeader(g)
      PROVE  f \in again' \/ peer'[f] = "gone"
  BY <1>2 DEF DropHeader
<1>3. ASSUME NEW g \in Fds, PeerExit(g)
      PROVE  f \in again' \/ peer'[f] = "gone"
  BY <1>3 DEF PeerExit
<1>4. ASSUME NEW g \in Fds, RecvBadMagic(g) \/ RecvShort(g) \/ Stall(g) \/ Resume(g)
      PROVE  f \in again' \/ peer'[f] = "gone"
  BY <1>4 DEF RecvBadMagic, RecvShort, Stall, Resume, TimedOut
<1>5. ASSUME NEW g \in Fds, RecvUnit(g) \/ RecvTimeout(g) \/ CloseFd(g)
      PROVE  f \in again' \/ peer'[f] = "gone"
  BY <1>5 DEF RecvUnit, RecvTimeout, CloseFd
<1>6. CASE \/ \E t \in Senders : Call(t) \/ Startup(t) \/ Xsend(t)
           \/ Relock \/ Pop \/ Sleep \/ SendSome \/ Sent \/ SpuriousWakeup
           \/ UNCHANGED vars
  <2>1. UNCHANGED <<cut, again, peer>>
    BY <1>6 DEF Call, Startup, Xsend, Relock, Pop, Sleep, SendSome, Sent, SpuriousWakeup, vars
  <2> QED
    BY <2>1
<1> QED
  BY <1>1, <1>2, <1>3, <1>4, <1>5, <1>6 DEF Next, Thread

\* On a connection whose sender has no timeout, a bad magic number means that
\* the reader is left with the EAGAIN of a timeout between two messages: without
\* one before it, no timeout inside a header loses a boundary
\* (PROTOCOLBUFFERS.py:492-499).
THEOREM BadMagicAfterIdleTimeout ==
    Spec => [](\A f \in Fds \ TimedFds : peer[f] = "badmagic" => f \in again)
<1>1. Init => StaleErrno
  BY DEF Init, StaleErrno
<1>2. Spec => []StaleErrno
  BY <1>1, StaleErrnoStep, SendInvariant, PTL DEF Spec
<1>3. SendInv /\ StaleErrno /\ NeverDesynced =>
         \A f \in Fds \ TimedFds : peer[f] = "badmagic" => f \in again
  BY DEF StaleErrno, NeverDesynced
<1> QED
  BY <1>2, <1>3, SendInvariant, BoundariesKept, PTL
-----------------------------------------------------------------------------
(* RpcSend implements RpcChannel: the second invariant follows which of    *)
(* the messages that xsend took for a connection the units belong to.      *)

\* Each message has an id of its own, from its call of xsend on.
Fresh ==
    /\ \A s \in Senders : spc[s] = "calling" => arg[s].id \in 1..count
    /\ \A s, t \in Senders :
          spc[s] = "calling" /\ spc[t] = "calling" /\ arg[s].id = arg[t].id => s = t
    /\ \A f \in Fds : \A n \in 1..Len(accepted[f]) :
          /\ accepted[f][n] # <<>> /\ accepted[f][n][1].id \in 1..count
          /\ \A s \in Senders : spc[s] = "calling" => arg[s].id # accepted[f][n][1].id

\* A sequence of messages with different ids.
Distinct(a) == /\ \A n \in 1..Len(a) : a[n] # <<>>
               /\ \A n, m \in 1..Len(a) : a[n][1].id = a[m][1].id => n = m

\* x, a message or one of its units, is of the messages a.
Known(a, x) == \E n \in 1..Len(a) : a[n] = Units(x)

\* The place in a of the message with this id.
Nth(a, id) == CHOOSE n \in 1..Len(a) : a[n][1].id = id

\* When r of the messages a have been received, the unit x comes next.
OfNext(a, r, x) == Known(a, x) /\ Nth(a, x.id) = r + 1

\* p and s hold the units that come after r received messages of a.
Continues(a, r, p, s) ==
    /\ r <= Len(a)
    /\ p # <<>> => OfNext(a, r, p[1])
    /\ s # <<>> => OfNext(a, r, s[1])
    /\ \A i \in 1..Len(s) : Known(a, s[i])
    /\ \A i \in 1..Len(s) : i + 1 \in 1..Len(s) =>
          Nth(a, s[i + 1].id) =
             IF s[i].k < s[i].size THEN Nth(a, s[i].id) ELSE Nth(a, s[i].id) + 1

\* Continues, of a shorter stream: its parts, put together.
LEMMA ContinuesIf ==
    ASSUME NEW a, NEW r, NEW p, NEW s, r <= Len(a),
           p # <<>> => OfNext(a, r, p[1]),
           s # <<>> => OfNext(a, r, s[1]),
           \A i \in 1..Len(s) : Known(a, s[i]),
           \A i \in 1..Len(s) : i + 1 \in 1..Len(s) =>
              Nth(a, s[i + 1].id) =
                 IF s[i].k < s[i].size THEN Nth(a, s[i].id) ELSE Nth(a, s[i].id) + 1
    PROVE  Continues(a, r, p, s)
BY DEF Continues

\* How many of the messages have been received or begun.
Begun(a, r, p, s) ==
    IF p = <<>> /\ s = <<>> THEN r ELSE Nth(a, LastUnit(p, s).id)

\* The queue holds of the messages a for f those after the k-th, in order.
Remaining(a, q, f, k) ==
    /\ \A i \in 1..Len(q) : q[i].fd = f => Known(a, q[i]) /\ Nth(a, q[i].id) > k
    /\ \A i, j \in 1..Len(q) :
          q[i].fd = f /\ q[j].fd = f /\ i < j => Nth(a, q[i].id) < Nth(a, q[j].id)
    /\ \A n \in 1..Len(a) : n > k =>
          \E i \in 1..Len(q) : q[i].fd = f /\ Nth(a, q[i].id) = n

\* xsend_thread has taken a message for f and not begun with it.
Unbegun(f) == xthread = "sending" /\ hdr.fd = f /\ len = hdr.size

BegunOn(f) == Begun(accepted[f], Len(received[f]), part[f], sock[f])

\* What xsend_thread and the queue hold for f comes after what has been sent.
Behind(f) ==
    IF Unbegun(f)
    THEN /\ OfNext(accepted[f], BegunOn(f), hdr)
         /\ Remaining(accepted[f], pending_sends, f, BegunOn(f) + 1)
    ELSE Remaining(accepted[f], pending_sends, f, BegunOn(f))

\* Of the messages that xsend took for f, the next ones are on their way.
InPlace(f) == /\ Distinct(accepted[f])
              /\ Continues(accepted[f], Len(received[f]), part[f], sock[f])
              /\ Connected(f) => Behind(f)

Delivery == \A f \in Intact : InPlace(f)

ChannelInv == Fresh /\ Delivery

\* x is a message with an id, or a unit of one.
Proper(x) == x.id \in 1..MaxMsgs /\ x.size \in HdrLen..MaxLen

\* The units of such an x start with the header, which has its id.
LEMMA UnitsOf ==
    ASSUME NEW x, Proper(x)
    PROVE  /\ Units(x) \in Seq(Unit) /\ Len(Units(x)) = x.size /\ Units(x) # <<>>
           /\ Units(x)[1].id = x.id
<1>1. x.size \in HdrLen..MaxLen /\ x.size \in 1..MaxLen /\ x.size \in Nat /\ x.size # 0 /\ x.id \in 1..MaxMsgs /\ MaxLen \in Nat
  BY BoundsAssumption DEF Proper
<1>2. Units(x) \in [1..x.size -> Unit]
  BY <1>1 DEF Units, Unit
<1>3. Units(x) \in Seq(Unit) /\ Len(Units(x)) = x.size
  BY <1>1, <1>2
<1>4. Units(x)[1] = [id |-> x.id, k |-> 1, size |-> x.size]
  BY <1>1 DEF Units
<1> QED
  BY <1>1, <1>3, <1>4, EmptySeq

\* Units are proper, and messages with an id.
LEMMA ProperAre ==
    /\ \A u \in Unit : Proper(u)
    /\ \A m \in Message : m.id # 0 => Proper(m)
<1>1. ASSUME NEW u \in Unit PROVE Proper(u)
  BY DEF Unit, Proper
<1>2. ASSUME NEW m \in Message, m.id # 0 PROVE Proper(m)
  BY <1>2, BoundsAssumption DEF Message, Proper
<1> QED
  BY <1>1, <1>2

\* The place of a message is the only one where it is.
LEMMA NthIs ==
    ASSUME NEW a \in Seq(Seq(Unit)), Distinct(a), NEW x, Proper(x),
           NEW n \in 1..Len(a), a[n] = Units(x)
    PROVE  Known(a, x) /\ Nth(a, x.id) = n
<1>1. a[n][1].id = x.id
  BY UnitsOf
<1>2. \A m \in 1..Len(a) : a[m][1].id = x.id => m = n
  BY <1>1 DEF Distinct
<1> QED
  BY <1>1, <1>2 DEF Known, Nth

\* What is known has its place.
LEMMA KnownAt ==
    ASSUME NEW a \in Seq(Seq(Unit)), Distinct(a), NEW x, Proper(x), Known(a, x)
    PROVE  /\ Nth(a, x.id) \in 1..Len(a) /\ Nth(a, x.id) \in Nat
           /\ a[Nth(a, x.id)] = Units(x)
<1>1. PICK n \in 1..Len(a) : a[n] = Units(x)
  BY DEF Known
<1>2. Nth(a, x.id) = n
  BY <1>1, NthIs
<1> QED
  BY <1>1, <1>2, LenProperties

\* A message with a new id leaves the others in their places.
LEMMA AppendDistinct ==
    ASSUME NEW a \in Seq(Seq(Unit)), Distinct(a), NEW m, Proper(m),
           \A n \in 1..Len(a) : a[n][1].id # m.id
    PROVE  /\ Append(a, Units(m)) \in Seq(Seq(Unit)) /\ Distinct(Append(a, Units(m)))
           /\ Len(Append(a, Units(m))) = Len(a) + 1
           /\ Known(Append(a, Units(m)), m) /\ Nth(Append(a, Units(m)), m.id) = Len(a) + 1
           /\ \A n \in 1..Len(a) : Append(a, Units(m))[n] = a[n]
<1> DEFINE b == Append(a, Units(m))
<1>1. /\ Units(m) \in Seq(Unit) /\ Units(m) # <<>> /\ Units(m)[1].id = m.id
  BY UnitsOf
<1>2. /\ b \in Seq(Seq(Unit)) /\ Len(b) = Len(a) + 1 /\ Len(a) \in Nat
      /\ \A n \in 1..Len(a) : b[n] = a[n]
      /\ b[Len(a) + 1] = Units(m)
  BY <1>1, AppendProperties, LenProperties
<1> HIDE DEF b
<1>3. \A n \in 1..Len(b) : n \in 1..Len(a) \/ n = Len(a) + 1
  BY <1>2
<1>4. Distinct(b)
  <2>1. \A n \in 1..Len(a) : b[n] # <<>> /\ b[n][1].id # m.id
    BY <1>2 DEF Distinct
  <2>2. b[Len(a) + 1] # <<>> /\ b[Len(a) + 1][1].id = m.id
    BY <1>1, <1>2
  <2>3. ASSUME NEW i \in 1..Len(b), NEW j \in 1..Len(b), b[i][1].id = b[j][1].id
        PROVE  i = j
    <3>1. CASE i \in 1..Len(a) /\ j \in 1..Len(a)
      BY <1>2, <2>3, <3>1 DEF Distinct
    <3>2. CASE ~(i \in 1..Len(a) /\ j \in 1..Len(a))
      BY <1>3, <2>1, <2>2, <2>3, <3>2
    <3> QED
      BY <3>1, <3>2
  <2>4. \A i \in 1..Len(b) : b[i] # <<>>
    BY <1>3, <2>1, <2>2
  <2> QED
    BY <2>3, <2>4 DEF Distinct
<1>5. Len(a) + 1 \in 1..Len(b)
  BY <1>2
<1>6. Known(b, m) /\ Nth(b, m.id) = Len(a) + 1
  BY <1>2, <1>4, <1>5, NthIs
<1> QED
  BY <1>2, <1>4, <1>6 DEF b

\* What was known before it keeps its place.
LEMMA AppendKnown ==
    ASSUME NEW a \in Seq(Seq(Unit)), Distinct(a), NEW m, Proper(m),
           \A n \in 1..Len(a) : a[n][1].id # m.id
    PROVE  \A x : Proper(x) /\ Known(a, x) =>
              /\ Known(Append(a, Units(m)), x)
              /\ Nth(Append(a, Units(m)), x.id) = Nth(a, x.id)
<1> SUFFICES ASSUME NEW x, Proper(x), Known(a, x)
             PROVE  /\ Known(Append(a, Units(m)), x)
                    /\ Nth(Append(a, Units(m)), x.id) = Nth(a, x.id)
  OBVIOUS
<1> DEFINE b == Append(a, Units(m))
<1>1. /\ b \in Seq(Seq(Unit)) /\ Distinct(b) /\ Len(b) = Len(a) + 1
      /\ \A n \in 1..Len(a) : b[n] = a[n]
  BY AppendDistinct
<1>2. Nth(a, x.id) \in 1..Len(a) /\ a[Nth(a, x.id)] = Units(x)
  BY KnownAt
<1> HIDE DEF b
<1>3. Nth(a, x.id) \in 1..Len(b) /\ b[Nth(a, x.id)] = Units(x)
  BY <1>1, <1>2, LenProperties
<1>4. Known(b, x) /\ Nth(b, x.id) = Nth(a, x.id)
  BY <1>1, <1>3, NthIs
<1> QED
  BY <1>4 DEF b

\* It changes nothing for the units on their way.
LEMMA AppendContinues ==
    ASSUME NEW a \in Seq(Seq(Unit)), Distinct(a), NEW m, Proper(m),
           \A n \in 1..Len(a) : a[n][1].id # m.id,
           NEW r \in Nat, NEW p \in Seq(Unit), NEW s \in Seq(Unit), Framed(p, s),
           Continues(a, r, p, s)
    PROVE  /\ Continues(Append(a, Units(m)), r, p, s)
           /\ Begun(Append(a, Units(m)), r, p, s) = Begun(a, r, p, s)
<1> DEFINE b == Append(a, Units(m))
<1>1. \A x : Proper(x) /\ Known(a, x) => Known(b, x) /\ Nth(b, x.id) = Nth(a, x.id)
  BY AppendKnown
<1> HIDE DEF b
<1>2. \A i \in 1..Len(s) : Proper(s[i]) /\ Known(a, s[i])
  BY ProperAre, ElementOfSeq DEF Continues
<1>3. p # <<>> => /\ Proper(p[1]) /\ Known(a, p[1])
                  /\ p[Len(p)].id = p[1].id
  <2>1. p # <<>> => 1 \in 1..Len(p) /\ Len(p) \in 1..Len(p)
    BY EmptySeq, LenProperties
  <2>2. p # <<>> => Proper(p[1])
    BY <2>1, ProperAre, ElementOfSeq
  <2>3. p # <<>> => Known(a, p[1])
    BY DEF Continues, OfNext
  <2>4. p # <<>> => p[Len(p)].id = p[1].id
    <3>1. p # <<>> => p[Len(p)] = [id |-> p[1].id, k |-> Len(p), size |-> p[1].size]
      BY <2>1 DEF Framed
    <3> QED
      BY <3>1
  <2> QED
    BY <2>2, <2>3, <2>4
<1>4. s # <<>> => 1 \in 1..Len(s) /\ Len(s) \in 1..Len(s)
  BY EmptySeq, LenProperties
<1>5. Continues(b, r, p, s)
  <2>1. \A i \in 1..Len(s) : Known(b, s[i]) /\ Nth(b, s[i].id) = Nth(a, s[i].id)
    BY <1>1, <1>2
  <2>2. p # <<>> => Known(b, p[1]) /\ Nth(b, p[1].id) = Nth(a, p[1].id)
    BY <1>1, <1>3
  <2>3. r <= Len(b)
    <3>1. Len(b) = Len(a) + 1 /\ Len(a) \in Nat
      BY AppendDistinct, LenProperties DEF b
    <3> QED
      BY <3>1 DEF Continues
  <2> QED
    BY <1>4, <2>1, <2>2, <2>3 DEF Continues, OfNext
<1>6. Begun(b, r, p, s) = Begun(a, r, p, s)
  <2>1. CASE s # <<>>
    BY <1>1, <1>2, <1>4, <2>1 DEF Begun, LastUnit
  <2>2. CASE s = <<>> /\ p # <<>>
    BY <1>1, <1>3, <2>2 DEF Begun, LastUnit
  <2>3. CASE s = <<>> /\ p = <<>>
    BY <2>3 DEF Begun
  <2> QED
    BY <2>1, <2>2, <2>3
<1> QED
  BY <1>5, <1>6 DEF b

\* A message for another connection goes behind the queue.
LEMMA QueueOther ==
    ASSUME NEW a, NEW q \in Seq(Message), NEW f, NEW k, Remaining(a, q, f, k),
           NEW m \in Message, m.fd # f
    PROVE  Remaining(a, Append(q, m), f, k)
<1> DEFINE t == Append(q, m)
<1>1. /\ t \in Seq(Message) /\ Len(t) = Len(q) + 1 /\ Len(q) \in Nat
      /\ \A i \in 1..Len(q) : t[i] = q[i]
      /\ t[Len(q) + 1] = m
  BY AppendProperties, LenProperties
<1> HIDE DEF t
<1>2. \A i \in 1..Len(t) : t[i].fd = f => i \in 1..Len(q)
  BY <1>1
<1>3. \A i \in 1..Len(q) : i \in 1..Len(t)
  BY <1>1
<1>4. \A i \in 1..Len(t) : t[i].fd = f => Known(a, t[i]) /\ Nth(a, t[i].id) > k
  BY <1>1, <1>2 DEF Remaining
<1>5. \A i, j \in 1..Len(t) :
         t[i].fd = f /\ t[j].fd = f /\ i < j => Nth(a, t[i].id) < Nth(a, t[j].id)
  BY <1>1, <1>2 DEF Remaining
<1>6. \A n \in 1..Len(a) : n > k => \E i \in 1..Len(t) : t[i].fd = f /\ Nth(a, t[i].id) = n
  <2> TAKE n \in 1..Len(a)
  <2> SUFFICES ASSUME n > k PROVE \E i \in 1..Len(t) : t[i].fd = f /\ Nth(a, t[i].id) = n
    OBVIOUS
  <2>1. PICK i \in 1..Len(q) : q[i].fd = f /\ Nth(a, q[i].id) = n
    BY DEF Remaining
  <2> QED
    BY <1>1, <1>3, <2>1
<1> QED
  BY <1>4, <1>5, <1>6 DEF Remaining, t

\* A new message of the connection goes behind the queue.
LEMMA QueueOwn ==
    ASSUME NEW a \in Seq(Seq(Unit)), Distinct(a), NEW q \in Seq(Message), NEW f,
           NEW k \in Nat, k <= Len(a), Remaining(a, q, f, k),
           \A i \in 1..Len(q) : q[i].id # 0,
           NEW m \in Message, m.fd = f, m.id # 0, \A n \in 1..Len(a) : a[n][1].id # m.id
    PROVE  Remaining(Append(a, Units(m)), Append(q, m), f, k)
<1> DEFINE t == Append(q, m)
<1> DEFINE b == Append(a, Units(m))
<1>1. /\ t \in Seq(Message) /\ Len(t) = Len(q) + 1 /\ Len(q) \in Nat
      /\ \A i \in 1..Len(q) : t[i] = q[i]
      /\ t[Len(q) + 1] = m
  BY AppendProperties, LenProperties
<1>2. /\ b \in Seq(Seq(Unit)) /\ Distinct(b) /\ Len(b) = Len(a) + 1 /\ Len(a) \in Nat
      /\ Known(b, m) /\ Nth(b, m.id) = Len(a) + 1
  BY AppendDistinct, ProperAre, LenProperties
<1>3. \A x : Proper(x) /\ Known(a, x) => Known(b, x) /\ Nth(b, x.id) = Nth(a, x.id)
  BY AppendKnown, ProperAre
<1> HIDE DEF t, b
<1>4. ASSUME NEW i \in 1..Len(q), q[i].fd = f
      PROVE  /\ Known(b, q[i]) /\ Nth(b, q[i].id) = Nth(a, q[i].id)
             /\ Nth(a, q[i].id) \in 1..Len(a) /\ Nth(a, q[i].id) > k
  <2>1. Proper(q[i]) /\ Known(a, q[i]) /\ Nth(a, q[i].id) > k
    BY <1>4, ProperAre, ElementOfSeq DEF Remaining
  <2> QED
    BY <1>3, <2>1, KnownAt
<1>5. \A i \in 1..Len(t) : i \in 1..Len(q) \/ i = Len(q) + 1
  BY <1>1
<1>6. \A i \in 1..Len(t) : t[i].fd = f => Known(b, t[i]) /\ Nth(b, t[i].id) > k
  <2> TAKE i \in 1..Len(t)
  <2>1. CASE i \in 1..Len(q)
    BY <1>1, <1>4, <2>1
  <2>2. CASE i = Len(q) + 1
    BY <1>1, <1>2, <2>2
  <2> QED
    BY <1>5, <2>1, <2>2
<1>7. \A i, j \in 1..Len(t) :
         t[i].fd = f /\ t[j].fd = f /\ i < j => Nth(b, t[i].id) < Nth(b, t[j].id)
  <2> SUFFICES ASSUME NEW i \in 1..Len(t), NEW j \in 1..Len(t), t[i].fd = f, t[j].fd = f, i < j
               PROVE  Nth(b, t[i].id) < Nth(b, t[j].id)
    OBVIOUS
  <2>0. i \in 1..Len(q)
    BY <1>1
  <2>1. CASE j \in 1..Len(q)
    <3>1. Nth(a, q[i].id) < Nth(a, q[j].id)
      BY <1>1, <2>0, <2>1 DEF Remaining
    <3> QED
      BY <1>1, <1>4, <2>0, <2>1, <3>1
  <2>2. CASE j = Len(q) + 1
    <3>1. Nth(b, t[i].id) \in 1..Len(a)
      BY <1>1, <1>4, <2>0
    <3> QED
      BY <1>1, <1>2, <2>2, <3>1
  <2> QED
    BY <1>5, <2>1, <2>2
<1>8. \A n \in 1..Len(b) : n > k => \E i \in 1..Len(t) : t[i].fd = f /\ Nth(b, t[i].id) = n
  <2> SUFFICES ASSUME NEW n \in 1..Len(b), n > k
               PROVE  \E i \in 1..Len(t) : t[i].fd = f /\ Nth(b, t[i].id) = n
    OBVIOUS
  <2>1. CASE n = Len(a) + 1
    <3>1. Len(q) + 1 \in 1..Len(t)
      BY <1>1
    <3> QED
      BY <1>1, <1>2, <2>1, <3>1
  <2>2. CASE n \in 1..Len(a)
    <3>1. PICK i \in 1..Len(q) : q[i].fd = f /\ Nth(a, q[i].id) = n
      BY <2>2 DEF Remaining
    <3>2. i \in 1..Len(t)
      BY <1>1
    <3> QED
      BY <1>1, <1>4, <3>1, <3>2
  <2> QED
    BY <1>2, <2>1, <2>2
<1> QED
  BY <1>6, <1>7, <1>8 DEF Remaining, t, b

\* xsend_thread takes a message from the queue: when it is for f, the next.
LEMMA QueueTake ==
    ASSUME NEW a \in Seq(Seq(Unit)), Distinct(a), NEW q \in Seq(Message), q # <<>>,
           \A i \in 1..Len(q) : q[i].id # 0,
           NEW f, NEW k \in Nat, Remaining(a, q, f, k)
    PROVE  /\ Head(q).fd = f => Known(a, Head(q)) /\ Nth(a, Head(q).id) = k + 1
                                /\ Remaining(a, Tail(q), f, k + 1)
           /\ Head(q).fd # f => Remaining(a, Tail(q), f, k)
<1> DEFINE t == Tail(q)
<1>1. /\ Head(q) = q[1] /\ t \in Seq(Message) /\ Len(t) = Len(q) - 1 /\ Len(q) \in Nat
      /\ Len(q) # 0 /\ \A i \in 1..Len(t) : t[i] = q[i + 1]
  BY EmptySeq, HeadTailProperties
<1> HIDE DEF t
<1>2. /\ 1 \in 1..Len(q)
      /\ \A i \in 1..Len(t) : i + 1 \in 1..Len(q) /\ i + 1 > 1
      /\ \A i \in 1..Len(q) : i # 1 => i - 1 \in 1..Len(t) /\ (i - 1) + 1 = i /\ 1 < i
  BY <1>1
<1>3. ASSUME NEW i \in 1..Len(q), q[i].fd = f
      PROVE  Known(a, q[i]) /\ Nth(a, q[i].id) \in 1..Len(a) /\ Nth(a, q[i].id) > k
  BY <1>3, KnownAt, ProperAre, ElementOfSeq DEF Remaining
<1>4. \A i, j \in 1..Len(t) :
         t[i].fd = f /\ t[j].fd = f /\ i < j => Nth(a, t[i].id) < Nth(a, t[j].id)
  <2> SUFFICES ASSUME NEW i \in 1..Len(t), NEW j \in 1..Len(t), t[i].fd = f, t[j].fd = f, i < j
               PROVE  Nth(a, t[i].id) < Nth(a, t[j].id)
    OBVIOUS
  <2>1. i + 1 \in 1..Len(q) /\ j + 1 \in 1..Len(q) /\ i + 1 < j + 1
    BY <1>2
  <2> QED
    BY <1>1, <2>1 DEF Remaining
<1>5. ASSUME NEW n \in 1..Len(a), n > k, q[1].fd = f => Nth(a, q[1].id) # n
      PROVE  \E i \in 1..Len(t) : t[i].fd = f /\ Nth(a, t[i].id) = n
  <2>1. PICK i \in 1..Len(q) : q[i].fd = f /\ Nth(a, q[i].id) = n
    BY <1>5 DEF Remaining
  <2>2. i # 1
    BY <1>5, <2>1
  <2>3. i - 1 \in 1..Len(t) /\ t[i - 1] = q[i]
    BY <1>1, <1>2, <2>2
  <2> QED
    BY <2>1, <2>3
<1>6. CASE q[1].fd = f
  <2>1. Known(a, q[1]) /\ Nth(a, q[1].id) \in 1..Len(a) /\ Nth(a, q[1].id) > k
    BY <1>2, <1>3, <1>6
  <2>2. Nth(a, q[1].id) = k + 1
    <3>1. k + 1 \in 1..Len(a) /\ k + 1 > k
      BY <2>1
    <3>2. PICK i \in 1..Len(q) : q[i].fd = f /\ Nth(a, q[i].id) = k + 1
      BY <3>1 DEF Remaining
    <3>3. i # 1 => Nth(a, q[1].id) < Nth(a, q[i].id)
      BY <1>2, <1>6, <3>2 DEF Remaining
    <3> QED
      BY <2>1, <3>2, <3>3
  <2>3. ASSUME NEW i \in 1..Len(t), t[i].fd = f
        PROVE  Known(a, t[i]) /\ Nth(a, t[i].id) > k + 1
    <3>1. i + 1 \in 1..Len(q) /\ t[i] = q[i + 1] /\ 1 < i + 1
      BY <1>1, <1>2
    <3>2. Known(a, q[i + 1]) /\ Nth(a, q[1].id) < Nth(a, q[i + 1].id)
      BY <1>2, <1>3, <1>6, <2>3, <3>1 DEF Remaining
    <3> QED
      BY <2>2, <3>1, <3>2
  <2>4. ASSUME NEW n \in 1..Len(a), n > k + 1
        PROVE  \E i \in 1..Len(t) : t[i].fd = f /\ Nth(a, t[i].id) = n
    <3>1. n > k /\ n # k + 1
      BY <2>4, LenProperties
    <3> QED
      BY <1>5, <2>2, <3>1
  <2>5. Remaining(a, t, f, k + 1)
    BY <1>4, <2>3, <2>4 DEF Remaining
  <2> QED
    BY <1>1, <1>6, <2>1, <2>2, <2>5 DEF t
<1>7. CASE q[1].fd # f
  <2>1. ASSUME NEW i \in 1..Len(t), t[i].fd = f
        PROVE  Known(a, t[i]) /\ Nth(a, t[i].id) > k
    BY <1>1, <1>2, <1>3, <2>1
  <2>2. Remaining(a, t, f, k)
    BY <1>4, <1>5, <1>7, <2>1 DEF Remaining
  <2> QED
    BY <1>1, <1>7, <2>2 DEF t
<1> QED
  BY <1>6, <1>7

\* It starts with nothing on the way.
LEMMA ChannelInvInit == Init => ChannelInv
<1> SUFFICES ASSUME Init PROVE ChannelInv
  OBVIOUS
<1>1. Fresh
  BY DEF Init, Fresh
<1>2. ASSUME NEW f \in Intact PROVE InPlace(f)
  <2>1. /\ accepted[f] = <<>> /\ received[f] = <<>> /\ part[f] = <<>> /\ sock[f] = <<>>
        /\ pending_sends = <<>> /\ ~Unbegun(f)
    BY DEF Init, Intact, Unbegun
  <2>2. Distinct(<<>>) /\ Continues(<<>>, 0, <<>>, <<>>) /\ Begun(<<>>, 0, <<>>, <<>>) = 0
    BY DEF Distinct, Continues, Begun
  <2>3. Remaining(<<>>, <<>>, f, 0)
    BY DEF Remaining
  <2> QED
    BY <2>1, <2>2, <2>3 DEF InPlace, Behind, BegunOn
<1> QED
  BY <1>1, <1>2 DEF ChannelInv, Delivery

\* Ids stay apart.
LEMMA FreshKeeps == SendInv /\ Fresh /\ Next => Fresh'
<1> SUFFICES ASSUME SendInv, Fresh, Next PROVE Fresh'
  OBVIOUS
<1> USE DEF senderVars, queueVars, threadVars, connVars
<1>0. TypeOK /\ Ids
  BY DEF SendInv
<1>1. ASSUME NEW s \in Senders, Call(s) PROVE Fresh'
  <2>1. PICK f \in Fds, n \in HdrLen..MaxLen :
           arg' = [arg EXCEPT ![s] = [id |-> count + 1, fd |-> f, size |-> n]]
    BY <1>1 DEF Call
  <2>2. /\ count' = count + 1 /\ count \in Nat /\ spc' = [spc EXCEPT ![s] = "calling"]
        /\ accepted' = accepted /\ spc[s] = "idle"
    BY <1>0, <1>1, BoundsAssumption DEF Call, TypeOK
  <2>3. /\ arg'[s].id = count + 1 /\ \A t \in Senders \ {s} : arg'[t] = arg[t] /\ spc'[t] = spc[t]
    BY <1>0, <2>1, <2>2 DEF TypeOK
  <2>4. \A t \in Senders \ {s} : spc[t] = "calling" => arg[t].id \in 1..count
    BY DEF Fresh
  <2>5. \A t \in Senders : spc'[t] = "calling" => arg'[t].id \in 1..count'
    <3> TAKE t \in Senders
    <3>1. CASE t = s
      BY <2>2, <2>3, <3>1
    <3>2. CASE t # s
      BY <2>2, <2>3, <2>4, <3>2
    <3> QED
      BY <3>1, <3>2
  <2>6. \A t, u \in Senders :
           spc'[t] = "calling" /\ spc'[u] = "calling" /\ arg'[t].id = arg'[u].id => t = u
    <3> SUFFICES ASSUME NEW t \in Senders, NEW u \in Senders, spc'[t] = "calling", spc'[u] = "calling",
                        arg'[t].id = arg'[u].id, t # u
                 PROVE  FALSE
      OBVIOUS
    <3>1. CASE t = s
      BY <2>2, <2>3, <2>4, <3>1
    <3>2. CASE u = s
      BY <2>2, <2>3, <2>4, <3>2
    <3>3. CASE t # s /\ u # s
      BY <2>3, <3>3 DEF Fresh
    <3> QED
      BY <3>1, <3>2, <3>3
  <2>7. \A g \in Fds : \A i \in 1..Len(accepted'[g]) :
          /\ accepted'[g][i] # <<>> /\ accepted'[g][i][1].id \in 1..count'
          /\ \A t \in Senders : spc'[t] = "calling" => arg'[t].id # accepted'[g][i][1].id
    <3> SUFFICES ASSUME NEW g \in Fds, NEW i \in 1..Len(accepted[g])
                 PROVE  /\ accepted[g][i] # <<>> /\ accepted[g][i][1].id \in 1..count'
                        /\ \A t \in Senders :
                              spc'[t] = "calling" => arg'[t].id # accepted[g][i][1].id
      BY <2>2
    <3>1. accepted[g][i] # <<>> /\ accepted[g][i][1].id \in 1..count
      BY DEF Fresh
    <3>2. ASSUME NEW t \in Senders, spc'[t] = "calling" PROVE arg'[t].id # accepted[g][i][1].id
      <4>1. CASE t = s
        BY <2>2, <2>3, <3>1, <4>1
      <4>2. CASE t # s
        BY <2>3, <3>2, <4>2 DEF Fresh
      <4> QED
        BY <4>1, <4>2
    <3> QED
      BY <2>2, <3>1, <3>2
  <2> QED
    BY <2>5, <2>6, <2>7 DEF Fresh
<1>2. ASSUME NEW s \in Senders, Xsend(s) PROVE Fresh'
  <2> DEFINE m == arg[s]
  <2>1. /\ spc[s] = "calling" /\ count' = count
        /\ accepted' = [accepted EXCEPT ![m.fd] = Append(accepted[m.fd], Units(m))]
        /\ \A t \in Senders : spc'[t] = "calling" => t # s /\ spc[t] = "calling" /\ arg'[t] = arg[t]
    BY <1>0, <1>2 DEF Xsend, TypeOK
  <2>2. m \in Message /\ m.id # 0 /\ m.fd \in Fds /\ m.id \in 1..count
    BY <1>0, <2>1 DEF TypeOK, Ids, Message, Fresh
  <2>3. Units(m) # <<>> /\ Units(m)[1].id = m.id /\ Units(m) \in Seq(Unit)
    BY <2>2, ProperAre, UnitsOf
  <2>4. \A t \in Senders : spc'[t] = "calling" => arg'[t].id # m.id /\ arg'[t].id \in 1..count'
    BY <2>1 DEF Fresh
  <2>5. \A t, u \in Senders :
           spc'[t] = "calling" /\ spc'[u] = "calling" /\ arg'[t].id = arg'[u].id => t = u
    BY <2>1 DEF Fresh
  <2>6. ASSUME NEW g \in Fds, NEW i \in 1..Len(accepted'[g])
        PROVE  /\ accepted'[g][i] # <<>> /\ accepted'[g][i][1].id \in 1..count'
               /\ \A t \in Senders : spc'[t] = "calling" => arg'[t].id # accepted'[g][i][1].id
    <3>0. \A j \in 1..Len(accepted[g]) :
             /\ accepted[g][j] # <<>> /\ accepted[g][j][1].id \in 1..count'
             /\ \A t \in Senders : spc'[t] = "calling" => arg'[t].id # accepted[g][j][1].id
      <4> TAKE j \in 1..Len(accepted[g])
      <4>1. /\ accepted[g][j] # <<>> /\ accepted[g][j][1].id \in 1..count
            /\ \A t \in Senders : spc[t] = "calling" => arg[t].id # accepted[g][j][1].id
        BY DEF Fresh
      <4> QED
        BY <2>1, <4>1
    <3>1. CASE g = m.fd
      <4>1. accepted[g] \in Seq(Seq(Unit)) /\ accepted'[g] = Append(accepted[g], Units(m))
        BY <1>0, <2>1, <2>2, <3>1 DEF TypeOK
      <4>2. /\ Len(accepted'[g]) = Len(accepted[g]) + 1 /\ Len(accepted[g]) \in Nat
            /\ \A j \in 1..Len(accepted[g]) : accepted'[g][j] = accepted[g][j]
            /\ accepted'[g][Len(accepted[g]) + 1] = Units(m)
        BY <2>3, <4>1, AppendProperties, LenProperties
      <4>3. CASE i \in 1..Len(accepted[g])
        BY <3>0, <4>2, <4>3
      <4>4. CASE i = Len(accepted[g]) + 1
        BY <2>1, <2>2, <2>3, <2>4, <4>2, <4>4
      <4> QED
        BY <2>6, <4>2, <4>3, <4>4
    <3>2. CASE g # m.fd
      <4>1. accepted'[g] = accepted[g]
        BY <1>0, <2>1, <3>2 DEF TypeOK
      <4> QED
        BY <2>6, <3>0, <4>1
    <3> QED
      BY <3>1, <3>2
  <2> QED
    BY <2>4, <2>5, <2>6 DEF Fresh
<1>3. CASE UNCHANGED <<spc, arg, count, accepted>>
  BY <1>3 DEF Fresh
<1>4. (\E s \in Senders : Call(s) \/ Xsend(s)) \/ UNCHANGED <<spc, arg, count, accepted>>
  BY DEF Next, Startup, Thread, Relock, Pop, Sleep, SendSome, SendError, Sent, SpuriousWakeup,
     RecvUnit, RecvBadMagic, RecvTimeout, DropHeader, RecvShort, Stall, Resume, PeerExit, CloseFd
<1> QED
  BY <1>1, <1>2, <1>3, <1>4

\* The last unit on the way is known, and so is the number of messages begun.
LEMMA BegunIn ==
    ASSUME NEW a \in Seq(Seq(Unit)), Distinct(a), NEW r \in Nat,
           NEW p \in Seq(Unit), NEW s \in Seq(Unit), Framed(p, s), Continues(a, r, p, s)
    PROVE  /\ Begun(a, r, p, s) \in Nat /\ Begun(a, r, p, s) <= Len(a)
           /\ p # <<>> \/ s # <<>> => LastUnit(p, s) \in Unit /\ Known(a, LastUnit(p, s))
<1>1. CASE s # <<>>
  <2>1. Len(s) \in 1..Len(s)
    BY <1>1, EmptySeq, LenProperties
  <2>2. s[Len(s)] \in Unit /\ Known(a, s[Len(s)])
    BY <2>1, ElementOfSeq DEF Continues
  <2>3. Nth(a, s[Len(s)].id) \in 1..Len(a) /\ Len(a) \in Nat
    BY <2>2, KnownAt, ProperAre, LenProperties
  <2> QED
    BY <1>1, <2>2, <2>3 DEF Begun, LastUnit
<1>2. CASE s = <<>> /\ p # <<>>
  <2>1. Len(p) \in 1..Len(p)
    BY <1>2, EmptySeq, LenProperties
  <2>2. p[Len(p)] = [id |-> p[1].id, k |-> Len(p), size |-> p[1].size]
    BY <2>1 DEF Framed
  <2>3. Known(a, p[1])
    BY <1>2 DEF Continues, OfNext
  <2>4. Units(p[Len(p)]) = Units(p[1])
    BY <2>2 DEF Units
  <2>5. p[Len(p)] \in Unit /\ Known(a, p[Len(p)])
    BY <2>1, <2>3, <2>4, ElementOfSeq DEF Known
  <2>6. Nth(a, p[Len(p)].id) \in 1..Len(a) /\ Len(a) \in Nat
    BY <2>5, KnownAt, ProperAre, LenProperties
  <2> QED
    BY <1>2, <2>5, <2>6 DEF Begun, LastUnit
<1>3. CASE s = <<>> /\ p = <<>>
  BY <1>3 DEF Begun, Continues
<1> QED
  BY <1>1, <1>2, <1>3

\* A step that leaves what is on its way on f where it is.
LEMMA InPlaceKept ==
    ASSUME NEW f, InPlace(f),
           UNCHANGED <<accepted[f], received[f], part[f], sock[f], pending_sends>>,
           Connected(f)' => Connected(f),
           Unbegun(f)' <=> Unbegun(f), Unbegun(f) => hdr' = hdr
    PROVE  InPlace(f)'
<1>1. BegunOn(f)' = BegunOn(f)
  BY DEF BegunOn
<1>2. Connected(f)' => Behind(f)'
  BY <1>1 DEF InPlace, Behind
<1> QED
  BY <1>2 DEF InPlace

\* xsend puts a message behind the others of its connection.
LEMMA XsendInPlace ==
    ASSUME SendInv, ChannelInv, NEW s \in Senders, Xsend(s), NEW f \in Intact
    PROVE  InPlace(f)'
<1> USE DEF threadVars, connVars
<1> DEFINE m == arg[s]
<1> DEFINE a == accepted[f]
<1> DEFINE r == Len(received[f])
<1>0. TypeOK /\ Ids /\ Fresh /\ InPlace(f) /\ f \in Fds /\ Framed(part[f], sock[f])
  BY DEF SendInv, Framing, ChannelInv, Delivery, Intact
<1>1. m \in Message /\ m.id # 0 /\ m.fd \in Fds /\ Proper(m)
  BY <1>0, ProperAre DEF Xsend, TypeOK, Ids, Message
<1>2. /\ part'[f] = part[f] /\ sock'[f] = sock[f] /\ received'[f] = received[f]
      /\ hdr' = hdr /\ len' = len /\ (Connected(f)' <=> Connected(f))
      /\ (xthread' = "sending" <=> xthread = "sending")
      /\ pending_sends' = Append(pending_sends, m)
      /\ accepted' = [accepted EXCEPT ![m.fd] = Append(accepted[m.fd], Units(m))]
  BY <1>0 DEF Xsend, Connected
<1>3. (Unbegun(f)' <=> Unbegun(f))
  BY <1>2 DEF Unbegun
<1>4. /\ pending_sends \in Seq(Message) /\ a \in Seq(Seq(Unit)) /\ r \in Nat
      /\ part[f] \in Seq(Unit) /\ sock[f] \in Seq(Unit)
      /\ \A i \in 1..Len(pending_sends) : pending_sends[i].id # 0
  BY <1>0, LenProperties DEF TypeOK, Ids
<1>5. CASE f # m.fd
  <2>1. accepted'[f] = a
    BY <1>0, <1>2, <1>5 DEF TypeOK
  <2>2. BegunOn(f)' = BegunOn(f)
    BY <1>2, <2>1 DEF BegunOn
  <2>3. Connected(f) => Behind(f)'
    BY <1>0, <1>1, <1>2, <1>3, <1>4, <1>5, <2>1, <2>2, QueueOther DEF InPlace, Behind
  <2> QED
    BY <1>0, <1>2, <2>1, <2>3 DEF InPlace
<1>6. CASE f = m.fd
  <2>1. accepted'[f] = Append(a, Units(m))
    BY <1>0, <1>2, <1>6 DEF TypeOK
  <2>2. \A n \in 1..Len(a) : a[n][1].id # m.id
    BY <1>0 DEF Xsend, Fresh
  <2>3. Distinct(a) /\ Continues(a, r, part[f], sock[f])
    BY <1>0 DEF InPlace
  <2>4. /\ Continues(Append(a, Units(m)), r, part[f], sock[f])
        /\ Begun(Append(a, Units(m)), r, part[f], sock[f]) = Begun(a, r, part[f], sock[f])
    <3>1. /\ a \in Seq(Seq(Unit)) /\ r \in Nat /\ part[f] \in Seq(Unit) /\ sock[f] \in Seq(Unit)
          /\ Framed(part[f], sock[f]) /\ Proper(m)
      BY <1>0, <1>1, <1>4
    <3> HIDE DEF a, r, m
    <3> QED
      BY <2>2, <2>3, <3>1, AppendContinues
  <2>5. Distinct(accepted'[f]) /\ Continues(accepted'[f], Len(received'[f]), part'[f], sock'[f])
        /\ BegunOn(f)' = BegunOn(f)
    <3>1. Distinct(Append(a, Units(m)))
      BY <1>1, <1>4, <2>2, <2>3, AppendDistinct
    <3>2. BegunOn(f)' = BegunOn(f)
      BY <1>2, <2>1, <2>4 DEF BegunOn
    <3> QED
      BY <1>2, <2>1, <2>4, <3>1, <3>2
  <2>6. ASSUME Connected(f) PROVE Behind(f)'
    <3>1. CASE Unbegun(f)
      <4>1. /\ Known(a, hdr) /\ Nth(a, hdr.id) = BegunOn(f) + 1
            /\ Remaining(a, pending_sends, f, BegunOn(f) + 1)
        BY <1>0, <2>6, <3>1 DEF InPlace, Behind, OfNext
      <4>2. Proper(hdr)
        BY <1>0, <3>1, ProperAre DEF Unbegun, TypeOK, Ids
      <4>3. BegunOn(f) + 1 \in Nat /\ BegunOn(f) + 1 <= Len(a)
        <5>1. BegunOn(f) + 1 \in 1..Len(a)
          BY <1>4, <2>3, <4>1, <4>2, KnownAt
        <5>2. BegunOn(f) \in Nat
          BY <1>0, <1>4, <2>3, BegunIn DEF BegunOn
        <5> QED
          BY <5>1, <5>2, LenProperties
      <4>4. OfNext(Append(a, Units(m)), BegunOn(f), hdr)
        BY <1>1, <1>4, <2>2, <2>3, <4>1, <4>2, AppendKnown DEF OfNext
      <4>5. Remaining(Append(a, Units(m)), Append(pending_sends, m), f, BegunOn(f) + 1)
        BY <1>1, <1>4, <1>6, <2>2, <2>3, <4>1, <4>3, QueueOwn
      <4> QED
        BY <1>2, <1>3, <2>1, <2>5, <3>1, <4>4, <4>5 DEF Behind
    <3>2. CASE ~Unbegun(f)
      <4>1. Remaining(a, pending_sends, f, BegunOn(f))
        BY <1>0, <2>6, <3>2 DEF InPlace, Behind
      <4>2. BegunOn(f) \in Nat /\ BegunOn(f) <= Len(a)
        BY <1>0, <1>4, <2>3, BegunIn DEF BegunOn
      <4>3. Remaining(Append(a, Units(m)), Append(pending_sends, m), f, BegunOn(f))
        BY <1>1, <1>4, <1>6, <2>2, <2>3, <4>1, <4>2, QueueOwn
      <4> QED
        BY <1>2, <1>3, <2>1, <2>5, <3>2, <4>3 DEF Behind
    <3> QED
      BY <3>1, <3>2
  <2> QED
    BY <1>2, <2>5, <2>6 DEF InPlace
<1> QED
  BY <1>5, <1>6

\* What xsend_thread does besides sending some units.
LEMMA ThreadInPlace ==
    ASSUME SendInv, ChannelInv, NEW f \in Intact, f \notin cut',
           Relock \/ Pop \/ Sleep \/ SendError \/ Sent \/ SpuriousWakeup
    PROVE  InPlace(f)'
<1> USE DEF senderVars, queueVars, connVars
<1> DEFINE a == accepted[f]
<1>0. TypeOK /\ Ids /\ InPlace(f) /\ f \in Fds /\ Framed(part[f], sock[f])
  BY DEF SendInv, Framing, ChannelInv, Delivery, Intact
<1>1. /\ UNCHANGED <<accepted, received, part, sock>> /\ (Connected(f)' <=> Connected(f))
      /\ BegunOn(f)' = BegunOn(f)
  <2>1. UNCHANGED <<accepted, received, part, sock, open, peer>>
    BY DEF Relock, Pop, Sleep, SendError, Sent, SpuriousWakeup
  <2>2. Connected(f)' <=> Connected(f)
    BY <2>1 DEF Connected
  <2>3. BegunOn(f)' = BegunOn(f)
    BY <2>1 DEF BegunOn
  <2> QED
    BY <2>1, <2>2, <2>3
<1>2. xthread = "sending" => hdr.size \in Nat /\ hdr.size # 0
  <2>1. hdr \in Message
    BY <1>0 DEF TypeOK
  <2> QED
    BY <2>1, BoundsAssumption DEF Message
<1>3. CASE Relock \/ Sleep \/ SpuriousWakeup
  <2>1. ~Unbegun(f) /\ ~Unbegun(f)' /\ UNCHANGED pending_sends
    BY <1>3 DEF Relock, Sleep, SpuriousWakeup, Unbegun
  <2> QED
    BY <1>0, <1>1, <2>1, InPlaceKept
<1>4. CASE Sent
  <2>1. ~Unbegun(f) /\ ~Unbegun(f)' /\ UNCHANGED pending_sends
    BY <1>2, <1>4 DEF Sent, Unbegun
  <2> QED
    BY <1>0, <1>1, <2>1, InPlaceKept
<1>5. CASE SendError
  <2>1. UNCHANGED <<pending_sends, hdr, xthread>> /\ xthread = "sending" /\ len' = 0
    BY <1>5 DEF SendError
  <2>2. CASE hdr.fd # f
    <3>1. ~Unbegun(f) /\ ~Unbegun(f)'
      BY <2>1, <2>2 DEF Unbegun
    <3> QED
      BY <1>0, <1>1, <2>1, <3>1, InPlaceKept
  <2>3. CASE hdr.fd = f
    <3>1. ~Connected(f)
      BY <1>5, <2>3 DEF SendError
    <3> QED
      BY <1>0, <1>1, <3>1 DEF InPlace
  <2> QED
    BY <2>2, <2>3
<1>6. CASE Pop
  <2> DEFINE q == pending_sends
  <2>1. /\ xthread = "locked" /\ q # <<>> /\ hdr' = Head(q) /\ len' = hdr'.size
        /\ pending_sends' = Tail(q) /\ xthread' = "sending"
    BY <1>6 DEF Pop
  <2>2. /\ q \in Seq(Message) /\ \A i \in 1..Len(q) : q[i].id # 0
        /\ a \in Seq(Seq(Unit)) /\ Distinct(a)
    BY <1>0 DEF TypeOK, Ids, InPlace
  <2>3. BegunOn(f) \in Nat
    <3>1. Len(received[f]) \in Nat /\ part[f] \in Seq(Unit) /\ sock[f] \in Seq(Unit)
      BY <1>0, LenProperties DEF TypeOK
    <3> QED
      BY <1>0, <2>2, <3>1, BegunIn DEF BegunOn, InPlace
  <2>4. ASSUME Connected(f) PROVE Behind(f)'
    <3>1. Remaining(a, q, f, BegunOn(f))
      BY <1>0, <2>1, <2>4 DEF InPlace, Behind, Unbegun
    <3>2. /\ Head(q).fd = f => Known(a, Head(q)) /\ Nth(a, Head(q).id) = BegunOn(f) + 1
                               /\ Remaining(a, Tail(q), f, BegunOn(f) + 1)
          /\ Head(q).fd # f => Remaining(a, Tail(q), f, BegunOn(f))
      BY <2>1, <2>2, <2>3, <3>1, QueueTake
    <3>3. Unbegun(f)' <=> Head(q).fd = f
      BY <2>1 DEF Unbegun
    <3> QED
      BY <1>1, <2>1, <3>2, <3>3 DEF Behind, OfNext
  <2> QED
    BY <1>0, <1>1, <2>4 DEF InPlace
<1> QED
  BY <1>3, <1>4, <1>5, <1>6

\* c is a piece of the message m.
Piece(c, m) ==
    /\ c # <<>>
    /\ \A i \in 1..Len(c) : c[i].id = m.id /\ c[i].size = m.size
    /\ \A i \in 1..Len(c) : i + 1 \in 1..Len(c) => c[i].k < c[i].size

\* The message m is the one whose units go behind p and s.
Joins(a, r, p, s, m) ==
    /\ Known(a, m)
    /\ Nth(a, m.id) = IF (p # <<>> \/ s # <<>>) /\ LastUnit(p, s).k < LastUnit(p, s).size
                      THEN Begun(a, r, p, s) ELSE Begun(a, r, p, s) + 1

\* Units of one message that go behind s.
LEMMA SendContinues ==
    ASSUME NEW a \in Seq(Seq(Unit)), Distinct(a), NEW r \in Nat,
           NEW p \in Seq(Unit), NEW s \in Seq(Unit), Framed(p, s), Continues(a, r, p, s),
           NEW m, Joins(a, r, p, s, m), NEW c \in Seq(Unit), Piece(c, m)
    PROVE  Continues(a, r, p, s \o c) /\ Begun(a, r, p, s \o c) = Nth(a, m.id)
<1> DEFINE t == s \o c
<1>0. /\ Known(a, m) /\ c # <<>>
      /\ \A i \in 1..Len(c) : c[i].id = m.id /\ c[i].size = m.size
      /\ \A i \in 1..Len(c) : i + 1 \in 1..Len(c) => c[i].k < c[i].size
      /\ Nth(a, m.id) = IF (p # <<>> \/ s # <<>>) /\ LastUnit(p, s).k < LastUnit(p, s).size
                        THEN Begun(a, r, p, s) ELSE Begun(a, r, p, s) + 1
  BY DEF Joins, Piece
<1>1. /\ t \in Seq(Unit) /\ Len(t) = Len(s) + Len(c) /\ Len(s) \in Nat /\ Len(c) \in Nat /\ Len(c) # 0
      /\ \A i \in 1..(Len(s) + Len(c)) : t[i] = IF i <= Len(s) THEN s[i] ELSE c[i - Len(s)]
  BY <1>0, ConcatProperties, LenProperties, EmptySeq
<1>2. (s = <<>> <=> Len(s) = 0) /\ (p = <<>> <=> Len(p) = 0) /\ Len(p) \in Nat
  BY EmptySeq, LenProperties
<1> HIDE DEF t
<1>3. /\ \A i \in 1..Len(s) : i \in 1..Len(t) /\ t[i] = s[i]
      /\ \A i \in 1..Len(t) : i \notin 1..Len(s) => i - Len(s) \in 1..Len(c) /\ t[i] = c[i - Len(s)]
  BY <1>1
<1>4. \A i \in 1..Len(t) : Known(a, t[i]) /\ (i \notin 1..Len(s) => t[i].id = m.id)
  <2> TAKE i \in 1..Len(t)
  <2>1. CASE i \in 1..Len(s)
    <3>1. Known(a, s[i])
      BY <2>1 DEF Continues
    <3> QED
      BY <1>3, <2>1, <3>1
  <2>2. CASE i \notin 1..Len(s)
    <3>0. PICK j \in 1..Len(c) : t[i] = c[j]
      BY <1>3, <2>2
    <3>1. t[i].id = m.id /\ t[i].size = m.size
      BY <1>0, <3>0
    <3>2. Units(t[i]) = Units(m)
      BY <3>1 DEF Units
    <3> QED
      BY <1>0, <2>2, <3>1, <3>2 DEF Known
  <2> QED
    BY <2>1, <2>2
<1>5. t # <<>> /\ Len(t) \in 1..Len(t) /\ Len(t) \notin 1..Len(s) /\ 1 \in 1..Len(t)
  BY <1>1, EmptySeq
<1>6. LastUnit(p, t).id = m.id
  BY <1>4, <1>5 DEF LastUnit
<1>7. Begun(a, r, p, t) = Nth(a, m.id)
  BY <1>5, <1>6 DEF Begun
<1>8. OfNext(a, r, t[1])
  <2>1. CASE s # <<>>
    <3>1. 1 \in 1..Len(s)
      BY <1>1, <1>2, <2>1
    <3> QED
      BY <1>3, <2>1, <3>1 DEF Continues
  <2>2. CASE s = <<>>
    <3>1. Known(a, t[1]) /\ t[1].id = m.id
      <4>1. 1 \notin 1..Len(s)
        BY <1>1, <1>2, <2>2
      <4> QED
        BY <1>4, <1>5, <4>1
    <3>2. CASE p = <<>>
      <4>1. Nth(a, m.id) = r + 1
        BY <1>0, <2>2, <3>2 DEF Begun
      <4> QED
        BY <3>1, <4>1 DEF OfNext
    <3>3. CASE p # <<>>
      <4>1. /\ p[Len(p)] = [id |-> p[1].id, k |-> Len(p), size |-> p[1].size]
            /\ Len(p) < p[1].size
        BY <1>2, <3>3 DEF Framed
      <4>2. LastUnit(p, s) = p[Len(p)]
        BY <2>2 DEF LastUnit
      <4>3. Begun(a, r, p, s) = Nth(a, p[1].id)
        BY <2>2, <3>3, <4>1, <4>2 DEF Begun
      <4>4. LastUnit(p, s).k < LastUnit(p, s).size
        BY <4>1, <4>2
      <4>5. Nth(a, m.id) = Nth(a, p[1].id)
        BY <1>0, <3>3, <4>3, <4>4
      <4> QED
        BY <3>1, <3>3, <4>5 DEF OfNext, Continues
    <3> QED
      BY <3>2, <3>3
  <2> QED
    BY <2>1, <2>2
<1>9. ASSUME NEW i \in 1..Len(t), i + 1 \in 1..Len(t)
      PROVE  Nth(a, t[i + 1].id) = IF t[i].k < t[i].size THEN Nth(a, t[i].id) ELSE Nth(a, t[i].id) + 1
  <2>1. CASE i + 1 \in 1..Len(s)
    <3>1. i \in 1..Len(s)
      BY <1>1, <2>1
    <3> QED
      BY <1>3, <2>1, <3>1 DEF Continues
  <2>2. CASE i = Len(s)
    <3>1. i \in 1..Len(s) /\ i + 1 \notin 1..Len(s) /\ s # <<>>
      BY <1>1, <1>2, <2>2
    <3>2. t[i] = LastUnit(p, s) /\ t[i + 1].id = m.id
      BY <1>3, <1>4, <1>9, <2>2, <3>1 DEF LastUnit
    <3>3. Begun(a, r, p, s) = Nth(a, t[i].id)
      BY <3>1, <3>2 DEF Begun
    <3> QED
      BY <1>0, <3>1, <3>2, <3>3
  <2>3. CASE i \notin 1..Len(s)
    <3>1. i + 1 \notin 1..Len(s) /\ (i + 1) - Len(s) = (i - Len(s)) + 1
      BY <1>1, <2>3
    <3>2. t[i] = c[i - Len(s)] /\ i - Len(s) \in 1..Len(c) /\ (i - Len(s)) + 1 \in 1..Len(c)
      BY <1>3, <1>9, <2>3, <3>1
    <3>3. t[i].k < t[i].size
      BY <1>0, <3>2
    <3>4. t[i].id = m.id /\ t[i + 1].id = m.id
      BY <1>4, <1>9, <2>3, <3>1
    <3> QED
      BY <3>3, <3>4
  <2> QED
    BY <1>1, <2>1, <2>2, <2>3
<1>10. r <= Len(a) /\ (p # <<>> => OfNext(a, r, p[1]))
  BY DEF Continues
<1>11. Continues(a, r, p, t)
  BY <1>4, <1>8, <1>9, <1>10 DEF Continues
<1> QED
  BY <1>7, <1>11 DEF t

\* send takes some units of hdr.
LEMMA SendSomeInPlace ==
    ASSUME SendInv, ChannelInv, SendSome, NEW f \in Intact
    PROVE  InPlace(f)'
<1> USE DEF senderVars, queueVars
<1> DEFINE a == accepted[f]
<1> DEFINE r == Len(received[f])
<1>0. TypeOK /\ Ids /\ InPlace(f) /\ f \in Fds /\ Framed(part[f], sock[f])
      /\ (Connected(f) => EndsRight(f))
  BY DEF SendInv, Framing, ChannelInv, Delivery, Intact
<1>1. PICK bs \in 1..len :
        /\ Len(sock[hdr.fd]) + bs <= Cap
        /\ sock' = [sock EXCEPT ![hdr.fd] =
              @ \o SubSeq(Units(hdr), hdr.size - len + 1, hdr.size - len + bs)]
        /\ len' = len - bs
  BY DEF SendSome
<1> DEFINE c == SubSeq(Units(hdr), hdr.size - len + 1, hdr.size - len + bs)
<1>2. /\ hdr \in Message /\ hdr.id # 0 /\ len \in 1..hdr.size /\ hdr.fd \in Fds
      /\ hdr.size \in Nat /\ len \in Nat /\ bs \in Nat /\ bs # 0 /\ bs <= len /\ len # 0
      /\ xthread = "sending" /\ Connected(hdr.fd)
  <2>1. xthread = "sending" /\ len > 0 /\ Connected(hdr.fd)
    BY DEF SendSome
  <2>2. hdr \in Message /\ len \in Nat /\ hdr.id # 0 /\ len <= hdr.size
    BY <1>0, <2>1, BoundsAssumption DEF TypeOK, Ids
  <2>3. hdr.fd \in Fds /\ hdr.size \in Nat
    BY <2>2, BoundsAssumption DEF Message
  <2> QED
    BY <2>1, <2>2, <2>3
<1>3. /\ c \in Seq(Unit) /\ Len(c) = bs
      /\ \A i \in 1..bs : c[i] = [id |-> hdr.id, k |-> hdr.size - len + i, size |-> hdr.size]
  BY <1>2, Chunk
<1>4. /\ UNCHANGED <<hdr, open, peer, part, xthread, received, accepted, pending_sends>>
      /\ sock' = [sock EXCEPT ![hdr.fd] = sock[hdr.fd] \o c] /\ len' = len - bs
      /\ (Connected(f)' <=> Connected(f))
  BY <1>1 DEF SendSome, Connected
<1> HIDE DEF c
<1>5. CASE f # hdr.fd
  <2>1. sock'[f] = sock[f] /\ ~Unbegun(f) /\ ~Unbegun(f)'
    BY <1>0, <1>4, <1>5 DEF TypeOK, Unbegun
  <2> QED
    BY <1>0, <1>4, <2>1, InPlaceKept
<1>6. CASE f = hdr.fd
  <2> DEFINE p == part[f]
  <2> DEFINE s == sock[f]
  <2>1. /\ s \in Seq(Unit) /\ p \in Seq(Unit) /\ a \in Seq(Seq(Unit)) /\ r \in Nat
        /\ Distinct(a) /\ Continues(a, r, p, s) /\ EndsRight(f) /\ Behind(f)
    BY <1>0, <1>2, <1>6, LenProperties DEF TypeOK, InPlace
  <2>2. /\ BegunOn(f) \in Nat
        /\ p # <<>> \/ s # <<>> => LastUnit(p, s) \in Unit /\ Known(a, LastUnit(p, s))
    BY <1>0, <2>1, BegunIn DEF BegunOn
  <2>3. sock'[f] = s \o c
    BY <1>0, <1>4, <1>6 DEF TypeOK
  <2>4. /\ Known(a, hdr) /\ Remaining(a, pending_sends, f, Nth(a, hdr.id))
        /\ Nth(a, hdr.id) = IF (p # <<>> \/ s # <<>>) /\ LastUnit(p, s).k < LastUnit(p, s).size
                            THEN BegunOn(f) ELSE BegunOn(f) + 1
    <3>1. CASE len = hdr.size
      <4>1. Unbegun(f) /\ ~Amid(f)
        BY <1>2, <1>6, <3>1 DEF Unbegun, Amid
      <4>2. Known(a, hdr) /\ Nth(a, hdr.id) = BegunOn(f) + 1
            /\ Remaining(a, pending_sends, f, BegunOn(f) + 1)
        BY <2>1, <4>1 DEF Behind, OfNext
      <4>3. p # <<>> \/ s # <<>> => ~(LastUnit(p, s).k < LastUnit(p, s).size)
        <5>1. p # <<>> \/ s # <<>> =>
                 /\ LastUnit(p, s).k = LastUnit(p, s).size
                 /\ LastUnit(p, s).size \in 1..MaxLen
          BY <2>1, <2>2, <4>1 DEF EndsRight, Unit
        <5> QED
          BY <5>1, BoundsAssumption
      <4> QED
        BY <4>2, <4>3
    <3>2. CASE len # hdr.size
      <4>1. ~Unbegun(f) /\ Amid(f)
        BY <1>2, <1>6, <3>2 DEF Unbegun, Amid
      <4>2. /\ p # <<>> \/ s # <<>>
            /\ LastUnit(p, s) = [id |-> hdr.id, k |-> hdr.size - len, size |-> hdr.size]
        BY <2>1, <4>1 DEF EndsRight
      <4>3. Units(LastUnit(p, s)) = Units(hdr)
        BY <4>2 DEF Units
      <4>4. Known(a, hdr)
        BY <2>2, <4>2, <4>3 DEF Known
      <4>5. BegunOn(f) = Nth(a, hdr.id)
        <5>1. LastUnit(p, s).id = hdr.id
          BY <4>2
        <5>2. BegunOn(f) = Nth(a, LastUnit(p, s).id)
          BY <4>2 DEF BegunOn, Begun
        <5> QED
          BY <5>1, <5>2
      <4>6. LastUnit(p, s).k < LastUnit(p, s).size
        BY <1>2, <4>2
      <4>7. Remaining(a, pending_sends, f, BegunOn(f))
        BY <2>1, <4>1 DEF Behind
      <4> QED
        BY <4>2, <4>4, <4>5, <4>6, <4>7
    <3> QED
      BY <3>1, <3>2
  <2>5. Piece(c, hdr)
    <3>1. c # <<>> /\ (\A i \in 1..Len(c) : c[i].id = hdr.id /\ c[i].size = hdr.size)
      BY <1>2, <1>3, EmptySeq
    <3>2. ASSUME NEW i \in 1..Len(c), i + 1 \in 1..Len(c) PROVE c[i].k < c[i].size
      <4>1. c[i] = [id |-> hdr.id, k |-> hdr.size - len + i, size |-> hdr.size]
        BY <1>3
      <4>2. hdr.size - len + i < hdr.size
        BY <1>2, <1>3, <3>2
      <4> QED
        BY <4>1, <4>2
    <3> QED
      BY <3>1, <3>2 DEF Piece
  <2>6. Joins(a, r, p, s, hdr)
    BY <2>4 DEF Joins, BegunOn
  <2>7. Continues(a, r, p, s \o c) /\ Begun(a, r, p, s \o c) = Nth(a, hdr.id)
    <3>1. Framed(p, s)
      BY <1>0
    <3> HIDE DEF a, r, p, s
    <3> QED
      BY <1>3, <2>1, <2>5, <2>6, <3>1, SendContinues
  <2>8. ~Unbegun(f)' /\ BegunOn(f)' = Nth(a, hdr.id)
    <3>1. len' # hdr'.size
      BY <1>2, <1>4
    <3>2. BegunOn(f)' = Begun(a, r, p, s \o c)
      BY <1>4, <2>3 DEF BegunOn
    <3> QED
      BY <2>7, <3>1, <3>2 DEF Unbegun
  <2>9. Behind(f)'
    BY <1>4, <2>4, <2>8 DEF Behind
  <2> QED
    BY <1>4, <2>1, <2>3, <2>7, <2>9 DEF InPlace
<1> QED
  BY <1>5, <1>6

\* The reader takes the next unit: the message it belongs to is the next one.
LEMMA RecvContinues ==
    ASSUME NEW a \in Seq(Seq(Unit)), Distinct(a), NEW r \in Nat,
           NEW p \in Seq(Unit), NEW s \in Seq(Unit), s # <<>>, Framed(p, s), Continues(a, r, p, s)
    PROVE  LET q == Append(p, Head(s)) IN
           /\ OfNext(a, r, q[1]) /\ q[1] \in Unit
           /\ Len(q) = q[1].size =>
                 /\ Continues(a, r + 1, <<>>, Tail(s))
                 /\ Begun(a, r + 1, <<>>, Tail(s)) = Begun(a, r, p, s)
           /\ Len(q) # q[1].size =>
                 /\ Continues(a, r, q, Tail(s))
                 /\ Begun(a, r, q, Tail(s)) = Begun(a, r, p, s)
<1> DEFINE q == Append(p, Head(s))
<1>1. /\ Len(s) \in Nat /\ Len(s) # 0 /\ Head(s) = s[1] /\ Head(s) \in Unit
      /\ Tail(s) \in Seq(Unit) /\ Len(Tail(s)) = Len(s) - 1
      /\ \A i \in 1..Len(Tail(s)) : Tail(s)[i] = s[i + 1]
  BY EmptySeq, HeadTailProperties
<1>2. /\ q \in Seq(Unit) /\ q # <<>> /\ Len(q) = Len(p) + 1 /\ Len(p) \in Nat
      /\ \A i \in 1..Len(p) : q[i] = p[i]
      /\ q[Len(p) + 1] = s[1]
  BY <1>1, AppendProperties, LenProperties
<1>3. /\ q[Len(q)] = s[1] /\ q[Len(q)].size = q[1].size /\ q[Len(q)].k = Len(q)
      /\ Len(q) # q[1].size => Framed(q, Tail(s))
      /\ Tail(s) # <<>> => /\ LastUnit(<<>>, Tail(s)) = LastUnit(p, s)
                           /\ LastUnit(q, Tail(s)) = LastUnit(p, s)
      /\ Tail(s) = <<>> => LastUnit(q, Tail(s)) = LastUnit(p, s) /\ LastUnit(p, s) = s[1]
  BY FramedTake
<1>4. (p = <<>> <=> Len(p) = 0) /\ (Tail(s) = <<>> <=> Len(Tail(s)) = 0)
  BY <1>1, EmptySeq
<1> HIDE DEF q
<1>5. /\ \A i \in 1..Len(Tail(s)) : i + 1 \in 1..Len(s) /\ Known(a, Tail(s)[i])
      /\ \A i \in 1..Len(Tail(s)) : i + 1 \in 1..Len(Tail(s)) =>
            Nth(a, Tail(s)[i + 1].id) = IF Tail(s)[i].k < Tail(s)[i].size
                                        THEN Nth(a, Tail(s)[i].id) ELSE Nth(a, Tail(s)[i].id) + 1
  <2>1. \A i \in 1..Len(Tail(s)) : i + 1 \in 1..Len(s)
    BY <1>1
  <2>2. \A i \in 1..Len(Tail(s)) : Known(a, Tail(s)[i])
    BY <1>1, <2>1 DEF Continues
  <2>3. ASSUME NEW i \in 1..Len(Tail(s)), i + 1 \in 1..Len(Tail(s))
        PROVE  Nth(a, Tail(s)[i + 1].id) = IF Tail(s)[i].k < Tail(s)[i].size
                                           THEN Nth(a, Tail(s)[i].id) ELSE Nth(a, Tail(s)[i].id) + 1
    <3>1. /\ i + 1 \in 1..Len(s) /\ (i + 1) + 1 \in 1..Len(s)
          /\ Tail(s)[i] = s[i + 1] /\ Tail(s)[i + 1] = s[(i + 1) + 1]
      BY <1>1, <2>1, <2>3
    <3> QED
      BY <3>1 DEF Continues
  <2> QED
    BY <2>1, <2>2, <2>3
<1>6. OfNext(a, r, s[1]) /\ s[1] \in Unit
  BY <1>1 DEF Continues
<1>7. Nth(a, s[1].id) = r + 1 /\ r + 1 \in 1..Len(a) /\ Len(a) \in Nat
  BY <1>6, KnownAt, ProperAre, LenProperties DEF OfNext
<1>8. Tail(s) # <<>> =>
        /\ Tail(s)[1] = s[2] /\ Known(a, s[2])
        /\ Nth(a, s[2].id) = IF s[1].k < s[1].size THEN r + 1 ELSE (r + 1) + 1
  <2> SUFFICES ASSUME Tail(s) # <<>>
               PROVE  /\ Tail(s)[1] = s[2] /\ Known(a, s[2])
                      /\ Nth(a, s[2].id) = IF s[1].k < s[1].size THEN r + 1 ELSE (r + 1) + 1
    OBVIOUS
  <2>1. 1 \in 1..Len(Tail(s)) /\ 1 \in 1..Len(s) /\ 1 + 1 \in 1..Len(s) /\ 1 + 1 = 2
    BY <1>1, <1>4
  <2>2. Tail(s)[1] = s[2]
    BY <1>1, <2>1
  <2> QED
    BY <1>7, <2>1, <2>2 DEF Continues
<1>9. OfNext(a, r, q[1]) /\ q[1] \in Unit
  <2>1. CASE p = <<>>
    BY <1>2, <1>4, <1>6, <2>1
  <2>2. CASE p # <<>>
    <3>1. 1 \in 1..Len(p)
      BY <1>2, <1>4, <2>2
    <3>2. q[1] = p[1] /\ p[1] \in Unit
      BY <1>2, <3>1, ElementOfSeq
    <3> QED
      BY <2>2, <3>2 DEF Continues
  <2> QED
    BY <2>1, <2>2
<1>10. s[1].k \in Nat /\ s[1].size \in Nat
  BY <1>6, BoundsAssumption DEF Unit
<1>11. ASSUME Len(q) = q[1].size
       PROVE  /\ Continues(a, r + 1, <<>>, Tail(s))
              /\ Begun(a, r + 1, <<>>, Tail(s)) = Begun(a, r, p, s)
  <2>1. ~(s[1].k < s[1].size)
    BY <1>3, <1>10, <1>11
  <2>2. Tail(s) # <<>> => OfNext(a, r + 1, Tail(s)[1])
    BY <1>8, <2>1 DEF OfNext
  <2>3. Continues(a, r + 1, <<>>, Tail(s))
    <3>1. r + 1 <= Len(a)
      BY <1>7
    <3> QED
      BY <1>5, <2>2, <3>1, ContinuesIf
  <2>4. Begun(a, r + 1, <<>>, Tail(s)) = Begun(a, r, p, s)
    BY <1>3, <1>7 DEF Begun
  <2> QED
    BY <2>3, <2>4
<1>12. ASSUME Len(q) # q[1].size
       PROVE  /\ Continues(a, r, q, Tail(s))
              /\ Begun(a, r, q, Tail(s)) = Begun(a, r, p, s)
  <2>1. s[1].k < s[1].size
    <3>1. Len(q) < q[1].size
      BY <1>2, <1>3, <1>12 DEF Framed
    <3> QED
      BY <1>3, <3>1
  <2>2. Tail(s) # <<>> => OfNext(a, r, Tail(s)[1])
    BY <1>8, <2>1 DEF OfNext
  <2>3. Continues(a, r, q, Tail(s))
    <3>1. r <= Len(a)
      BY DEF Continues
    <3> QED
      BY <1>5, <1>9, <2>2, <3>1, ContinuesIf
  <2>4. Begun(a, r, q, Tail(s)) = Begun(a, r, p, s)
    BY <1>2, <1>3 DEF Begun
  <2> QED
    BY <2>3, <2>4
<1> QED
  BY <1>9, <1>11, <1>12 DEF q

\* The reader of g takes a unit.
LEMMA RecvInPlace ==
    ASSUME SendInv, ChannelInv, NEW g \in Fds, RecvUnit(g), NEW f \in Intact
    PROVE  InPlace(f)'
<1> USE DEF senderVars, queueVars, threadVars
<1> DEFINE a == accepted[f]
<1> DEFINE r == Len(received[f])
<1> DEFINE p == part[f]
<1> DEFINE s == sock[f]
<1>0. TypeOK /\ InPlace(f) /\ f \in Fds /\ Framed(p, s)
  BY DEF SendInv, Framing, ChannelInv, Delivery, Intact
<1>1. /\ UNCHANGED <<accepted, pending_sends, xthread, hdr, len>>
      /\ (Connected(f)' <=> Connected(f)) /\ (Unbegun(f)' <=> Unbegun(f))
  BY DEF RecvUnit, Connected, Unbegun
<1>2. CASE f # g
  <2>1. sock'[f] = s /\ part'[f] = p /\ received'[f] = received[f]
    BY <1>0, <1>2 DEF RecvUnit, TypeOK
  <2> QED
    BY <1>0, <1>1, <2>1, InPlaceKept
<1>3. CASE f = g
  <2> DEFINE q == Append(p, Head(s))
  <2>1. /\ s \in Seq(Unit) /\ p \in Seq(Unit) /\ a \in Seq(Seq(Unit)) /\ s # <<>>
        /\ received[f] \in Seq(Seq(Unit)) /\ r \in Nat /\ Distinct(a) /\ Continues(a, r, p, s)
    BY <1>0, <1>3, LenProperties DEF RecvUnit, TypeOK, InPlace
  <2>2. /\ Len(q) = q[1].size =>
              /\ Continues(a, r + 1, <<>>, Tail(s))
              /\ Begun(a, r + 1, <<>>, Tail(s)) = Begun(a, r, p, s)
        /\ Len(q) # q[1].size =>
              /\ Continues(a, r, q, Tail(s))
              /\ Begun(a, r, q, Tail(s)) = Begun(a, r, p, s)
    BY <1>0, <2>1, RecvContinues
  <2>3. /\ sock'[f] = Tail(s)
        /\ IF Len(q) = q[1].size THEN part'[f] = <<>> /\ received'[f] = Append(received[f], q)
                                 ELSE part'[f] = q /\ received'[f] = received[f]
    BY <1>0, <1>3 DEF RecvUnit, Taken, TypeOK
  <2>4. Len(q) = q[1].size => Len(received'[f]) = r + 1
    <3>1. q \in Seq(Unit)
      BY <2>1, FramedTake, <1>0
    <3> QED
      BY <2>1, <2>3, <3>1, AppendProperties
  <2> HIDE DEF q
  <2>5. Continues(a, Len(received'[f]), part'[f], sock'[f]) /\ BegunOn(f)' = BegunOn(f)
    BY <1>1, <2>2, <2>3, <2>4 DEF BegunOn
  <2>6. Connected(f) => Behind(f)'
    BY <1>0, <1>1, <2>5 DEF InPlace, Behind
  <2> QED
    BY <1>1, <2>1, <2>5, <2>6 DEF InPlace
<1> QED
  BY <1>2, <1>3

\* Every step keeps the messages of the connections that lose nothing by it in
\* place.
LEMMA NextInPlace == SendInv /\ ChannelInv /\ Next => Delivery'
<1> SUFFICES ASSUME SendInv, ChannelInv, Next, NEW f \in Intact' PROVE InPlace(f)'
  BY DEF Delivery
<1>i. f \in Intact /\ f \notin cut'
  BY IntactBefore DEF Intact
<1>0. InPlace(f) /\ peer[f] # "badmagic" /\ f \in Fds /\ TypeOK
  BY <1>i DEF ChannelInv, Delivery, SendInv, Framing, Intact
<1>1. CASE Thread \/ SpuriousWakeup
  BY <1>i, <1>1, SendSomeInPlace, ThreadInPlace DEF Thread
<1>2. ASSUME NEW s \in Senders, Call(s) \/ Startup(s) PROVE InPlace(f)'
  <2>1. /\ UNCHANGED <<accepted, received, part, sock, pending_sends, hdr>>
        /\ (Connected(f)' <=> Connected(f)) /\ (Unbegun(f)' <=> Unbegun(f))
    BY <1>2 DEF Call, Startup, senderVars, queueVars, threadVars, connVars, Connected, Unbegun
  <2> QED
    BY <1>0, <2>1, InPlaceKept
<1>3. ASSUME NEW g \in Fds,
             RecvTimeout(g) \/ RecvShort(g) \/ Stall(g) \/ Resume(g) \/ CloseFd(g)
      PROVE  InPlace(f)'
  <2>1. /\ UNCHANGED <<accepted, received, part, sock, pending_sends, hdr>>
        /\ (Unbegun(f)' <=> Unbegun(f))
    BY <1>3 DEF RecvTimeout, RecvShort, Stall, Resume, CloseFd, senderVars, queueVars,
       threadVars, Unbegun
  <2>2. Connected(f)' => Connected(f)
    BY <1>0, <1>3 DEF RecvTimeout, RecvShort, TimedOut, Stall, Resume, CloseFd, Connected, TypeOK
  <2> QED
    BY <1>0, <2>1, <2>2, InPlaceKept
<1>4. ASSUME NEW g \in Fds, RecvBadMagic(g) \/ DropHeader(g) \/ PeerExit(g)
      PROVE  InPlace(f)'
  <2>1. /\ UNCHANGED <<accepted, received, pending_sends, hdr>>
        /\ (Unbegun(f)' <=> Unbegun(f))
    BY <1>4 DEF RecvBadMagic, DropHeader, PeerExit, senderVars, queueVars, threadVars, Unbegun
  <2>2. CASE g # f
    <3>1. UNCHANGED <<part[f], sock[f]>> /\ (Connected(f)' <=> Connected(f))
      BY <1>0, <1>4, <2>2 DEF RecvBadMagic, DropHeader, PeerExit, Connected, TypeOK
    <3> QED
      BY <1>0, <2>1, <3>1, InPlaceKept
  <2>3. CASE g = f /\ RecvBadMagic(g)
    <3>1. peer'[f] = "badmagic"
      BY <1>0, <2>3 DEF RecvBadMagic, TypeOK
    <3>2. Framing'
      BY NextFraming
    <3> QED
      BY <3>1, <3>2 DEF Framing
  <2>4. CASE g = f /\ DropHeader(g)
    BY <1>i, <2>4 DEF DropHeader
  <2>5. CASE g = f /\ PeerExit(g)
    <3>1. /\ sock'[f] = <<>> /\ part'[f] = <<>> /\ peer'[f] = "gone"
      BY <1>0, <2>5 DEF PeerExit, TypeOK
    <3>2. Continues(accepted[f], Len(received[f]), <<>>, <<>>)
      BY <1>0 DEF InPlace, Continues
    <3> QED
      BY <1>0, <2>1, <3>1, <3>2 DEF InPlace, Connected
  <2> QED
    BY <1>4, <2>2, <2>3, <2>4, <2>5
<1> QED
  BY <1>i, <1>1, <1>2, <1>3, <1>4, XsendInPlace, RecvInPlace DEF Next

\* Also inductive, given SendInv: every unit on its way belongs to the message
\* that comes next, and the queue holds the rest.
THEOREM ChannelInvariant == Spec => []ChannelInv
<1>1. SendInv /\ ChannelInv /\ [Next]_vars => ChannelInv'
  <2> SUFFICES ASSUME SendInv, ChannelInv, [Next]_vars PROVE ChannelInv'
    OBVIOUS
  <2>1. CASE Next
    BY <2>1, FreshKeeps, NextInPlace DEF ChannelInv
  <2>2. CASE UNCHANGED vars
    <3>1. Fresh'
      BY <2>2 DEF vars, ChannelInv, Fresh
    <3>2. ASSUME NEW f \in Intact' PROVE InPlace(f)'
      <4>1. UNCHANGED <<accepted, received, part, sock, pending_sends, hdr, xthread, len, open, peer>>
        BY <2>2 DEF vars
      <4>2. f \in Intact
        BY IntactBefore
      <4> QED
        BY <4>1, <4>2, InPlaceKept DEF ChannelInv, Delivery, Connected, Unbegun
    <3> QED
      BY <3>1, <3>2 DEF ChannelInv, Delivery
  <2> QED
    BY <2>1, <2>2
<1> QED
  BY <1>1, ChannelInvInit, SendInvariant, PTL DEF Spec

\* What the reader of an intact connection cuts out is the next message that
\* xsend took.
LEMMA ReceiveServes ==
    ASSUME SendInv, ChannelInv, NEW g \in Fds, RecvUnit(g)
    PROVE  [Channel!Next]_(Channel!vars)
<1> USE DEF senderVars, queueVars, threadVars
<1>0. TypeOK /\ UNCHANGED <<accepted, cut>>
  BY DEF SendInv, RecvUnit
<1>1. CASE UNCHANGED received
  BY <1>0, <1>1 DEF Channel!vars
<1>2. CASE g \in cut
  <2>1. received' = [received EXCEPT ![g] = received'[g]]
    BY <1>0 DEF RecvUnit, TypeOK
  <2>2. Channel!Garble(g)
    BY <1>0, <1>2, <2>1 DEF Channel!Garble
  <2> QED
    BY <2>2 DEF Channel!Next
<1>3. CASE received' # received /\ g \notin cut
  <2> DEFINE a == accepted[g]
  <2> DEFINE r == Len(received[g])
  <2> DEFINE p == part[g]
  <2> DEFINE s == sock[g]
  <2> DEFINE q == Append(p, Head(s))
  <2>1. /\ s \in Seq(Unit) /\ p \in Seq(Unit) /\ a \in Seq(Seq(Unit)) /\ s # <<>>
        /\ r \in Nat /\ Distinct(a) /\ Continues(a, r, p, s) /\ Framed(p, s)
    BY <1>0, <1>3, LenProperties
    DEF RecvUnit, TypeOK, InPlace, ChannelInv, Delivery, SendInv, Framing, Intact
  <2>2. Len(q) = q[1].size /\ received' = [received EXCEPT ![g] = Append(received[g], q)]
    BY <1>3 DEF RecvUnit, Taken
  <2>3. OfNext(a, r, q[1]) /\ q[1] \in Unit
    BY <2>1, RecvContinues
  <2>4. r + 1 \in 1..Len(a) /\ a[r + 1] = Units(q[1]) /\ Len(a) \in Nat
    BY <2>1, <2>3, KnownAt, ProperAre, LenProperties DEF OfNext
  <2>5. q = Units(q[1])
    <3>1. /\ q \in Seq(Unit) /\ Len(q) = Len(p) + 1 /\ Len(p) \in Nat /\ Head(s) = s[1]
          /\ \A i \in 1..Len(p) : q[i] = p[i]
          /\ q[Len(p) + 1] = s[1] /\ q[Len(q)].size = q[1].size /\ q[Len(q)].k = Len(q)
      BY <2>1, FramedTake, AppendProperties, LenProperties
    <3> HIDE DEF q
    <3>2. ASSUME NEW i \in 1..Len(q) PROVE q[i] = [id |-> q[1].id, k |-> i, size |-> q[1].size]
      <4>1. CASE i \in 1..Len(p)
        <5>1. 1 \in 1..Len(p) /\ q[1] = p[1] /\ q[i] = p[i]
          BY <3>1, <4>1
        <5> QED
          BY <2>1, <4>1, <5>1 DEF Framed
      <4>2. CASE i = Len(q)
        <5>1. CASE p = <<>>
          <6>1. i = 1 /\ q[1] \in Unit
            BY <2>3, <3>1, <4>2, <5>1
          <6> QED
            BY <3>1, <4>2, <6>1 DEF Unit
        <5>2. CASE p # <<>>
          <6>1. 1 \in 1..Len(p) /\ Len(p) \in 1..Len(p) /\ q[1] = p[1]
            BY <2>1, <3>1, <5>2, EmptySeq
          <6>2. /\ Len(p) < p[1].size /\ Follows(p[Len(p)], s[1])
                /\ p[Len(p)] = [id |-> p[1].id, k |-> Len(p), size |-> p[1].size]
            BY <2>1, <5>2, <6>1 DEF Framed
          <6>3. s[1] = [id |-> p[1].id, k |-> Len(p) + 1, size |-> p[1].size]
            BY <6>2 DEF Follows
          <6> QED
            BY <3>1, <4>2, <6>1, <6>3
        <5> QED
          BY <5>1, <5>2
      <4> QED
        BY <3>1, <4>1, <4>2
    <3>3. q = [i \in 1..Len(q) |-> [id |-> q[1].id, k |-> i, size |-> q[1].size]]
      <4>1. q = [i \in 1..Len(q) |-> q[i]]
        BY <3>1
      <4> QED
        BY <3>2, <4>1
    <3> QED
      BY <2>2, <3>3 DEF Units, q
  <2> HIDE DEF q
  <2>6. r < Len(a) /\ q = a[r + 1]
    BY <2>1, <2>4, <2>5
  <2>8. Channel!Receive(g)
    BY <1>0, <2>2, <2>6 DEF Channel!Receive
  <2> QED
    BY <2>8 DEF Channel!Next
<1> QED
  BY <1>1, <1>2, <1>3

\* xsend takes a message for the channel.
LEMMA XsendServes ==
    ASSUME SendInv, NEW s \in Senders, Xsend(s)
    PROVE  [Channel!Next]_(Channel!vars)
<1> DEFINE m == arg[s]
<1>1. TypeOK /\ Ids
  BY DEF SendInv
<1>2. /\ m \in Message /\ m.id # 0 /\ m.fd \in Fds /\ UNCHANGED <<received, cut>>
      /\ accepted' = [accepted EXCEPT ![m.fd] = Append(accepted[m.fd], Units(m))]
  BY <1>1 DEF Xsend, connVars, TypeOK, Ids, Message
<1>3. Units(m) \in {Units(x) : x \in [id : 1..MaxMsgs, fd : Fds, size : HdrLen..MaxLen]}
  <2>1. m \in [id : 1..MaxMsgs, fd : Fds, size : HdrLen..MaxLen]
    BY <1>2, BoundsAssumption DEF Message
  <2> QED
    BY <2>1
<1>4. Channel!Send(m.fd)
  BY <1>2, <1>3 DEF Channel!Send
<1> QED
  BY <1>2, <1>4 DEF Channel!Next

\* A timeout breaks a connection, the sender's or the reader's.
LEMMA TimeoutBreaks ==
    ASSUME SendInv, SendError \/ \E f \in Fds : DropHeader(f)
    PROVE  [Channel!Next]_(Channel!vars)
<1>1. UNCHANGED <<accepted, received>>
  BY DEF SendError, DropHeader, queueVars
<1>2. CASE UNCHANGED cut
  BY <1>1, <1>2 DEF Channel!vars
<1>3. ASSUME NEW f \in Fds, cut' = cut \cup {f}
      PROVE  [Channel!Next]_(Channel!vars)
  BY <1>1, <1>3 DEF Channel!Break, Channel!Next
<1>4. UNCHANGED cut \/ \E f \in Fds : cut' = cut \cup {f}
  <2>1. hdr.fd \in Fds
    BY DEF SendInv, TypeOK, Message
  <2> QED
    BY <2>1 DEF SendError, DropHeader
<1> QED
  BY <1>2, <1>3, <1>4

\* Every step is one of the channel.
LEMMA ChannelStep == SendInv /\ ChannelInv /\ [Next]_vars => [Channel!Next]_(Channel!vars)
<1> SUFFICES ASSUME SendInv, ChannelInv, [Next]_vars PROVE [Channel!Next]_(Channel!vars)
  OBVIOUS
<1>1. CASE UNCHANGED <<accepted, received, cut>>
  BY <1>1 DEF Channel!vars
<1>2. \/ UNCHANGED <<accepted, received, cut>>
      \/ \E s \in Senders : Xsend(s)
      \/ SendError \/ \E f \in Fds : DropHeader(f)
      \/ \E f \in Fds : RecvUnit(f)
  BY DEF Next, vars, senderVars, queueVars, threadVars, connVars, Call, Startup, Thread, Relock,
     Pop, Sleep, SendSome, Sent, SpuriousWakeup, RecvBadMagic, RecvTimeout, RecvShort, Stall,
     Resume, PeerExit, CloseFd
<1> QED
  BY <1>1, <1>2, XsendServes, ReceiveServes, TimeoutBreaks

\* On each connection, in either direction, the messages arrive whole, once and
\* in the order in which xsend took them until a timeout takes something from
\* it, for any senders, connections, lengths and buffers
\* (PROTOCOLBUFFERS.py:58-106, 489-508).
THEOREM ImplementsChannel == Spec => ChannelSpec
<1>1. Init => Channel!Init
  <2> SUFFICES ASSUME Init PROVE Channel!Init
    OBVIOUS
  <2> QED
    BY DEF Init, Channel!Init
<1> QED
  BY <1>1, ChannelStep, SendInvariant, ChannelInvariant, PTL DEF Spec, ChannelSpec, Channel!Spec

\* What the reader of an intact connection has got is the beginning of what
\* xsend took.
Prefixed ==
    \A f \in Intact :
        /\ Len(received[f]) <= Len(accepted[f])
        /\ \A n \in 1..Len(received[f]) : received[f][n] = accepted[f][n]

\* A step of the channel keeps that.
LEMMA PrefixedStep ==
    ASSUME TypeOK, TypeOK', Prefixed, Intact' \subseteq Intact, [Channel!Next]_(Channel!vars)
    PROVE  Prefixed'
<1>1. /\ \A f \in Intact : accepted[f] \in Seq(Seq(Unit)) /\ received[f] \in Seq(Seq(Unit))
      /\ \A f \in Intact : Len(accepted[f]) \in Nat /\ Len(received[f]) \in Nat
  BY LenProperties DEF TypeOK, Intact
<1>2. ASSUME \A f \in Intact' : accepted'[f] = accepted[f] /\ received'[f] = received[f]
      PROVE  Prefixed'
  BY <1>2 DEF Prefixed
<1>3. ASSUME NEW g \in Fds, Channel!Send(g) PROVE Prefixed'
  <2>1. PICK m \in {Units(x) : x \in [id : 1..MaxMsgs, fd : Fds, size : HdrLen..MaxLen]} :
          accepted' = [accepted EXCEPT ![g] = Append(accepted[g], m)]
    BY <1>3 DEF Channel!Send
  <2>3. \A f \in Intact' : received'[f] = received[f]
    BY <1>3 DEF Channel!Send
  <2>4. /\ accepted'[g] = Append(accepted[g], m)
        /\ \A f \in Intact' : f # g => accepted'[f] = accepted[f]
    BY <2>1 DEF TypeOK, Intact
  <2>5. PICK x \in [id : 1..MaxMsgs, fd : Fds, size : HdrLen..MaxLen] : m = Units(x)
    OBVIOUS
  <2>6. Proper(x)
    BY DEF Proper
  <2>7. m \in Seq(Unit)
    BY <2>5, <2>6, UnitsOf
  <2>8. /\ Len(accepted'[g]) = Len(accepted[g]) + 1
        /\ \A n \in 1..Len(accepted[g]) : accepted'[g][n] = accepted[g][n]
    BY <1>1, <2>4, <2>7, AppendProperties
  <2>9. ASSUME NEW f \in Intact'
        PROVE  /\ Len(received'[f]) <= Len(accepted'[f])
               /\ \A n \in 1..Len(received'[f]) : received'[f][n] = accepted'[f][n]
    <3>1. /\ received'[f] = received[f] /\ Len(received[f]) <= Len(accepted[f])
          /\ \A n \in 1..Len(received[f]) : received[f][n] = accepted[f][n]
          /\ Len(accepted[f]) \in Nat /\ Len(received[f]) \in Nat
      BY <1>1, <2>3 DEF Prefixed
    <3>2. CASE f = g
      <4>1. \A n \in 1..Len(received[f]) : n \in 1..Len(accepted[f])
        BY <3>1
      <4>2. Len(received[f]) <= Len(accepted[f]) + 1
        BY <3>1
      <4> QED
        BY <2>8, <3>1, <3>2, <4>1, <4>2
    <3>3. CASE f # g
      BY <2>4, <3>1, <3>3
    <3> QED
      BY <3>2, <3>3
  <2> QED
    BY <2>9 DEF Prefixed
<1>4. ASSUME NEW g \in Intact, Channel!Receive(g) PROVE Prefixed'
  <2> DEFINE r == Len(received[g])
  <2> DEFINE m == accepted[g][r + 1]
  <2>0. \A n \in 1..r : received[g][n] = accepted[g][n]
    BY DEF Prefixed
  <2>1. /\ r < Len(accepted[g])
        /\ received' = [received EXCEPT ![g] = Append(received[g], m)]
    BY <1>4 DEF Channel!Receive
  <2>2. \A f \in Intact' : accepted'[f] = accepted[f]
    BY <1>4 DEF Channel!Receive
  <2>3. /\ received'[g] = Append(received[g], m)
        /\ \A f \in Intact' : f # g => received'[f] = received[f]
    BY <2>1 DEF TypeOK, Intact
  <2>4. r + 1 \in 1..Len(accepted[g])
    BY <1>1, <2>1
  <2>5. m \in Seq(Unit)
    BY <1>1, <2>4, ElementOfSeq
  <2>6. /\ Len(received'[g]) = r + 1 /\ received'[g][r + 1] = m
        /\ \A n \in 1..r : received'[g][n] = received[g][n]
    BY <1>1, <2>3, <2>5, AppendProperties
  <2> HIDE DEF m
  <2>7. \A n \in 1..Len(received'[g]) : received'[g][n] = accepted[g][n]
    <3>1. ASSUME NEW n \in 1..r + 1 PROVE received'[g][n] = accepted[g][n]
      <4>1. CASE n = r + 1
        BY <2>6, <4>1 DEF m
      <4>2. CASE n # r + 1
        <5>1. n \in 1..r
          BY <1>1, <4>2
        <5>2. received'[g][n] = received[g][n]
          BY <2>6, <5>1
        <5>3. received[g][n] = accepted[g][n]
          BY <2>0, <5>1
        <5> QED
          BY <5>2, <5>3
      <4> QED
        BY <4>1, <4>2
    <3> QED
      BY <2>6, <3>1
  <2>8. Len(received'[g]) <= Len(accepted[g])
    BY <1>1, <2>1, <2>6
  <2>9. ASSUME NEW f \in Intact'
        PROVE  /\ Len(received'[f]) <= Len(accepted'[f])
               /\ \A n \in 1..Len(received'[f]) : received'[f][n] = accepted'[f][n]
    <3>1. accepted'[f] = accepted[f]
      BY <2>2
    <3>2. CASE f = g
      BY <2>7, <2>8, <3>1, <3>2
    <3>3. CASE f # g
      <4>1. received'[f] = received[f]
        BY <2>3, <3>3
      <4>2. /\ Len(received[f]) <= Len(accepted[f])
            /\ \A n \in 1..Len(received[f]) : received[f][n] = accepted[f][n]
        BY DEF Prefixed
      <4> QED
        BY <3>1, <4>1, <4>2
    <3> QED
      BY <3>2, <3>3
  <2> QED
    BY <2>9 DEF Prefixed
<1>5. ASSUME NEW g \in Fds, Channel!Receive(g), g \notin Intact PROVE Prefixed'
  <2>1. \A f \in Intact' : accepted'[f] = accepted[f] /\ received'[f] = received[f]
    BY <1>5 DEF Channel!Receive, TypeOK, Intact
  <2> QED
    BY <1>2, <2>1
<1>6. ASSUME NEW g \in Fds, Channel!Break(g) \/ Channel!Garble(g) PROVE Prefixed'
  <2>1. \A f \in Intact' : accepted'[f] = accepted[f] /\ received'[f] = received[f]
    <3>1. CASE Channel!Break(g)
      BY <3>1 DEF Channel!Break
    <3>2. CASE Channel!Garble(g)
      <4>1. g \in cut /\ accepted' = accepted /\ received' = [received EXCEPT ![g] = received'[g]]
        BY <3>2 DEF Channel!Garble
      <4>2. \A f \in Intact' : f # g
        BY <4>1 DEF Intact
      <4> QED
        BY <4>1, <4>2 DEF TypeOK, Intact
    <3> QED
      BY <1>6, <3>1, <3>2
  <2> QED
    BY <1>2, <2>1
<1>7. CASE UNCHANGED Channel!vars
  BY <1>2, <1>7 DEF Channel!vars
<1> QED
  BY <1>3, <1>4, <1>5, <1>6, <1>7 DEF Channel!Next

\* On a connection that is served and has lost nothing to a timeout, whatever
\* xsend took and the reader has not got yet is queued, in the hands of
\* xsend_thread, in the buffers or read in part: between the pieces and the
\* queue no message drops out (PROTOCOLBUFFERS.py:58-106, 489-508).
THEOREM NothingDropped == Spec => []NothingVanishes
<1>1. Init => Prefixed
  BY DEF Init, Prefixed, Intact
<1>2. SendInv /\ SendInv' /\ ChannelInv /\ Prefixed /\ [Next]_vars => Prefixed'
  BY ChannelStep, PrefixedStep, IntactBefore DEF SendInv
<1>3. Spec => [](SendInv /\ ChannelInv /\ Prefixed)
  BY <1>1, <1>2, SendInvariant, ChannelInvariant, PTL DEF Spec
<1>4. SendInv /\ ChannelInv /\ Prefixed => NothingVanishes
  <2> SUFFICES ASSUME SendInv, ChannelInv, Prefixed, NEW f \in Intact, Served(f),
                      \A i \in DOMAIN pending_sends : pending_sends[i].fd # f,
                      ~(xthread = "sending" /\ hdr.fd = f /\ len > 0),
                      sock[f] = <<>>, part[f] = <<>>
               PROVE  received[f] = accepted[f]
    BY DEF NothingVanishes, Intact
  <2> DEFINE a == accepted[f]
  <2> DEFINE r == Len(received[f])
  <2>1. TypeOK /\ InPlace(f) /\ Connected(f)
    BY DEF SendInv, ChannelInv, Delivery, Served, Connected
  <2>2. /\ a \in Seq(Seq(Unit)) /\ received[f] \in Seq(Seq(Unit))
        /\ Len(a) \in Nat /\ r \in Nat /\ DOMAIN pending_sends = 1..Len(pending_sends)
    BY <2>1, LenProperties DEF TypeOK, Intact
  <2>3. ~Unbegun(f) /\ BegunOn(f) = r
    <3>1. hdr.size > 0
      BY <2>1, BoundsAssumption DEF TypeOK, Message
    <3> QED
      BY <3>1 DEF Unbegun, BegunOn, Begun
  <2>4. Remaining(a, pending_sends, f, r)
    BY <2>1, <2>3 DEF InPlace, Behind
  <2>5. \A n \in 1..Len(a) : ~(n > r)
    BY <2>2, <2>4 DEF Remaining
  <2>6. r <= Len(a) /\ \A n \in 1..r : received[f][n] = a[n]
    BY DEF Prefixed
  <2>7. PICK k \in Nat : k = Len(a)
    BY <2>2
  <2>8. r = k
    <3>1. k \in 1..k => ~(k > r)
      BY <2>5, <2>7
    <3> QED
      BY <2>2, <2>6, <2>7, <3>1
  <2> QED
    BY <2>2, <2>6, <2>7, <2>8, SeqEqual
<1> QED
  BY <1>3, <1>4, PTL
=============================================================================
