--------------------------- MODULE RpcServeProofs ---------------------------
(***************************************************************************)
(* Theorems about RpcServe, for any number of requests: types, that no     *)
(* request is stranded in the array, that nothing is handled after the     *)
(* error function, and the order of requests until accesses to the array   *)
(* overlap or a timeout cuts a message.                                    *)
(*                                                                         *)
(* The inductive invariant ties the places of the two threads to context,  *)
(* source and request (Places), and numbers the requests through all the   *)
(* places where they can be: handled, in the array, held by the reader, on *)
(* the wire (Ordered).  A response on the wire, of which there is at most  *)
(* one, makes a gap in the numbering.                                      *)
(***************************************************************************)
EXTENDS RpcServe, SequenceTheorems, TLAPS

Places ==
    /\ reader \in {"lock", "read", "write"} <=> request # 0
    /\ reader = "create" <=> ctx = "none"
    /\ reader = "done" <=> ctx = "freed"
    /\ ctx # "live" => messages = <<>>
    /\ valid => reader \notin {"create", "fail", "report", "big", "free", "done"}
    /\ errorDue \/ reported => reader \in {"big", "free", "done"}
    /\ reported => main = "loop"
    /\ main = "write" => mcopy # <<>>

\* Requests received, as long as the array is intact.
Received == Len(handled) + Len(messages) + (IF request = 0 THEN 0 ELSE 1)

\* 1 if a response is among the first i on the wire w.
Gap(w, i) == IF \E j \in 1..i : w[j] = Response THEN 1 ELSE 0

\* What the wire w carries when n requests have been received.
Numbered(w, n) ==
    /\ \A i \in 1..Len(w) : w[i] = Response \/ w[i] = n + i - Gap(w, i)
    /\ \A i, j \in 1..Len(w) : w[i] = Response /\ w[j] = Response => i = j

Ordered ==
    /\ \A i \in 1..Len(handled) : handled[i] = i
    /\ ctx # "freed" =>
          /\ \A i \in 1..Len(messages) : messages[i] = Len(handled) + i
          /\ request # 0 => request = Len(handled) + Len(messages) + 1
          /\ Numbered(wire, Received)
          /\ link = "open" => sent = Received + Len(wire) - Gap(wire, Len(wire))
          /\ main = "write" => mcopy = messages /\ reader # "write"
          /\ reader = "write" => rcopy = messages

ServeInv ==
    /\ TypeOK
    /\ Places
    /\ NoStrandedRequest
    /\ ~raced /\ ~cut => Ordered

-----------------------------------------------------------------------------
(* Sequences.                                                              *)

\* Appending to a sequence, element by element.
LEMMA AppendOne ==
    ASSUME NEW S, NEW s \in Seq(S), NEW e \in S
    PROVE  /\ Append(s, e) \in Seq(S) /\ Append(s, e) # <<>>
           /\ Len(Append(s, e)) = Len(s) + 1 /\ Len(s) \in Nat
           /\ \A i \in 1..Len(s) : Append(s, e)[i] = s[i]
           /\ Append(s, e)[Len(s) + 1] = e
  BY AppendProperties, LenProperties

\* Taking the first of a sequence, element by element.
LEMMA TakeOne ==
    ASSUME NEW S, NEW s \in Seq(S), s # <<>>
    PROVE  /\ Tail(s) \in Seq(S) /\ Head(s) \in S /\ Head(s) = s[1]
           /\ Len(s) \in Nat /\ Len(s) >= 1 /\ Len(Tail(s)) = Len(s) - 1
           /\ \A i \in 1..Len(Tail(s)) : i + 1 \in 1..Len(s) /\ Tail(s)[i] = s[i + 1]
<1>1. Len(s) \in Nat /\ Len(s) # 0
  BY EmptySeq
<1>2. Head(s) = s[1]
  OBVIOUS
<1> QED
  BY <1>1, <1>2, HeadTailProperties

\* Taking a response off the wire leaves the numbers as they are.
LEMMA NumberedResponse ==
    ASSUME NEW S, NEW w \in Seq(S), w # <<>>, Head(w) = Response, NEW n \in Nat, Numbered(w, n)
    PROVE  /\ Numbered(Tail(w), n)
           /\ Len(Tail(w)) - Gap(Tail(w), Len(Tail(w))) = Len(w) - Gap(w, Len(w))
<1>1. /\ Len(w) \in Nat /\ Len(w) >= 1 /\ Len(Tail(w)) = Len(w) - 1 /\ w[1] = Response
      /\ \A i \in 1..Len(Tail(w)) : i + 1 \in 1..Len(w) /\ Tail(w)[i] = w[i + 1]
  BY TakeOne
<1>2. \A i \in 1..Len(Tail(w)) : Tail(w)[i] # Response
  BY <1>1 DEF Numbered
<1>3. \A i \in 0..Len(Tail(w)) : Gap(Tail(w), i) = 0 /\ Gap(w, i + 1) = 1
  BY <1>1, <1>2 DEF Gap
<1>4. \A i \in 1..Len(Tail(w)) : Tail(w)[i] = n + i - Gap(Tail(w), i)
  BY <1>1, <1>2, <1>3 DEF Numbered
<1> QED
  BY <1>1, <1>2, <1>3, <1>4 DEF Numbered

\* Taking a request off the wire: it is the next one.
LEMMA NumberedRequest ==
    ASSUME NEW S, NEW w \in Seq(S), w # <<>>, Head(w) # Response, NEW n \in Nat, Numbered(w, n)
    PROVE  /\ Head(w) = n + 1
           /\ Numbered(Tail(w), n + 1)
           /\ 1 + Len(Tail(w)) - Gap(Tail(w), Len(Tail(w))) = Len(w) - Gap(w, Len(w))
<1>1. /\ Len(w) \in Nat /\ Len(w) >= 1 /\ Len(Tail(w)) = Len(w) - 1 /\ w[1] # Response
      /\ Head(w) = w[1]
      /\ \A i \in 1..Len(Tail(w)) : i + 1 \in 1..Len(w) /\ Tail(w)[i] = w[i + 1]
  BY TakeOne
<1>2. ASSUME NEW i \in 0..Len(Tail(w)) PROVE Gap(Tail(w), i) = Gap(w, i + 1)
  <2>1. CASE \E j \in 1..i : Tail(w)[j] = Response
    BY <1>1, <2>1 DEF Gap
  <2>2. CASE ~\E j \in 1..i : Tail(w)[j] = Response
    <3>1. ASSUME NEW j \in 1..(i + 1) PROVE w[j] # Response
      <4>1. CASE j = 1
        BY <1>1, <4>1
      <4>2. CASE j # 1
        <5>1. j - 1 \in 1..i /\ j - 1 \in 1..Len(Tail(w)) /\ (j - 1) + 1 = j
          BY <1>1, <4>2
        <5> QED
          BY <1>1, <2>2, <5>1
      <4> QED
        BY <4>1, <4>2
    <3> QED
      BY <2>2, <3>1 DEF Gap
  <2> QED
    BY <2>1, <2>2
<1>3. Gap(w, 1) = 0
  BY <1>1 DEF Gap
<1>4. Head(w) = n + 1
  BY <1>1, <1>3 DEF Numbered
<1>5. ASSUME NEW i \in 1..Len(Tail(w))
      PROVE  Tail(w)[i] = Response \/ Tail(w)[i] = n + 1 + i - Gap(Tail(w), i)
  <2>1. Gap(w, i + 1) \in {0, 1} /\ Gap(Tail(w), i) = Gap(w, i + 1)
    BY <1>2 DEF Gap
  <2>2. i + 1 \in 1..Len(w) /\ Tail(w)[i] = w[i + 1]
    BY <1>1
  <2>3. w[i + 1] = Response \/ w[i + 1] = n + (i + 1) - Gap(w, i + 1)
    BY <2>2 DEF Numbered
  <2> QED
    BY <2>1, <2>2, <2>3
<1>6. \A i, j \in 1..Len(Tail(w)) : Tail(w)[i] = Response /\ Tail(w)[j] = Response => i = j
  BY <1>1 DEF Numbered
<1>7. Gap(Tail(w), Len(Tail(w))) = Gap(w, Len(w))
  BY <1>1, <1>2
<1>8. Gap(w, Len(w)) \in {0, 1}
  BY DEF Gap
<1> QED
  BY <1>1, <1>4, <1>5, <1>6, <1>7, <1>8 DEF Numbered

\* The peer puts the next request on the wire.
LEMMA NumberedSend ==
    ASSUME NEW S, NEW w \in Seq(S), NEW n \in Nat, Numbered(w, n), NEW e \in S, e # Response,
           e = n + Len(w) + 1 - Gap(w, Len(w))
    PROVE  /\ Numbered(Append(w, e), n)
           /\ Gap(Append(w, e), Len(Append(w, e))) = Gap(w, Len(w))
<1> DEFINE v == Append(w, e)
<1>1. /\ Len(v) = Len(w) + 1 /\ Len(w) \in Nat /\ v[Len(w) + 1] = e
      /\ \A i \in 1..Len(w) : v[i] = w[i]
  BY AppendOne
<1> HIDE DEF v
<1>2. \A i \in 0..Len(w) : Gap(v, i) = Gap(w, i)
  <2> TAKE i \in 0..Len(w)
  <2>1. \A j \in 1..i : v[j] = w[j]
    BY <1>1
  <2>2. (\E j \in 1..i : v[j] = Response) <=> (\E j \in 1..i : w[j] = Response)
    BY <2>1
  <2> QED
    BY <2>2 DEF Gap
<1>3. Gap(v, Len(w) + 1) = Gap(w, Len(w))
  BY <1>1 DEF Gap
<1>4. \A i \in 1..Len(v) : i \in 1..Len(w) \/ i = Len(w) + 1
  BY <1>1
<1>5. Gap(w, Len(w)) \in {0, 1}
  BY DEF Gap
<1>6. \A i \in 1..Len(v) : v[i] = Response \/ v[i] = n + i - Gap(v, i)
  BY <1>1, <1>2, <1>3, <1>4, <1>5 DEF Numbered
<1>7. \A i, j \in 1..Len(v) : v[i] = Response /\ v[j] = Response => i = j
  BY <1>1, <1>4 DEF Numbered
<1> QED
  BY <1>1, <1>3, <1>6, <1>7 DEF Numbered, v

\* The peer puts the only response on the wire.
LEMMA NumberedReply ==
    ASSUME NEW S, NEW w \in Seq(S), NEW n \in Nat, Numbered(w, n), Response \in S,
           \A i \in 1..Len(w) : w[i] # Response
    PROVE  /\ Numbered(Append(w, Response), n)
           /\ Gap(w, Len(w)) = 0
           /\ Gap(Append(w, Response), Len(Append(w, Response))) = 1
<1> DEFINE v == Append(w, Response)
<1>1. /\ Len(v) = Len(w) + 1 /\ Len(w) \in Nat /\ v[Len(w) + 1] = Response
      /\ \A i \in 1..Len(w) : v[i] = w[i]
  BY AppendOne
<1> HIDE DEF v
<1>2. \A i \in 0..Len(w) : Gap(v, i) = 0 /\ Gap(w, i) = 0
  BY <1>1 DEF Gap
<1>3. Gap(v, Len(v)) = 1
  BY <1>1 DEF Gap
<1>4. \A i \in 1..Len(v) : i \in 1..Len(w) \/ i = Len(w) + 1
  BY <1>1
<1>5. \A i \in 1..Len(v) : v[i] = Response \/ v[i] = n + i - Gap(v, i)
  BY <1>1, <1>2, <1>4 DEF Numbered
<1>6. \A i, j \in 1..Len(v) : v[i] = Response /\ v[j] = Response => i = j
  BY <1>1, <1>4
<1> QED
  BY <1>2, <1>3, <1>5, <1>6 DEF Numbered, v

-----------------------------------------------------------------------------
(* Types and places.                                                       *)

\* The initial state satisfies the invariant.
LEMMA InitServeInv == Init => ServeInv
<1> SUFFICES ASSUME Init PROVE ServeInv
  OBVIOUS
<1> USE DEF Init
<1>0. /\ Len(<<>>) = 0 /\ MaxReqs \in Nat
      /\ <<>> \in Seq(Requests) /\ <<>> \in Seq(Requests \cup {Response})
  BY MaxReqsAssumption, EmptySeq
<1>1. TypeOK
  <2>1. /\ bigHeld \in BOOLEAN /\ valid \in BOOLEAN /\ signalled \in BOOLEAN
        /\ errorDue \in BOOLEAN /\ reported \in BOOLEAN /\ raced \in BOOLEAN
        /\ cut \in BOOLEAN
    BY Zenon
  <2> QED
    BY <1>0, <2>1 DEF TypeOK
<1>2. Places
  BY DEF Places
<1>3. NoStrandedRequest
  BY DEF NoStrandedRequest
<1>4. Ordered
  <2>1. Numbered(<<>>, 0) /\ Gap(<<>>, 0) = 0
    BY <1>0 DEF Numbered, Gap
  <2> QED
    BY <1>0, <2>1 DEF Ordered, Received
<1> QED
  BY <1>1, <1>2, <1>3, <1>4 DEF ServeInv

\* A step of the reader keeps types and places.
LEMMA ReaderPlaces ==
    ServeInv /\ (Reader \/ RecvTimeout \/ RecvCut) => TypeOK' /\ Places' /\ NoStrandedRequest'
<1> SUFFICES ASSUME TypeOK, Places, NoStrandedRequest,
                    Reader \/ RecvTimeout \/ RecvCut
             PROVE  TypeOK' /\ Places' /\ NoStrandedRequest'
  BY DEF ServeInv
<1> USE DEF Places, NoStrandedRequest, ctxVars, arrVars, loopVars, peerVars
<1>1. CASE Create
  BY <1>1 DEF Create, TypeOK
<1>2. CASE RecvRequest
  <2>1. /\ wire \in Seq(Requests \cup {Response}) /\ wire # <<>>
        /\ Head(wire) # Response /\ wire' = Tail(wire) /\ request' = Head(wire)
        /\ reader = "recv" /\ reader' = "lock"
    BY <1>2 DEF RecvRequest, TypeOK
  <2>2. /\ wire' \in Seq(Requests \cup {Response}) /\ request' \in Requests /\ request' # 0
    BY <2>1, TakeOne DEF Response
  <2> QED
    BY <1>2, <2>1, <2>2 DEF RecvRequest, TypeOK
<1>3. CASE RecvResponse
  <2>1. wire' \in Seq(Requests \cup {Response})
    BY <1>3, TakeOne DEF RecvResponse, TypeOK
  <2> QED
    BY <1>3, <2>1 DEF RecvResponse, TypeOK
<1>4. CASE RecvEnd
  BY <1>4 DEF RecvEnd, TypeOK
<1>5. CASE RecvTimeout
  BY <1>5 DEF RecvTimeout, TypeOK
<1>6. CASE ReaderLock
  BY <1>6 DEF ReaderLock, LockMut, TypeOK
<1>7. CASE AppendRead
  BY <1>7 DEF AppendRead, TypeOK
<1>8. CASE AppendWrite
  <2>1. request \in Requests /\ rcopy \in Seq(Requests) /\ reader = "write" /\ ctx = "live"
    BY <1>8 DEF AppendWrite, TypeOK
  <2>2. messages' \in Seq(Requests) /\ <<>> \in Seq(Requests)
    BY <1>8, <2>1, AppendOne, EmptySeq DEF AppendWrite
  <2> QED
    BY <1>8, <2>1, <2>2 DEF AppendWrite, UnlockMut, TypeOK
<1>9. CASE Signal
  BY <1>9 DEF Signal, TypeOK
<1>10. CASE Invalidate
  <2>0. valid' \in BOOLEAN
    BY <1>10, Zenon DEF Invalidate
  <2>1. TypeOK'
    BY <1>10, <2>0 DEF Invalidate, TypeOK
  <2>2. Places'
    BY <1>10 DEF Invalidate, TypeOK
  <2>3. NoStrandedRequest'
    BY <1>10 DEF Invalidate, TypeOK
  <2> QED
    BY <2>1, <2>2, <2>3
<1>11. CASE Fail
  BY <1>11 DEF Fail, TypeOK
<1>12. CASE Report
  BY <1>12 DEF Report, TypeOK
<1>13. CASE PassBig
  BY <1>13 DEF PassBig, TypeOK
<1>14. CASE Free
  <2>1. <<>> \in Seq(Requests)
    BY EmptySeq
  <2> QED
    BY <1>14, <2>1 DEF Free, TypeOK
<1>15. CASE RecvCut
  <2>1. wire \in Seq(Requests \cup {Response}) /\ wire # <<>> /\ wire' \in {Tail(wire), <<>>}
    BY <1>15 DEF RecvCut, CutEnds, CutLost, CutMisread, TypeOK
  <2>2. wire' \in Seq(Requests \cup {Response})
    BY <2>1, TakeOne, EmptySeq
  <2>3. /\ reader = "recv" /\ reader' \in {"recv", "invalidate"}
        /\ call' \in {call, "done"} /\ cut' = TRUE
    BY <1>15 DEF RecvCut, CutEnds, CutLost, CutMisread
  <2>4. UNCHANGED <<main, ctxVars, arrVars, request, loopVars, errno, link, sent, side, handled>>
    BY <1>15 DEF RecvCut
  <2>5. TypeOK'
    BY <2>2, <2>3, <2>4 DEF TypeOK
  <2>6. Places' /\ NoStrandedRequest'
    BY <2>3, <2>4
  <2> QED
    BY <2>5, <2>6
<1> QED
  BY <1>1, <1>2, <1>3, <1>4, <1>5, <1>6, <1>7, <1>8, <1>9, <1>10, <1>11, <1>12, <1>13,
     <1>14, <1>15 DEF Reader

\* A step of the main thread or of the peer keeps types and places.
LEMMA OthersPlaces ==
    /\ ServeInv
    /\ Main \/ HandlerCalls \/ PeerSends \/ PeerReplies \/ PeerCloses \/ UNCHANGED vars
    => TypeOK' /\ Places' /\ NoStrandedRequest'
<1> SUFFICES ASSUME TypeOK, Places, NoStrandedRequest,
                    Main \/ HandlerCalls \/ PeerSends \/ PeerReplies \/ PeerCloses
                         \/ UNCHANGED vars
             PROVE  TypeOK' /\ Places' /\ NoStrandedRequest'
  BY DEF ServeInv
<1> USE DEF Places, NoStrandedRequest, ctxVars, arrVars, loopVars, peerVars
<1>1. CASE RunLoopSource
  <2>0. signalled' \in BOOLEAN
    BY <1>1, Zenon DEF RunLoopSource
  <2>1. TypeOK'
    BY <1>1, <2>0 DEF RunLoopSource, TypeOK
  <2>2. Places'
    BY <1>1 DEF RunLoopSource, TypeOK
  <2>3. NoStrandedRequest'
    BY <1>1 DEF RunLoopSource, TypeOK
  <2> QED
    BY <2>1, <2>2, <2>3
<1>2. CASE RunLoopError
  <2>0. errorDue' \in BOOLEAN
    BY <1>2, Zenon DEF RunLoopError
  <2>1. TypeOK'
    BY <1>2, <2>0 DEF RunLoopError, TypeOK
  <2>2. Places'
    BY <1>2 DEF RunLoopError, TypeOK
  <2>3. NoStrandedRequest'
    BY <1>2 DEF RunLoopError, TypeOK
  <2> QED
    BY <2>1, <2>2, <2>3
<1>3. CASE Perform
  BY <1>3 DEF Perform, TypeOK
<1>4. CASE UseFreed
  BY <1>4 DEF UseFreed, TypeOK
<1>5. CASE MainLock
  BY <1>5 DEF MainLock, LockMut, TypeOK
<1>6. CASE TakeRead
  BY <1>6 DEF TakeRead, TypeOK
<1>7. CASE TakeWrite
  <2>1. mcopy \in Seq(Requests) /\ mcopy # <<>> /\ handled \in Seq(Requests)
    BY <1>7 DEF TakeWrite, TypeOK
  <2>2. Tail(mcopy) \in Seq(Requests) /\ Head(mcopy) \in Requests
    BY <2>1, TakeOne
  <2>3. Append(handled, Head(mcopy)) \in Seq(Requests) /\ <<>> \in Seq(Requests)
    BY <2>1, <2>2, AppendOne, EmptySeq
  <2> QED
    BY <1>7, <2>2, <2>3 DEF TakeWrite, UnlockMut, TypeOK
<1>8. CASE Leave
  <2>0. bigHeld' \in BOOLEAN
    BY <1>8, Zenon DEF Leave, UnlockMut
  <2>1. TypeOK'
    BY <1>8, <2>0 DEF Leave, UnlockMut, TypeOK
  <2>2. Places'
    BY <1>8 DEF Leave, UnlockMut, TypeOK
  <2>3. NoStrandedRequest'
    BY <1>8 DEF Leave, UnlockMut, TypeOK
  <2> QED
    BY <2>1, <2>2, <2>3
<1>9. CASE CallReturns
  BY <1>9 DEF CallReturns, TypeOK
<1>10. CASE HandlerReturns
  BY <1>10 DEF HandlerReturns, TypeOK
<1>11. CASE DestroyMut
  BY <1>11 DEF DestroyMut, TypeOK
<1>12. CASE HandlerCalls
  BY <1>12 DEF HandlerCalls, TypeOK
<1>13. CASE PeerSends
  <2>1. sent + 1 \in Requests /\ sent + 1 \in 0..MaxReqs
    BY <1>13, MaxReqsAssumption DEF PeerSends, TypeOK, Requests
  <2>2. wire' \in Seq(Requests \cup {Response})
    BY <1>13, <2>1, AppendOne DEF PeerSends, TypeOK
  <2> QED
    BY <1>13, <2>1, <2>2 DEF PeerSends, TypeOK
<1>14. CASE PeerReplies
  <2>1. wire' \in Seq(Requests \cup {Response})
    BY <1>14, AppendOne DEF PeerReplies, TypeOK
  <2> QED
    BY <1>14, <2>1 DEF PeerReplies, TypeOK
<1>15. CASE PeerCloses
  <2>1. wire' \in Seq(Requests \cup {Response})
    BY <1>15, EmptySeq DEF PeerCloses, TypeOK
  <2> QED
    BY <1>15, <2>1 DEF PeerCloses, TypeOK
<1>16. CASE UNCHANGED vars
  BY <1>16 DEF vars, TypeOK
<1> QED
  BY <1>1, <1>2, <1>3, <1>4, <1>5, <1>6, <1>7, <1>8, <1>9, <1>10, <1>11, <1>12, <1>13,
     <1>14, <1>15, <1>16 DEF Main

-----------------------------------------------------------------------------
(* Order.                                                                  *)

\* An action that touches neither requests nor the connection.
LEMMA OrderedKept ==
    ASSUME Ordered, UNCHANGED <<handled, messages, request, wire, sent>>,
           link' = "open" => link = "open",
           ctx = "freed" => ctx' = "freed",
           main' = "write" /\ ctx' # "freed" =>
              \/ main = "write" /\ mcopy' = mcopy /\ reader' # "write"
              \/ mcopy' = messages /\ reader' # "write",
           reader' = "write" /\ ctx' # "freed" =>
              \/ reader = "write" /\ rcopy' = rcopy
              \/ rcopy' = messages
    PROVE  Ordered'
  BY DEF Ordered, Received, Numbered, Gap

\* Every step keeps Ordered, unless accesses to the array overlap or a message
\* was cut.
LEMMA OrderedStep ==
    ASSUME ServeInv, [Next]_vars, ~raced', ~cut'
    PROVE  Ordered'
<1> USE DEF ctxVars, arrVars, loopVars, peerVars
<1>0. TypeOK /\ Places
  BY DEF ServeInv
<1>1. ~raced /\ Ordered /\ ~RecvCut
  <2>0. ~RecvCut
    BY DEF RecvCut
  <2>1. raced => raced'
    BY <2>0 DEF Next, Reader, Main, vars, Create, RecvRequest, RecvResponse, RecvEnd, RecvTimeout,
       ReaderLock, AppendRead, AppendWrite, Signal, Invalidate, Fail, Report, PassBig, Free,
       RunLoopSource, RunLoopError, Perform, UseFreed, MainLock, TakeRead, TakeWrite, Leave,
       CallReturns, HandlerReturns, DestroyMut, HandlerCalls, PeerSends, PeerReplies, PeerCloses
  <2>2. cut => cut'
    BY <2>0 DEF Next, Reader, Main, vars, Create, RecvRequest, RecvResponse, RecvEnd, RecvTimeout,
       ReaderLock, AppendRead, AppendWrite, Signal, Invalidate, Fail, Report, PassBig, Free,
       RunLoopSource, RunLoopError, Perform, UseFreed, MainLock, TakeRead, TakeWrite, Leave,
       CallReturns, HandlerReturns, DestroyMut, HandlerCalls, PeerSends, PeerReplies, PeerCloses
  <2> QED
    BY <2>0, <2>1, <2>2 DEF ServeInv
<1>2. /\ Len(handled) \in Nat /\ Len(messages) \in Nat /\ Len(wire) \in Nat
      /\ request \in Nat /\ Received \in Nat
  <2>1. Len(handled) \in Nat /\ Len(messages) \in Nat /\ Len(wire) \in Nat
    BY <1>0, LenProperties DEF TypeOK
  <2> QED
    BY <1>0, <2>1 DEF TypeOK, Requests, Received
<1>3. CASE Create \/ RecvTimeout \/ ReaderLock \/ Signal \/ Invalidate \/ Fail \/ Report \/ PassBig
  BY <1>0, <1>1, <1>3, OrderedKept DEF Create, RecvTimeout, ReaderLock, Signal, Invalidate,
     Fail, Report, PassBig, Places, Ordered
<1>4. CASE RecvRequest
  <2>1. /\ reader = "recv" /\ wire # <<>> /\ Head(wire) # Response /\ wire' = Tail(wire)
        /\ request' = Head(wire) /\ reader' = "lock"
        /\ UNCHANGED <<messages, mcopy, handled, main, ctx, link, sent>>
    BY <1>4 DEF RecvRequest
  <2>2. request = 0 /\ Received = Len(handled) + Len(messages)
    BY <1>0, <2>1 DEF Places, Received
  <2>3. ctx # "freed" /\ wire \in Seq(Requests \cup {Response}) /\ Numbered(wire, Received)
    BY <1>0, <1>1, <2>1 DEF Places, TypeOK, Ordered
  <2>4. /\ Head(wire) = Received + 1 /\ Numbered(Tail(wire), Received + 1)
        /\ 1 + Len(Tail(wire)) - Gap(Tail(wire), Len(Tail(wire))) = Len(wire) - Gap(wire, Len(wire))
    BY <1>2, <2>1, <2>3, NumberedRequest
  <2>5. Received' = Received + 1
    BY <1>2, <2>1, <2>2, <2>4 DEF Received
  <2>6. link = "open" => sent = Received' + Len(wire') - Gap(wire', Len(wire'))
    <3>1. Len(Tail(wire)) \in Nat /\ Gap(Tail(wire), Len(Tail(wire))) \in {0, 1}
          /\ Gap(wire, Len(wire)) \in {0, 1}
      BY <2>1, <2>3, TakeOne DEF Gap
    <3>2. link = "open" => sent = Received + Len(wire) - Gap(wire, Len(wire))
      BY <1>1, <2>3 DEF Ordered
    <3> QED
      BY <1>2, <2>1, <2>4, <2>5, <3>1, <3>2
  <2>7. Numbered(wire', Received')
    BY <2>1, <2>4, <2>5
  <2>8. request' = Len(handled) + Len(messages) + 1
    BY <2>1, <2>2, <2>4
  <2> QED
    BY <1>1, <2>1, <2>3, <2>6, <2>7, <2>8 DEF Ordered
<1>5. CASE RecvResponse
  <2>1. /\ reader = "recv" /\ wire # <<>> /\ Head(wire) = Response /\ wire' = Tail(wire)
        /\ UNCHANGED <<messages, mcopy, handled, main, ctx, link, sent, request, reader>>
    BY <1>5 DEF RecvResponse
  <2>2. ctx # "freed" /\ wire \in Seq(Requests \cup {Response}) /\ Numbered(wire, Received)
    BY <1>0, <1>1, <2>1 DEF Places, TypeOK, Ordered
  <2>3. /\ Numbered(Tail(wire), Received) /\ Received' = Received
        /\ Len(Tail(wire)) - Gap(Tail(wire), Len(Tail(wire))) = Len(wire) - Gap(wire, Len(wire))
    BY <1>2, <2>1, <2>2, NumberedResponse DEF Received
  <2>4. link = "open" => sent = Received' + Len(wire') - Gap(wire', Len(wire'))
    <3>1. Len(Tail(wire)) \in Nat /\ Gap(Tail(wire), Len(Tail(wire))) \in {0, 1}
          /\ Gap(wire, Len(wire)) \in {0, 1}
      BY <2>1, <2>2, TakeOne DEF Gap
    <3>2. link = "open" => sent = Received + Len(wire) - Gap(wire, Len(wire))
      BY <1>1, <2>2 DEF Ordered
    <3> QED
      BY <1>2, <2>1, <2>3, <3>1, <3>2
  <2> QED
    BY <1>1, <2>1, <2>2, <2>3, <2>4 DEF Ordered
<1>6. CASE RecvEnd
  BY <1>0, <1>1, <1>6, OrderedKept DEF RecvEnd, Places, Ordered
<1>7. CASE AppendRead
  <2>1. main # "write"
    BY <1>7, <1>1 DEF AppendRead
  <2> QED
    BY <1>0, <1>1, <1>7, <2>1, OrderedKept DEF AppendRead, Places
<1>8. CASE AppendWrite
  <2>1. /\ reader = "write" /\ messages' = Append(rcopy, request) /\ request' = 0
        /\ reader' = "signal"
        /\ UNCHANGED <<wire, mcopy, handled, main, ctx, link, sent>>
    BY <1>8 DEF AppendWrite
  <2>2. /\ ctx = "live" /\ request \in Requests /\ request # 0 /\ rcopy = messages
        /\ main # "write" /\ messages \in Seq(Requests)
        /\ request = Len(handled) + Len(messages) + 1
    BY <1>0, <1>1, <2>1 DEF Places, TypeOK, Ordered
  <2>3. /\ Len(messages') = Len(messages) + 1
        /\ \A i \in 1..Len(messages) : messages'[i] = messages[i]
        /\ messages'[Len(messages) + 1] = request
    BY <2>1, <2>2, AppendOne
  <2>4. Received' = Received
    BY <1>2, <2>1, <2>2, <2>3 DEF Received
  <2>5. ASSUME NEW i \in 1..Len(messages') PROVE messages'[i] = Len(handled) + i
    <3>1. i \in 1..Len(messages) \/ i = Len(messages) + 1
      BY <1>2, <2>3
    <3>2. \A j \in 1..Len(messages) : messages[j] = Len(handled) + j
      BY <1>1, <2>2 DEF Ordered
    <3> QED
      BY <1>2, <2>2, <2>3, <3>1, <3>2
  <2>6. Numbered(wire', Received')
    BY <1>1, <2>1, <2>2, <2>4 DEF Ordered
  <2> QED
    BY <1>1, <2>1, <2>2, <2>4, <2>5, <2>6 DEF Ordered
<1>9. CASE Free
  BY <1>1, <1>9 DEF Free, Ordered
<1>10. CASE RunLoopSource \/ RunLoopError \/ Perform \/ UseFreed \/ MainLock \/ Leave
            \/ CallReturns \/ HandlerReturns \/ DestroyMut \/ HandlerCalls
  BY <1>1, <1>10, OrderedKept DEF RunLoopSource, RunLoopError, Perform, UseFreed, MainLock,
     Leave, CallReturns, HandlerReturns, DestroyMut, HandlerCalls, Ordered
<1>11. CASE TakeRead
  <2>1. reader # "write"
    BY <1>11, <1>1 DEF TakeRead
  <2> QED
    BY <1>1, <1>11, <2>1, OrderedKept DEF TakeRead
<1>12. CASE TakeWrite
  <2>1. /\ main = "write" /\ ctx = "live" /\ messages' = Tail(mcopy) /\ main' = "handle"
        /\ handled' = Append(handled, Head(mcopy))
        /\ UNCHANGED <<wire, rcopy, request, reader, ctx, link, sent>>
    BY <1>12 DEF TakeWrite
  <2>2. /\ mcopy = messages /\ mcopy # <<>> /\ reader # "write"
        /\ messages \in Seq(Requests) /\ handled \in Seq(Requests)
    BY <1>0, <1>1, <2>1 DEF Places, TypeOK, Ordered
  <2>3. /\ Len(messages) >= 1 /\ Head(mcopy) = messages[1] /\ Head(mcopy) \in Requests
        /\ Len(messages') = Len(messages) - 1
        /\ \A i \in 1..Len(messages') : i + 1 \in 1..Len(messages) /\ messages'[i] = messages[i + 1]
    BY <2>1, <2>2, TakeOne
  <2>4. /\ Len(handled') = Len(handled) + 1
        /\ \A i \in 1..Len(handled) : handled'[i] = handled[i]
        /\ handled'[Len(handled) + 1] = Head(mcopy)
    BY <2>1, <2>2, <2>3, AppendOne
  <2>5. Received' = Received /\ Len(handled') + Len(messages') = Len(handled) + Len(messages)
    <3>1. Len(handled') + Len(messages') = Len(handled) + Len(messages)
      BY <1>2, <2>3, <2>4
    <3> QED
      BY <2>1, <3>1 DEF Received
  <2>6. \A j \in 1..Len(messages) : messages[j] = Len(handled) + j
    BY <1>1, <2>1 DEF Ordered
  <2>7. ASSUME NEW i \in 1..Len(handled') PROVE handled'[i] = i
    <3>1. i \in 1..Len(handled) \/ i = Len(handled) + 1
      BY <1>2, <2>4
    <3>2. Head(mcopy) = Len(handled) + 1
      BY <1>2, <2>3, <2>6
    <3> QED
      BY <1>1, <2>4, <3>1, <3>2 DEF Ordered
  <2>8. ASSUME NEW i \in 1..Len(messages') PROVE messages'[i] = Len(handled') + i
    BY <1>2, <2>3, <2>4, <2>6
  <2>9. request' # 0 => request' = Len(handled') + Len(messages') + 1
    BY <1>1, <1>2, <2>1, <2>5 DEF Ordered
  <2>10. Numbered(wire', Received')
    BY <1>1, <2>1, <2>5 DEF Ordered
  <2> QED
    BY <1>1, <2>1, <2>2, <2>5, <2>7, <2>8, <2>9, <2>10 DEF Ordered
<1>13. CASE PeerSends
  <2>1. /\ link = "open" /\ sent' = sent + 1 /\ wire' = Append(wire, sent + 1) /\ sent < MaxReqs
        /\ UNCHANGED <<messages, mcopy, rcopy, handled, main, ctx, link, request, reader>>
    BY <1>13 DEF PeerSends
  <2>2. Received' = Received
    BY <2>1 DEF Received
  <2>3. CASE ctx = "freed"
    BY <1>1, <2>1, <2>3 DEF Ordered
  <2>4. CASE ctx # "freed"
    <3>1. /\ wire \in Seq(Requests \cup {Response}) /\ Numbered(wire, Received)
          /\ sent = Received + Len(wire) - Gap(wire, Len(wire)) /\ sent \in Nat
      BY <1>0, <1>1, <2>1, <2>4 DEF TypeOK, Ordered
    <3>2. sent + 1 \in Requests /\ sent + 1 # Response
      BY <2>1, <3>1, MaxReqsAssumption DEF Requests, Response
    <3>3. Gap(wire, Len(wire)) \in {0, 1}
      BY DEF Gap
    <3>4. sent + 1 = Received + Len(wire) + 1 - Gap(wire, Len(wire))
      BY <1>2, <3>1, <3>3
    <3>5. /\ Numbered(wire', Received) /\ Gap(wire', Len(wire')) = Gap(wire, Len(wire))
          /\ Len(wire') = Len(wire) + 1
      BY <1>2, <2>1, <3>1, <3>2, <3>4, NumberedSend, AppendOne
    <3>6. sent' = Received' + Len(wire') - Gap(wire', Len(wire'))
      BY <1>2, <2>1, <2>2, <3>3, <3>4, <3>5
    <3> QED
      BY <1>1, <2>1, <2>2, <2>4, <3>5, <3>6 DEF Ordered
  <2> QED
    BY <2>3, <2>4
<1>14. CASE PeerReplies
  <2>1. /\ wire' = Append(wire, Response) /\ \A i \in DOMAIN wire : wire[i] # Response
        /\ UNCHANGED <<messages, mcopy, rcopy, handled, main, ctx, link, request, reader, sent>>
    BY <1>14 DEF PeerReplies
  <2>2. Received' = Received
    BY <2>1 DEF Received
  <2>3. CASE ctx = "freed"
    BY <1>1, <2>1, <2>3 DEF Ordered
  <2>4. CASE ctx # "freed"
    <3>1. /\ wire \in Seq(Requests \cup {Response}) /\ Numbered(wire, Received)
          /\ link = "open" => sent = Received + Len(wire) - Gap(wire, Len(wire))
      BY <1>0, <1>1, <2>4 DEF TypeOK, Ordered
    <3>2. \A i \in 1..Len(wire) : wire[i] # Response
      BY <2>1, <3>1, LenProperties
    <3>3. /\ Numbered(wire', Received) /\ Gap(wire', Len(wire')) = 1 /\ Gap(wire, Len(wire)) = 0
          /\ Len(wire') = Len(wire) + 1
      BY <1>2, <2>1, <3>1, <3>2, NumberedReply, AppendOne
    <3>4. link' = "open" => sent' = Received' + Len(wire') - Gap(wire', Len(wire'))
      BY <1>2, <2>1, <2>2, <3>1, <3>3
    <3> QED
      BY <1>1, <2>1, <2>2, <2>4, <3>3, <3>4 DEF Ordered
  <2> QED
    BY <2>3, <2>4
<1>15. CASE PeerCloses
  <2>1. /\ link' # "open" /\ wire' \in {wire, <<>>}
        /\ UNCHANGED <<messages, mcopy, rcopy, handled, main, ctx, request, reader, sent>>
    BY <1>15 DEF PeerCloses
  <2>2. Received' = Received
    BY <2>1 DEF Received
  <2>3. Len(<<>>) = 0
    OBVIOUS
  <2>4. ctx # "freed" => Numbered(wire', Received')
    BY <1>1, <2>1, <2>2, <2>3 DEF Ordered, Numbered
  <2> QED
    BY <1>1, <2>1, <2>2, <2>4 DEF Ordered
<1>16. CASE UNCHANGED vars
  BY <1>1, <1>16, OrderedKept DEF vars, Ordered
<1> QED
  BY <1>1, <1>3, <1>4, <1>5, <1>6, <1>7, <1>8, <1>9, <1>10, <1>11, <1>12, <1>13, <1>14, <1>15,
     <1>16 DEF Next, Reader, Main

-----------------------------------------------------------------------------
(* The theorems.                                                           *)

\* ServeInv is an invariant of reader, main thread and peer together.
THEOREM ServeInvariant == Spec => []ServeInv
<1>1. ServeInv /\ [Next]_vars => ServeInv'
  BY ReaderPlaces, OthersPlaces, OrderedStep DEF Next, ServeInv
<1> QED
  BY InitServeInv, <1>1, PTL DEF Spec

\* Every variable of the serving half keeps its type.
THEOREM ServeTypes == Spec => []TypeOK
<1>1. ServeInv => TypeOK
  BY DEF ServeInv
<1> QED
  BY ServeInvariant, <1>1, PTL

\* A request in the array does not depend on another one to be noticed.
THEOREM NothingStranded == Spec => []NoStrandedRequest
<1>1. ServeInv => NoStrandedRequest
  BY DEF ServeInv
<1> QED
  BY ServeInvariant, <1>1, PTL

\* Until an append and a removal overlap, which only the destruction of mut
\* inside rpcctx_perform allows, or a timeout cuts a message, requests are
\* handled in the order sent.
THEOREM ServedInOrder == Spec => []OrderUntilRace
<1>1. ServeInv => OrderUntilRace
  BY LenProperties DEF ServeInv, TypeOK, Ordered, OrderUntilRace
<1> QED
  BY ServeInvariant, <1>1, PTL

\* Once the error function has run, no request of the connection is handled.
THEOREM NothingHandledAfterError == Spec => NothingAfterError
<1>1. ServeInv /\ [Next]_vars => [reported => UNCHANGED handled]_vars
  BY DEF ServeInv, Places, Next, Reader, Main, vars, Create, RecvRequest, RecvResponse, RecvEnd,
     RecvTimeout, RecvCut, ReaderLock, AppendRead, AppendWrite, Signal, Invalidate, Fail, Report,
     PassBig, Free, RunLoopSource, RunLoopError, Perform, UseFreed, MainLock, TakeRead,
     TakeWrite, Leave, CallReturns, HandlerReturns, DestroyMut, HandlerCalls, PeerSends,
     PeerReplies, PeerCloses
<1> QED
  BY ServeInvariant, <1>1, PTL DEF Spec, NothingAfterError
=============================================================================
