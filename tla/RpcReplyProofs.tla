--------------------------- MODULE RpcReplyProofs ---------------------------
(***************************************************************************)
(* Proofs about the replies of RpcCall: each call gets its own, none is    *)
(* forgotten, and RpcCall implements RpcService.                           *)
(***************************************************************************)
EXTENDS RpcCallProofs

Pending == {"numbered", "registered"}

\* A msgid is answered at most once, and only after its request was sent.
AnswersUnique ==
    /\ \A a \in answers : a.id \in 1..msgids
    /\ \A a, b \in answers : a.id = b.id => a = b
    /\ \A i \in DOMAIN toHost :
          /\ toHost[i].id \in 1..msgids
          /\ \A a \in answers : a.id # toHost[i].id
          /\ \A j \in DOMAIN toHost : toHost[i].id = toHost[j].id => i = j
    /\ \A c \in Callers : pc[c] \in Pending =>
          /\ \A a \in answers : a.id # cur[c]
          /\ \A i \in DOMAIN toHost : toHost[i].id # cur[c]

\* What is on its way to a caller, or there, is an answer to its call; after a
\* cut it is at least a message.
RepliesTrue ==
    /\ reader = "found" => reply # NoMsg
    /\ cut \/ /\ \A i \in DOMAIN toFood : toFood[i] \in answers
              /\ reader = "found" => reply \in answers /\ reply.id = target.id
              /\ \A c \in Callers :
                    pc[c] \in InStub /\ msg[c] # NoMsg /\ msg[c].status \in Statuses =>
                        msg[c] \in answers /\ msg[c].id = cur[c]
              /\ OwnReply

\* Without a cut, a faked response is seen only after the connection was given
\* up.
FailureKnown ==
    /\ reader = "starting" => \A c \in Callers : pc[c] \notin InStub
    /\ cut \/ \A c \in Callers :
          pc[c] \in InStub /\ msg[c] # NoMsg /\ msg[c].status = Failed =>
              ~rpcserve_alive
    /\ \A a \in answers : a.status # Failed

\* The call of c is registered, or the reader holds its reply.
Owed(c) ==
    \/ reader = "found" /\ target = [id |-> cur[c], frame |-> c]
    \/ /\ [id |-> cur[c], frame |-> c] \in rpc_states \ applied
       /\ reader # "gone"

CallsOwed ==
    \A c \in Callers : pc[c] \in InStub /\ msg[c] = NoMsg => Owed(c)

ReplyInv ==
    /\ DeliveryInv
    /\ AnswersUnique
    /\ RepliesTrue
    /\ FailureKnown
    /\ CallsOwed
    /\ NobodyForgotten
-----------------------------------------------------------------------------
(* Sequences.                                                              *)

\* An element appended comes last, the others keep their places.
LEMMA AppendElements ==
    ASSUME NEW S, NEW s \in Seq(S), NEW x \in S
    PROVE  /\ DOMAIN Append(s, x) = 1..(Len(s) + 1)
           /\ DOMAIN s = 1..Len(s)
           /\ Append(s, x)[Len(s) + 1] = x
           /\ \A i \in DOMAIN s : Append(s, x)[i] = s[i]
OBVIOUS

\* Taking the head shifts the others.
LEMMA TailElements ==
    ASSUME NEW S, NEW s \in Seq(S), s # <<>>
    PROVE  /\ 1 \in DOMAIN s /\ Head(s) = s[1]
           /\ \A j \in DOMAIN Tail(s) :
                 j + 1 \in DOMAIN s /\ Tail(s)[j] = s[j + 1]
           /\ \A i \in DOMAIN s :
                 i # 1 => i - 1 \in DOMAIN Tail(s) /\ Tail(s)[i - 1] = s[i]
OBVIOUS

\* A lost connection still delivers only what was put in.
LEMMA LoseElements ==
    ASSUME TypeOK, Lose
    PROVE  \A i \in DOMAIN toFood' : i \in DOMAIN toFood /\ toFood'[i] = toFood[i]
<1>1. PICK k \in 0..Len(toFood) : toFood' = SubSeq(toFood, 1, k)
  BY DEF Lose
<1>2. toFood \in Seq(Reply)
  BY DEF TypeOK
<1>3. \A i \in DOMAIN SubSeq(toFood, 1, k) :
         i \in DOMAIN toFood /\ SubSeq(toFood, 1, k)[i] = toFood[i]
  BY <1>1, <1>2
<1> QED
  BY <1>1, <1>3
-----------------------------------------------------------------------------
(* Answers are unique.                                                     *)

\* Every step of RpcCall keeps msgids apart on their way to the host.
LEMMA AnswersStep ==
    ASSUME TypeOK, IdsUnique, AnswersUnique, Next
    PROVE  AnswersUnique'
<1> USE DEF frameVars, readerVars, hostVars
<1>t. /\ toHost \in Seq(Request) /\ toFood \in Seq(Reply) /\ msgids \in Nat
      /\ cur \in [Callers -> Nat] /\ answers \subseteq Reply
      /\ pc \in [Callers -> {"idle", "numbered", "returned"} \cup InStub]
  BY DEF TypeOK
<1>1. ASSUME NEW c \in Callers, Number(c)
      PROVE  AnswersUnique'
  BY <1>1, <1>t DEF Number, AnswersUnique, IdsUnique, Pending
<1>2. ASSUME NEW c \in Callers, Send(c)
      PROVE  AnswersUnique'
  <2> DEFINE r == [id |-> cur[c], abort |-> aborting[c]]
  <2>1. r \in Request
    BY DEF TypeOK, Request
  <2>2. CASE ~hostUp \/ cut
    BY <1>2, <1>t, <2>2 DEF Send, AnswersUnique, Pending
  <2>3. CASE hostUp /\ ~cut
    <3>1. toHost' = Append(toHost, r)
      BY <1>2, <2>3 DEF Send
    <3> HIDE DEF r
    <3>2. /\ DOMAIN toHost' = 1..(Len(toHost) + 1)
          /\ DOMAIN toHost = 1..Len(toHost) /\ Len(toHost) \in Nat
          /\ toHost'[Len(toHost) + 1] = r
          /\ \A i \in DOMAIN toHost : toHost'[i] = toHost[i]
      BY <1>t, <2>1, <3>1, AppendElements
    <3>3. r.id = cur[c] /\ cur[c] \in 1..msgids
      BY <1>2, <1>t DEF Send, IdsUnique, r
    <3>4. /\ \A a \in answers : a.id # r.id
          /\ \A i \in DOMAIN toHost : toHost[i].id # r.id
      BY <1>2, <3>3 DEF Send, AnswersUnique, Pending
    <3>5. \A i \in DOMAIN toHost' :
             /\ toHost'[i].id \in 1..msgids
             /\ \A a \in answers : a.id # toHost'[i].id
      BY <3>2, <3>3, <3>4 DEF AnswersUnique
    <3>6. \A i, j \in DOMAIN toHost' : toHost'[i].id = toHost'[j].id => i = j
      <4> TAKE i, j \in DOMAIN toHost'
      <4>1. CASE i \in DOMAIN toHost /\ j \in DOMAIN toHost
        BY <3>2, <4>1 DEF AnswersUnique
      <4>2. CASE i \in DOMAIN toHost /\ j = Len(toHost) + 1
        BY <3>2, <3>4, <4>2
      <4>3. CASE j \in DOMAIN toHost /\ i = Len(toHost) + 1
        BY <3>2, <3>4, <4>3
      <4> QED
        BY <3>2, <4>1, <4>2, <4>3
    <3>7. \A d \in Callers : pc'[d] \in Pending =>
             d # c /\ pc[d] = pc'[d] /\ cur[d] # cur[c]
      BY <1>2, <1>t DEF Send, IdsUnique, Pending
    <3>8. \A d \in Callers : pc'[d] \in Pending =>
             /\ \A a \in answers : a.id # cur[d]
             /\ \A i \in DOMAIN toHost' : toHost'[i].id # cur[d]
      BY <3>2, <3>3, <3>7 DEF AnswersUnique
    <3>9. UNCHANGED <<msgids, cur, answers>>
      BY <1>2 DEF Send
    <3> QED
      BY <3>5, <3>6, <3>8, <3>9 DEF AnswersUnique
  <2> QED
    BY <2>2, <2>3
<1>3. ASSUME NEW c \in Callers,
             \/ Refuse(c) \/ Register(c) \/ Lock(c) \/ Check(c) \/ Wait(c)
             \/ TakeReply(c) \/ Exit(c) \/ Proceed(c) \/ AssertDies(c)
             \/ SpuriousWakeup(c) \/ AssertFails(c)
      PROVE  AnswersUnique'
  <2>1. UNCHANGED <<msgids, toHost, answers>>
    BY <1>3 DEF Refuse, Register, Lock, Check, Wait, TakeReply, Exit, Proceed, AssertDies,
       SpuriousWakeup, AssertFails
  <2>2. \A d \in Callers : pc'[d] \in Pending =>
           pc[d] \in Pending /\ cur'[d] = cur[d]
    BY <1>3, <1>t DEF Refuse, Register, Lock, Check, Wait, TakeReply, Exit,
       Proceed, AssertDies, SpuriousWakeup, AssertFails, Pending
  <2> QED
    BY <2>1, <2>2 DEF AnswersUnique
<1>4. CASE Reader \/ ReaderMisread \/ ReportError
  <2>1. UNCHANGED <<msgids, toHost, answers, cur>>
    BY <1>4 DEF Reader, ReaderStart, ReaderRecv, ReaderSetMsg, ReaderWake,
       ReaderFail, ReaderApply, ReaderLeave, ReaderMisread, ReportError
  <2>2. \A d \in Callers : pc'[d] \in Pending => pc[d] \in Pending
    BY <1>4, <1>t DEF Reader, ReaderStart, ReaderRecv, ReaderSetMsg, ReaderWake,
       Wake, ReaderFail, ReaderApply, ReaderLeave, ReaderMisread, ReportError, Pending
  <2> QED
    BY <2>1, <2>2 DEF AnswersUnique
<1>5. CASE HostAnswer
  <2>1. PICK s \in Statuses :
           answers' = answers \cup {[id |-> Head(toHost).id, status |-> s]}
    BY <1>5 DEF HostAnswer
  <2>2. /\ toHost # <<>> /\ toHost' = Tail(toHost)
        /\ UNCHANGED <<msgids, pc, cur>>
    BY <1>5 DEF HostAnswer
  <2>3. /\ 1 \in DOMAIN toHost /\ Head(toHost) = toHost[1]
        /\ \A j \in DOMAIN toHost' :
              j + 1 \in DOMAIN toHost /\ toHost'[j] = toHost[j + 1]
    BY <1>t, <2>2, TailElements
  <2>4. \A j \in DOMAIN toHost' : j \in Nat /\ j > 0
    BY <1>t, <2>2
  <2>5. \A j \in DOMAIN toHost' : toHost'[j].id # toHost[1].id
    BY <2>3, <2>4 DEF AnswersUnique
  <2>6. \A i, j \in DOMAIN toHost' : toHost'[i].id = toHost'[j].id => i = j
    BY <2>3, <2>4 DEF AnswersUnique
  <2>7. /\ \A a \in answers' : a.id \in 1..msgids
        /\ \A a, b \in answers' : a.id = b.id => a = b
    BY <2>1, <2>3 DEF AnswersUnique
  <2>8. \A i \in DOMAIN toHost' :
           toHost'[i].id \in 1..msgids /\ \A a \in answers' : a.id # toHost'[i].id
    BY <2>1, <2>3, <2>5 DEF AnswersUnique
  <2>9. \A c \in Callers : pc[c] \in Pending =>
           /\ \A a \in answers' : a.id # cur[c]
           /\ \A i \in DOMAIN toHost' : toHost'[i].id # cur[c]
    BY <2>1, <2>3 DEF AnswersUnique
  <2> QED
    BY <2>2, <2>6, <2>7, <2>8, <2>9 DEF AnswersUnique
<1>6. CASE HostAbort \/ HostClose \/ HostCut
  <2>1. toHost' = <<>> /\ UNCHANGED <<msgids, pc, cur, answers>>
    BY <1>6 DEF HostAbort, HostClose, HostCut, Close, Lose
  <2>2. DOMAIN toHost' = {}
    BY <2>1
  <2> QED
    BY <2>1, <2>2 DEF AnswersUnique
<1> QED
  BY <1>1, <1>2, <1>3, <1>4, <1>5, <1>6 DEF Next, Run, Host
-----------------------------------------------------------------------------
(* Replies are true.                                                       *)

\* A message that was cut stays cut.
LEMMA CutStays ==
    ASSUME TypeOK, Next
    PROVE  cut => cut'
BY DEF Next, Run, Number, Refuse, Register, Send, Lock, Check, Wait, TakeReply,
   Exit, Proceed, AssertDies, SpuriousWakeup, AssertFails, Reader, ReaderStart,
   ReaderRecv, ReaderSetMsg, ReaderWake, ReaderFail, ReaderApply, ReaderLeave,
   ReaderMisread, ReportError, Host, HostAnswer, HostAbort, HostClose, HostCut,
   hostVars

\* The reader hands over a message, whatever it holds.
LEMMA HeldStep ==
    ASSUME TypeOK, RepliesTrue, Next
    PROVE  reader' = "found" => reply' # NoMsg
<1> USE StatusAssumption DEF frameVars, readerVars, hostVars
<1>t. toFood \in Seq(Reply) /\ rpc_states \subseteq Entry
  BY DEF TypeOK
<1>1. CASE ReaderRecv
  <2>1. Head(toFood) \in Reply
    BY <1>1, <1>t DEF ReaderRecv
  <2>2. Head(toFood) # NoMsg
    BY <2>1 DEF Reply
  <2> QED
    BY <1>1, <2>2 DEF ReaderRecv
<1>2. CASE ReaderMisread
  BY <1>2, <1>t DEF ReaderMisread, Misread, Entry
<1>3. CASE ~ReaderRecv /\ ~ReaderMisread
  <2>1. reader' # "found" \/ UNCHANGED <<reader, reply>>
    BY <1>3 DEF Next, Run, Number, Refuse, Register, Send, Lock, Check, Wait,
       TakeReply, Exit, Proceed, AssertDies, SpuriousWakeup, AssertFails,
       Reader, ReaderStart, ReaderSetMsg, ReaderWake, Wake, ReaderFail,
       ReaderApply, ReaderLeave, ReportError, Host, HostAnswer, HostAbort,
       HostClose, HostCut
  <2> QED
    BY <2>1 DEF RepliesTrue
<1> QED
  BY <1>1, <1>2, <1>3

\* Every step delivers to a caller nothing but an answer to its own call.
LEMMA RepliesStep ==
    ASSUME DeliveryInv, TypeOK', RepliesTrue, FailureKnown, Next
    PROVE  RepliesTrue'
<1> USE StatusAssumption DEF frameVars, readerVars, hostVars
<1>h. reader' = "found" => reply' # NoMsg
  BY HeldStep DEF DeliveryInv
<1>c. CASE cut'
  BY <1>h, <1>c DEF RepliesTrue
<1>u. SUFFICES ASSUME ~cut' PROVE RepliesTrue'
  BY <1>c
<1>v. ~cut
  BY <1>u, CutStays DEF DeliveryInv
<1> DEFINE Food == \A i \in DOMAIN toFood : toFood[i] \in answers
           Held == reader = "found" => reply \in answers /\ reply.id = target.id
           Told == \A c \in Callers :
                      pc[c] \in InStub /\ msg[c] # NoMsg /\ msg[c].status \in Statuses =>
                          msg[c] \in answers /\ msg[c].id = cur[c]
<1>i. Food /\ Held /\ Told /\ OwnReply
  BY <1>v DEF RepliesTrue
<1>t. /\ toFood \in Seq(Reply) /\ answers \subseteq Reply
      /\ cur \in [Callers -> Nat] /\ msg \in [Callers -> Reply \cup {NoMsg}]
      /\ ret \in [Callers -> Statuses \cup {Failed, NoResult}]
      /\ pc \in [Callers -> {"idle", "numbered", "returned"} \cup InStub]
      /\ rpc_states \subseteq Entry /\ target \in Entry
  BY DEF DeliveryInv, TypeOK
<1>1. ASSUME NEW c \in Callers, TakeReply(c)
      PROVE  RepliesTrue'
  <2>1. UNCHANGED <<toFood, answers, reader, reply, target, msg, cur>>
    BY <1>1 DEF TakeReply
  <2>2. OwnReply'
    <3> SUFFICES ASSUME NEW d \in Callers,
                        pc'[d] = "returned", ret'[d] \in Statuses
                 PROVE  [id |-> cur[d], status |-> ret'[d]] \in answers
      BY <2>1 DEF OwnReply
    <3>1. CASE d = c
      <4>1. /\ pc[c] = "locked" /\ msg[c] # NoMsg /\ ret'[c] = msg[c].status
        BY <1>1, <1>t DEF TakeReply
      <4>2. msg[c] \in answers /\ msg[c].id = cur[c]
        BY <1>i, <3>1, <4>1 DEF InStub
      <4>3. msg[c] = [id |-> msg[c].id, status |-> msg[c].status]
        BY <1>t, <4>2 DEF Reply
      <4> QED
        BY <3>1, <4>1, <4>2, <4>3
    <3>2. CASE d # c
      <4>1. pc[d] = "returned" /\ ret'[d] = ret[d]
        BY <1>1, <1>t, <3>2 DEF TakeReply
      <4> QED
        BY <1>i, <1>v, <4>1 DEF OwnReply
    <3> QED
      BY <3>1, <3>2
  <2>3. \A d \in Callers : pc'[d] \in InStub => pc[d] \in InStub
    BY <1>1, <1>t DEF TakeReply, InStub
  <2> QED
    BY <1>h, <1>u, <1>v, <1>i, <2>1, <2>2, <2>3 DEF RepliesTrue
<1>2. ASSUME NEW c \in Callers,
             \/ Number(c) \/ Refuse(c) \/ Register(c) \/ Send(c) \/ Lock(c)
             \/ Check(c) \/ Wait(c) \/ Exit(c) \/ Proceed(c) \/ AssertDies(c)
             \/ SpuriousWakeup(c) \/ AssertFails(c)
      PROVE  RepliesTrue'
  <2>1. UNCHANGED <<toFood, answers, reader, reply, target>>
    BY <1>2 DEF Number, Refuse, Register, Send, Lock, Check, Wait, Exit,
       Proceed, AssertDies, SpuriousWakeup, AssertFails
  <2>2. \A d \in Callers : pc'[d] \in InStub /\ msg'[d] # NoMsg =>
           pc[d] \in InStub /\ msg'[d] = msg[d] /\ cur'[d] = cur[d]
    BY <1>2, <1>t DEF Number, Refuse, Register, Send, Lock, Check, Wait, Exit,
       Proceed, AssertDies, SpuriousWakeup, AssertFails, InStub
  <2>3. \A d \in Callers : pc'[d] = "returned" /\ ret'[d] \in Statuses =>
           pc[d] = "returned" /\ ret'[d] = ret[d] /\ cur'[d] = cur[d]
    BY <1>2, <1>t DEF Number, Refuse, Register, Send, Lock, Check, Wait, Exit,
       Proceed, AssertDies, SpuriousWakeup, AssertFails
  <2> QED
    BY <1>h, <1>u, <1>v, <1>i, <2>1, <2>2, <2>3 DEF RepliesTrue, OwnReply
<1>3. CASE ReaderStart \/ ReaderWake \/ ReaderFail \/ ReaderLeave \/ ReportError
  <2>1. /\ UNCHANGED <<answers, reply, target, msg, cur, ret, toFood>>
        /\ reader' # "found" \/ reader' = reader
    BY <1>3 DEF ReaderStart, ReaderWake, Wake, ReaderFail, ReaderLeave, ReportError
  <2>2. \A d \in Callers : /\ pc'[d] \in InStub => pc[d] \in InStub
                           /\ pc'[d] = "returned" => pc[d] = "returned"
    BY <1>3, <1>t DEF ReaderStart, ReaderWake, Wake, ReaderFail, ReaderLeave,
       ReportError, InStub
  <2> QED
    BY <1>h, <1>u, <1>v, <1>i, <2>1, <2>2 DEF RepliesTrue, OwnReply
<1>4. CASE ReaderRecv
  <2>1. /\ toFood # <<>> /\ toFood' = Tail(toFood)
        /\ UNCHANGED <<answers, msg, cur, ret, pc>>
        /\ \/ reader' = reader /\ reader = "recv"
           \/ reply' = Head(toFood) /\ target'.id = Head(toFood).id
    BY <1>4 DEF ReaderRecv
  <2>2. /\ 1 \in DOMAIN toFood /\ Head(toFood) = toFood[1]
        /\ \A j \in DOMAIN Tail(toFood) :
              j + 1 \in DOMAIN toFood /\ Tail(toFood)[j] = toFood[j + 1]
    BY <1>t, <2>1, TailElements
  <2>3. Head(toFood) \in answers /\ \A i \in DOMAIN toFood' : toFood'[i] \in answers
    BY <1>h, <1>u, <1>v, <1>i, <2>1, <2>2
  <2> QED
    BY <1>h, <1>u, <1>v, <1>i, <2>1, <2>3 DEF RepliesTrue, OwnReply
<1>5. CASE ReaderSetMsg
  <2>1. /\ reader = "found" /\ reader' = "wake"
        /\ msg' = [msg EXCEPT ![target.frame] = reply]
        /\ UNCHANGED <<answers, toFood, cur, ret, pc>>
    BY <1>5 DEF ReaderSetMsg
  <2>2. reply \in answers /\ reply.id = cur[target.frame]
    BY <1>h, <1>u, <1>v, <1>i, <2>1 DEF DeliveryInv, TargetLive, Live
  <2>3. Told'
    BY <1>i, <1>t, <2>1, <2>2
  <2> QED
    BY <1>h, <1>u, <1>v, <1>i, <2>1, <2>3 DEF RepliesTrue, OwnReply
<1>6. CASE ReaderApply
  <2>1. PICK e \in rpc_states \ applied :
           msg' = [msg EXCEPT ![e.frame] = [id |-> e.id, status |-> Failed]]
    BY <1>6 DEF ReaderApply
  <2>2. reader' = "applywake" /\ UNCHANGED <<answers, toFood, cur, ret, pc>>
    BY <1>6 DEF ReaderApply
  <2>3. Told'
    BY <1>i, <1>t, <2>1, <2>2 DEF Entry
  <2> QED
    BY <1>h, <1>u, <1>v, <1>i, <2>2, <2>3 DEF RepliesTrue, OwnReply
<1>7. CASE HostAnswer
  <2>1. PICK s \in Statuses :
          /\ toFood' = Append(toFood, [id |-> Head(toHost).id, status |-> s])
          /\ answers' = answers \cup {[id |-> Head(toHost).id, status |-> s]}
    BY <1>7 DEF HostAnswer
  <2>2. UNCHANGED <<reader, reply, target, msg, cur, ret, pc>>
    BY <1>7 DEF HostAnswer
  <2> DEFINE r == [id |-> Head(toHost).id, status |-> s]
  <2>3. r \in Reply
    BY <2>1 DEF TypeOK
  <2>4. toFood' = Append(toFood, r) /\ answers' = answers \cup {r}
    BY <2>1
  <2> HIDE DEF r
  <2>5. /\ DOMAIN toFood' = 1..(Len(toFood) + 1)
        /\ DOMAIN toFood = 1..Len(toFood) /\ Len(toFood) \in Nat
        /\ toFood'[Len(toFood) + 1] = r
        /\ \A i \in DOMAIN toFood : toFood'[i] = toFood[i]
    BY <1>t, <2>3, <2>4, AppendElements
  <2>6. Food'
    BY <1>h, <1>u, <1>v, <1>i, <2>4, <2>5
  <2> QED
    BY <1>h, <1>u, <1>v, <1>i, <2>2, <2>4, <2>6 DEF RepliesTrue, OwnReply
<1>8. CASE HostAbort \/ HostClose
  <2>1. UNCHANGED <<reader, reply, target, msg, cur, ret, pc, answers>>
    BY <1>8 DEF HostAbort, HostClose
  <2>2. Lose
    BY <1>8 DEF HostAbort, HostClose, Close
  <2>3. Food'
    BY <1>h, <1>u, <1>v, <1>i, <2>1, <2>2, LoseElements DEF DeliveryInv
  <2> QED
    BY <1>h, <1>u, <1>v, <1>i, <2>1, <2>3 DEF RepliesTrue, OwnReply
<1>9. ~ReaderMisread /\ ~HostCut
  BY <1>u, <1>v DEF ReaderMisread, HostCut
<1> QED
  BY <1>1, <1>2, <1>3, <1>4, <1>5, <1>6, <1>7, <1>8, <1>9 DEF Next, Run, Reader, Host
-----------------------------------------------------------------------------
(* Failures and debts.                                                     *)

\* Every step fails calls only after the connection was given up.
LEMMA FailureStep ==
    ASSUME DeliveryInv, RepliesTrue, FailureKnown, Next
    PROVE  FailureKnown'
<1> USE StatusAssumption DEF frameVars, readerVars, hostVars
<1>t. /\ msg \in [Callers -> Reply \cup {NoMsg}]
      /\ pc \in [Callers -> {"idle", "numbered", "returned"} \cup InStub]
      /\ rpc_states \subseteq Entry
  BY DEF DeliveryInv, TypeOK
<1>1. ASSUME NEW c \in Callers,
             Run(c) \/ Number(c) \/ SpuriousWakeup(c) \/ AssertFails(c)
      PROVE  FailureKnown'
  <2>1. UNCHANGED <<answers, reader, rpcserve_alive, cut>>
    BY <1>1 DEF Run, Number, Refuse, Register, Send, Lock, Check, Wait,
       TakeReply, Exit, Proceed, AssertDies, SpuriousWakeup, AssertFails
  <2>2. \A d \in Callers : pc'[d] \in InStub =>
           \/ pc[d] \in InStub /\ msg'[d] = msg[d]
           \/ rpcserve_alive /\ msg'[d] = NoMsg
    BY <1>1, <1>t DEF Run, Number, Refuse, Register, Send, Lock, Check, Wait,
       TakeReply, Exit, Proceed, AssertDies, SpuriousWakeup, AssertFails, InStub
  <2>3. reader = "starting" => ~rpcserve_alive
    BY DEF DeliveryInv, ReaderPhase
  <2> QED
    BY <2>1, <2>2, <2>3 DEF FailureKnown
<1>2. CASE ReaderStart
  BY <1>2 DEF ReaderStart, FailureKnown
<1>3. CASE ReaderSetMsg
  <2>1. cut \/ (reply \in answers /\ reply.status # Failed)
    BY <1>3 DEF ReaderSetMsg, RepliesTrue, FailureKnown
  <2>2. UNCHANGED <<cut, answers, pc, rpcserve_alive>> /\ reader' = "wake"
    BY <1>3 DEF ReaderSetMsg
  <2>3. CASE cut
    BY <2>2, <2>3 DEF FailureKnown
  <2>4. CASE ~cut
    BY <1>3, <1>t, <2>1, <2>4 DEF ReaderSetMsg, FailureKnown
  <2> QED
    BY <2>3, <2>4
<1>4. CASE ReaderApply
  <2>1. ~rpcserve_alive
    BY <1>4 DEF ReaderApply, DeliveryInv, ReaderPhase
  <2> QED
    BY <1>4, <2>1 DEF ReaderApply, FailureKnown
<1>5. CASE ReaderRecv \/ ReaderWake \/ ReaderFail \/ ReaderLeave \/ ReportError
           \/ HostAbort \/ HostClose
  <2>1. /\ UNCHANGED <<answers, msg, cut>>
        /\ rpcserve_alive' = rpcserve_alive \/ ~rpcserve_alive'
        /\ reader' # "starting" \/ reader' = reader
    BY <1>5 DEF ReaderRecv, ReaderWake, Wake, ReaderFail, ReaderLeave,
       ReportError, HostAbort, HostClose
  <2>2. \A d \in Callers : pc'[d] \in InStub => pc[d] \in InStub
    BY <1>5, <1>t DEF ReaderRecv, ReaderWake, Wake, ReaderFail, ReaderLeave,
       ReportError, HostAbort, HostClose, InStub
  <2> QED
    BY <2>1, <2>2 DEF FailureKnown
<1>6. CASE HostAnswer
  BY <1>6 DEF HostAnswer, FailureKnown
<1>7. CASE ReaderMisread \/ HostCut
  <2>1. UNCHANGED <<answers, pc>> /\ cut'
    BY <1>7 DEF ReaderMisread, HostCut
  <2>2. reader' # "starting" \/ reader' = reader
    BY <1>7 DEF ReaderMisread, Misread, HostCut
  <2> QED
    BY <2>1, <2>2 DEF FailureKnown
<1> QED
  BY <1>1, <1>2, <1>3, <1>4, <1>5, <1>6, <1>7 DEF Next, Reader, Host

\* The entry of a registered call is the only one with its msgid.
LEMMA OwnEntry ==
    ASSUME DeliveryInv, reader = "recv", NEW c \in Callers, pc[c] \in InStub,
           NEW e \in rpc_states, e.id = cur[c]
    PROVE  e = [id |-> cur[c], frame |-> c]
<1>1. e \in Entry /\ Live(e)
  BY DEF DeliveryInv, TypeOK, ReaderPhase, RegistryLive
<1>2. cur[c] # 0 /\ cur[e.frame] = cur[c] /\ e.frame \in Callers
  BY <1>1 DEF DeliveryInv, IdsUnique, Live, InStub, Entry
<1>3. e.frame = c
  BY <1>2 DEF DeliveryInv, IdsUnique
<1> QED
  BY <1>1, <1>3 DEF Entry

\* Every step leaves a waiting call in the registry or in the reader's hand.
LEMMA OwedStep ==
    ASSUME DeliveryInv, RepliesTrue, CallsOwed, Next
    PROVE  CallsOwed'
<1> USE StatusAssumption DEF frameVars, readerVars, hostVars
<1>t. /\ msg \in [Callers -> Reply \cup {NoMsg}] /\ answers \subseteq Reply
      /\ cur \in [Callers -> Nat]
      /\ pc \in [Callers -> {"idle", "numbered", "returned"} \cup InStub]
      /\ rpc_states \subseteq Entry /\ target \in Entry
  BY DEF DeliveryInv, TypeOK
<1> SUFFICES ASSUME NEW c \in Callers, pc'[c] \in InStub, msg'[c] = NoMsg
             PROVE  Owed(c)'
  BY DEF CallsOwed
<1>1. ASSUME NEW d \in Callers,
             Run(d) \/ Number(d) \/ SpuriousWakeup(d) \/ AssertFails(d)
      PROVE  Owed(c)'
  <2>1. CASE Register(d) /\ d = c
    <3>1. reader # "gone" /\ applied = {}
      BY <2>1 DEF Register, DeliveryInv, ReaderPhase
    <3> QED
      BY <2>1, <3>1 DEF Register, Owed
  <2>2. CASE Register(d) /\ d # c
    <3>1. Owed(c) /\ cur[c] # cur[d]
      BY <1>t, <2>2 DEF Register, CallsOwed, DeliveryInv, IdsUnique, InStub
    <3> QED
      BY <2>2, <3>1 DEF Register, Owed
  <2>3. CASE ~Register(d)
    <3>1. /\ UNCHANGED <<rpc_states, applied, reader, target>>
          /\ pc[c] \in InStub /\ msg'[c] = msg[c] /\ cur'[c] = cur[c]
      BY <1>1, <1>t, <2>3 DEF Run, Number, Refuse, Send, Lock, Check, Wait,
         TakeReply, Exit, Proceed, AssertDies, SpuriousWakeup, AssertFails, InStub
    <3> QED
      BY <3>1 DEF CallsOwed, Owed
  <2> QED
    BY <2>1, <2>2, <2>3
<1>2. CASE ReaderRecv
  <2>1. /\ pc[c] \in InStub /\ msg[c] = NoMsg /\ UNCHANGED <<cur, applied>>
        /\ reader = "recv" /\ applied = {}
    BY <1>2 DEF ReaderRecv, DeliveryInv, ReaderPhase
  <2>2. [id |-> cur[c], frame |-> c] \in rpc_states
    BY <2>1 DEF CallsOwed, Owed
  <2>3. CASE Head(toFood).id = cur[c]
    <3>1. PICK e \in rpc_states :
             e.id = cur[c] /\ target' = e /\ reader' = "found"
      BY <1>2, <2>2, <2>3 DEF ReaderRecv
    <3>2. e = [id |-> cur[c], frame |-> c]
      BY <2>1, <3>1, OwnEntry
    <3> QED
      BY <2>1, <3>1, <3>2 DEF Owed
  <2>4. CASE Head(toFood).id # cur[c]
    <3>1. [id |-> cur[c], frame |-> c] \in rpc_states' /\ reader' # "gone"
      BY <1>2, <2>1, <2>2, <2>4 DEF ReaderRecv
    <3> QED
      BY <2>1, <3>1 DEF Owed
  <2> QED
    BY <2>3, <2>4
<1>3. CASE ReaderSetMsg
  <2>1. reply # NoMsg
    BY <1>3, <1>t DEF ReaderSetMsg, RepliesTrue, Reply
  <2>2. c # target.frame
    BY <1>3, <1>t, <2>1 DEF ReaderSetMsg
  <2> QED
    BY <1>3, <1>t, <2>2 DEF ReaderSetMsg, CallsOwed, Owed
<1>4. CASE ReaderApply
  <2>1. PICK e \in rpc_states \ applied :
          /\ applied' = applied \cup {e}
          /\ msg' = [msg EXCEPT ![e.frame] = [id |-> e.id, status |-> Failed]]
    BY <1>4 DEF ReaderApply
  <2>2. [id |-> e.id, status |-> Failed] # NoMsg
    BY <1>t DEF Entry
  <2>3. c # e.frame
    BY <1>t, <2>1, <2>2
  <2> QED
    BY <1>4, <1>t, <2>1, <2>3 DEF ReaderApply, CallsOwed, Owed
<1>5. CASE ReaderLeave
  <2>1. Owed(c) /\ reader = "apply" /\ rpc_states \subseteq applied
    BY <1>5 DEF ReaderLeave, CallsOwed
  <2> QED
    BY <2>1 DEF Owed
<1>6. CASE ReaderStart \/ ReaderWake \/ ReaderFail
  <2>1. /\ UNCHANGED <<msg, cur, rpc_states, applied>>
        /\ reader # "found" /\ reader' # "gone"
    BY <1>6 DEF ReaderStart, ReaderWake, Wake, ReaderFail
  <2>2. pc[c] \in InStub
    BY <1>6, <1>t DEF ReaderStart, ReaderWake, Wake, ReaderFail, InStub
  <2> QED
    BY <2>1, <2>2 DEF CallsOwed, Owed
<1>8. CASE ReaderMisread
  <2>1. /\ pc[c] \in InStub /\ msg[c] = NoMsg /\ UNCHANGED <<cur, applied>>
        /\ reader = "recv" /\ applied = {}
    BY <1>8 DEF ReaderMisread, DeliveryInv, ReaderPhase
  <2>2. [id |-> cur[c], frame |-> c] \in rpc_states
    BY <2>1 DEF CallsOwed, Owed
  <2>3. CASE UNCHANGED rpc_states /\ reader' = "apply"
    BY <2>1, <2>2, <2>3 DEF Owed
  <2>4. ASSUME NEW e \in rpc_states, rpc_states' = rpc_states \ {e},
               target' = e, reader' = "found"
        PROVE  Owed(c)'
    BY <2>1, <2>2, <2>4 DEF Owed
  <2> QED
    BY <1>8, <2>3, <2>4 DEF ReaderMisread, Misread
<1>7. CASE ReportError \/ Host \/ HostClose \/ HostCut
  <2>1. UNCHANGED <<pc, msg, cur, rpc_states, applied, reader, target>>
    BY <1>7 DEF ReportError, Host, HostAnswer, HostAbort, HostClose, HostCut
  <2> QED
    BY <2>1 DEF CallsOwed, Owed
<1> QED
  BY <1>1, <1>2, <1>3, <1>4, <1>5, <1>6, <1>7, <1>8 DEF Next, Reader

\* The reader holds the reply to the call of c.
Found(c) == reader = "found" /\ target = [id |-> cur[c], frame |-> c]

\* The call of c is on its way, or the connection is down or broken.
Underway(c) ==
    \/ ~hostUp \/ cut
    \/ \E i \in DOMAIN toHost : toHost[i].id = cur[c]
    \/ \E i \in DOMAIN toFood : toFood[i].id = cur[c]

\* No step loses the request or the reply of a waiting call on its way.
LEMMA ForgottenStep ==
    ASSUME DeliveryInv, RepliesTrue, CallsOwed, NobodyForgotten, Next
    PROVE  NobodyForgotten'
<1> USE StatusAssumption DEF frameVars, readerVars, hostVars
<1>t. /\ msg \in [Callers -> Reply \cup {NoMsg}] /\ answers \subseteq Reply
      /\ cur \in [Callers -> Nat]
      /\ toHost \in Seq(Request) /\ toFood \in Seq(Reply)
      /\ pc \in [Callers -> {"idle", "numbered", "returned"} \cup InStub]
      /\ rpc_states \subseteq Entry /\ target \in Entry
  BY DEF DeliveryInv, TypeOK
<1>o. CallsOwed'
  BY OwedStep
<1>h. \A c \in Callers :
         pc[c] \in InStub \ {"registered"} /\ msg[c] = NoMsg => Found(c) \/ Underway(c)
  BY DEF NobodyForgotten, Found, Underway
<1> SUFFICES ASSUME NEW c \in Callers,
                    pc'[c] \in InStub \ {"registered"}, msg'[c] = NoMsg
             PROVE  Found(c)' \/ Underway(c)'
  BY <1>o DEF NobodyForgotten, CallsOwed, Owed, Found, Underway
<1>1. ASSUME NEW d \in Callers, Send(d)
      PROVE  Found(c)' \/ Underway(c)'
  <2>1. /\ UNCHANGED <<cur, msg, reader, target, hostUp, cut, toFood>>
        /\ d # c => pc'[c] = pc[c]
    BY <1>1, <1>t DEF Send
  <2>2. CASE ~hostUp \/ cut
    BY <2>1, <2>2 DEF Underway
  <2>3. CASE hostUp /\ ~cut
    <3> DEFINE r == [id |-> cur[d], abort |-> aborting[d]]
    <3>1. r \in Request /\ r.id = cur[d]
      BY DEF DeliveryInv, TypeOK, Request
    <3>2. toHost' = Append(toHost, r)
      BY <1>1, <2>3 DEF Send
    <3> HIDE DEF r
    <3>3. /\ DOMAIN toHost' = 1..(Len(toHost) + 1)
          /\ DOMAIN toHost = 1..Len(toHost) /\ Len(toHost) \in Nat
          /\ toHost'[Len(toHost) + 1] = r
          /\ \A i \in DOMAIN toHost : toHost'[i] = toHost[i]
      BY <1>t, <3>1, <3>2, AppendElements
    <3>4. CASE d = c
      <4>1. Len(toHost) + 1 \in DOMAIN toHost'
        BY <3>3
      <4> QED
        BY <2>1, <3>1, <3>3, <3>4, <4>1 DEF Underway
    <3>5. CASE d # c
      <4>1. Found(c) \/ Underway(c)
        BY <1>h, <2>1, <3>5
      <4>2. \A i \in DOMAIN toHost : i \in DOMAIN toHost'
        BY <3>3
      <4> QED
        BY <2>1, <3>3, <4>1, <4>2 DEF Found, Underway
    <3> QED
      BY <3>4, <3>5
  <2> QED
    BY <2>2, <2>3
<1>2. ASSUME NEW d \in Callers,
             \/ Number(d) \/ Refuse(d) \/ Register(d) \/ Lock(d) \/ Check(d)
             \/ Wait(d) \/ TakeReply(d) \/ Exit(d) \/ Proceed(d)
             \/ AssertDies(d)
             \/ SpuriousWakeup(d) \/ AssertFails(d)
      PROVE  Found(c)' \/ Underway(c)'
  <2>1. /\ UNCHANGED <<reader, target, hostUp, cut, toHost, toFood>>
        /\ pc[c] \in InStub \ {"registered"} /\ msg[c] = NoMsg
        /\ cur'[c] = cur[c]
    BY <1>2, <1>t DEF Number, Refuse, Register, Lock, Check, Wait, TakeReply,
       Exit, Proceed, AssertDies, SpuriousWakeup, AssertFails, InStub
  <2> QED
    BY <1>h, <2>1 DEF Found, Underway
<1>3. CASE ReaderRecv
  <2>1. /\ pc[c] \in InStub \ {"registered"} /\ msg[c] = NoMsg
        /\ UNCHANGED <<cur, toHost, hostUp, cut>>
        /\ reader = "recv" /\ toFood # <<>> /\ toFood' = Tail(toFood)
    BY <1>3 DEF ReaderRecv
  <2>2. [id |-> cur[c], frame |-> c] \in rpc_states
    BY <2>1 DEF CallsOwed, Owed
  <2>3. CASE Head(toFood).id = cur[c]
    <3>1. PICK e \in rpc_states :
             e.id = cur[c] /\ target' = e /\ reader' = "found"
      BY <1>3, <2>2, <2>3 DEF ReaderRecv
    <3>2. e = [id |-> cur[c], frame |-> c]
      BY <2>1, <3>1, OwnEntry
    <3> QED
      BY <2>1, <3>1, <3>2 DEF Found
  <2>4. CASE Head(toFood).id # cur[c]
    <3>1. Underway(c)
      BY <1>h, <2>1 DEF Found
    <3>2. \A i \in DOMAIN toFood :
             toFood[i].id = cur[c] =>
                i - 1 \in DOMAIN toFood' /\ toFood'[i - 1] = toFood[i]
      BY <1>t, <2>1, <2>4, TailElements
    <3> QED
      BY <2>1, <3>1, <3>2 DEF Underway
  <2> QED
    BY <2>3, <2>4
<1>4. CASE ReaderSetMsg
  <2>1. reply # NoMsg
    BY <1>4, <1>t DEF ReaderSetMsg, RepliesTrue, Reply
  <2>2. c # target.frame
    BY <1>4, <1>t, <2>1 DEF ReaderSetMsg
  <2>3. ~Found(c) /\ msg[c] = NoMsg
    BY <1>4, <1>t, <2>2 DEF ReaderSetMsg, Found
  <2> QED
    BY <1>4, <1>h, <2>3 DEF ReaderSetMsg, Underway
<1>5. CASE ReaderApply
  <2>1. PICK e \in rpc_states \ applied :
          msg' = [msg EXCEPT ![e.frame] = [id |-> e.id, status |-> Failed]]
    BY <1>5 DEF ReaderApply
  <2>2. [id |-> e.id, status |-> Failed] # NoMsg
    BY <1>t DEF Entry
  <2>3. msg[c] = NoMsg /\ reader = "apply"
    BY <1>5, <1>t, <2>1, <2>2 DEF ReaderApply
  <2> QED
    BY <1>5, <1>h, <2>3 DEF ReaderApply, Found, Underway
<1>6. CASE ReaderStart \/ ReaderWake \/ ReaderFail \/ ReaderLeave
  <2>1. UNCHANGED <<msg, cur, toHost, toFood, hostUp, cut>> /\ reader # "found"
    BY <1>6 DEF ReaderStart, ReaderWake, ReaderFail, ReaderLeave
  <2>2. pc[c] \in InStub \ {"registered"}
    BY <1>6, <1>t DEF ReaderStart, ReaderWake, Wake, ReaderFail, ReaderLeave,
       InStub
  <2> QED
    BY <1>h, <2>1, <2>2 DEF Found, Underway
<1>7. CASE HostAnswer
  <2>1. PICK s \in Statuses :
           toFood' = Append(toFood, [id |-> Head(toHost).id, status |-> s])
    BY <1>7 DEF HostAnswer
  <2>2. /\ toHost # <<>> /\ toHost' = Tail(toHost)
        /\ UNCHANGED <<pc, msg, cur, reader, target, hostUp, cut>>
    BY <1>7 DEF HostAnswer
  <2> DEFINE r == [id |-> Head(toHost).id, status |-> s]
  <2>3. r \in Reply /\ r.id = Head(toHost).id
    <3>1. Head(toHost) \in Request
      BY <1>t, <2>2
    <3>2. Head(toHost).id \in Nat
      BY <3>1 DEF Request
    <3> QED
      BY <3>2 DEF Reply
  <2>4. toFood' = Append(toFood, r)
    BY <2>1
  <2> HIDE DEF r
  <2>5. /\ DOMAIN toFood' = 1..(Len(toFood) + 1)
        /\ DOMAIN toFood = 1..Len(toFood) /\ Len(toFood) \in Nat
        /\ toFood'[Len(toFood) + 1] = r
        /\ \A i \in DOMAIN toFood : toFood'[i] = toFood[i]
    BY <1>t, <2>3, <2>4, AppendElements
  <2>6. /\ Len(toFood) + 1 \in DOMAIN toFood'
        /\ \A i \in DOMAIN toFood : i \in DOMAIN toFood'
    BY <2>5
  <2>7. /\ Head(toHost) = toHost[1]
        /\ \A i \in DOMAIN toHost :
              i # 1 => i - 1 \in DOMAIN toHost' /\ toHost'[i - 1] = toHost[i]
    BY <1>t, <2>2, TailElements
  <2>8. Found(c) \/ Underway(c)
    BY <1>h, <2>2
  <2>9. CASE \E i \in DOMAIN toHost : toHost[i].id = cur[c]
    <3>1. PICK i \in DOMAIN toHost : toHost[i].id = cur[c]
      BY <2>9
    <3>2. CASE i = 1
      BY <2>2, <2>3, <2>5, <2>6, <2>7, <3>1, <3>2 DEF Underway
    <3>3. CASE i # 1
      BY <2>2, <2>7, <3>1, <3>3 DEF Underway
    <3> QED
      BY <3>2, <3>3
  <2>10. CASE ~ \E i \in DOMAIN toHost : toHost[i].id = cur[c]
    BY <2>2, <2>5, <2>6, <2>8, <2>10 DEF Found, Underway
  <2> QED
    BY <2>9, <2>10
<1>8. CASE HostAbort \/ HostClose
  BY <1>8 DEF HostAbort, HostClose, Close, Underway
<1>10. CASE ReaderMisread \/ HostCut
  BY <1>10 DEF ReaderMisread, HostCut, Underway
<1>9. CASE ReportError
  BY <1>9, <1>h DEF ReportError, Found, Underway
<1> QED
  BY <1>1, <1>2, <1>3, <1>4, <1>5, <1>6, <1>7, <1>8, <1>9,
     <1>10
  DEF Next, Run, Reader, Host
-----------------------------------------------------------------------------
(* The invariant.                                                          *)

\* ReplyInv holds initially and is kept by every step of RpcCall.
LEMMA ReplyInductive ==
    /\ Init => ReplyInv
    /\ ReplyInv /\ [Next]_vars => ReplyInv'
<1>1. Init => ReplyInv
  <2> SUFFICES ASSUME Init PROVE ReplyInv
    OBVIOUS
  <2>1. DeliveryInv
    BY DeliveryInductive
  <2>2. /\ \A c \in Callers : pc[c] = "idle"
        /\ answers = {} /\ toHost = <<>> /\ toFood = <<>> /\ reader = "starting"
    BY DEF Init
  <2>3. DOMAIN toHost = {} /\ DOMAIN toFood = {}
    BY <2>2
  <2>4. AnswersUnique /\ RepliesTrue
    BY <2>2, <2>3 DEF AnswersUnique, RepliesTrue, OwnReply, InStub, Pending
  <2>5. FailureKnown /\ CallsOwed /\ NobodyForgotten
    BY <2>2 DEF FailureKnown, CallsOwed, NobodyForgotten, InStub
  <2> QED
    BY <2>1, <2>4, <2>5 DEF ReplyInv
<1>2. ReplyInv /\ [Next]_vars => ReplyInv'
  <2> SUFFICES ASSUME ReplyInv, [Next]_vars PROVE ReplyInv'
    OBVIOUS
  <2>1. DeliveryInv'
    BY DeliveryInductive DEF ReplyInv
  <2>2. CASE Next
    BY <2>1, <2>2, AnswersStep, RepliesStep, FailureStep, OwedStep, ForgottenStep
    DEF ReplyInv, DeliveryInv
  <2>3. CASE UNCHANGED vars
    BY <2>1, <2>3 DEF ReplyInv, vars, AnswersUnique, RepliesTrue, FailureKnown,
       CallsOwed, Owed, NobodyForgotten, OwnReply
  <2> QED
    BY <2>2, <2>3
<1> QED
  BY <1>1, <1>2

\* A stub that returns a host status returns the one the host gave for this
\* very call, for any number of threads and of calls in flight, until a timeout
\* of the host has cut a message.
THEOREM ReplyOwn == Spec => []OwnReply
<1>1. ReplyInv => OwnReply
  BY DEF ReplyInv, RepliesTrue, OwnReply
<1> QED
  BY <1>1, ReplyInductive, PTL DEF Spec

\* A call that waits is registered, and its request or its reply is on its
\* way unless the connection is down or a timeout of the host has cut a
\* message: otherwise none waits for what will never come.
THEOREM NoneForgotten == Spec => []NobodyForgotten
<1>1. ReplyInv => NobodyForgotten
  BY DEF ReplyInv
<1> QED
  BY <1>1, ReplyInductive, PTL DEF Spec
-----------------------------------------------------------------------------
(* RpcCall implements RpcService: each step of the runtime is a step of the *)
(* service it promises, or leaves the service as it is.                    *)

\* Where a call does not move, the service does not see a step.
LEMMA SameCall ==
    ASSUME NEW c \in Callers, UNCHANGED answers, cur'[c] = cur[c],
           pc'[c] = "idle" <=> pc[c] = "idle",
           pc'[c] = "returned" <=> pc[c] = "returned",
           pc[c] = "returned" => ret'[c] = ret[c]
    PROVE  phase'[c] = phase[c] /\ result'[c] = result[c]
<1>1. Answered(c)' <=> Answered(c)
  BY DEF Answered
<1> QED
  BY <1>1 DEF phase, result

\* A thread outside its stub keeps its phase and its status.
LEMMA OutsideStub ==
    ASSUME NEW c \in Callers, pc[c] \in {"idle", "returned"},
           pc'[c] = pc[c], ret'[c] = ret[c]
    PROVE  phase'[c] = phase[c] /\ result'[c] = result[c]
BY DEF phase, result

\* A step that no call notices leaves the service unchanged.
LEMMA ServiceSame ==
    ASSUME \A c \in Callers : phase'[c] = phase[c] /\ result'[c] = result[c]
    PROVE  UNCHANGED <<phase, result>>
BY DEF phase, result

\* A step that one call notices changes the service at that call.
LEMMA ServiceChange ==
    ASSUME NEW c \in Callers, NEW v, NEW w, phase'[c] = v, result'[c] = w,
           \A d \in Callers \ {c} : phase'[d] = phase[d] /\ result'[d] = result[d]
    PROVE  /\ phase' = [phase EXCEPT ![c] = v]
           /\ result' = [result EXCEPT ![c] = w]
<1>1. DOMAIN phase = Callers /\ phase = [d \in Callers |-> phase[d]]
  BY DEF phase
<1>2. DOMAIN phase' = Callers /\ phase' = [d \in Callers |-> phase'[d]]
  BY DEF phase
<1>3. DOMAIN result = Callers /\ result = [d \in Callers |-> result[d]]
  BY DEF result
<1>4. DOMAIN result' = Callers /\ result' = [d \in Callers |-> result'[d]]
  BY DEF result
<1>5. phase' = [phase EXCEPT ![c] = v]
  BY <1>1, <1>2
<1>6. result' = [result EXCEPT ![c] = w]
  BY <1>3, <1>4
<1> QED
  BY <1>5, <1>6

\* The answer to a call is the one with its msgid.
LEMMA AnswerIs ==
    ASSUME NEW given, NEW x \in given, \A a, b \in given : a.id = b.id => a = b
    PROVE  AnswerTo(x.id, given) = x
BY DEF AnswerTo

\* RpcCall starts as the service does.
LEMMA ServiceInit == Init => Service!Init
BY DEF Init, Service!Init, link, phase, result

\* A step of a thread is a step of the service or does not concern it.
LEMMA CallerServes ==
    ASSUME ReplyInv, NEW c \in Callers,
           Run(c) \/ Number(c) \/ SpuriousWakeup(c) \/ AssertFails(c)
    PROVE  [Service!Next]_(Service!vars)
<1> USE StatusAssumption DEF frameVars, readerVars, hostVars
<1>t. /\ cur \in [Callers -> Nat] /\ answers \subseteq Reply /\ msgids \in Nat
      /\ msg \in [Callers -> Reply \cup {NoMsg}]
      /\ ret \in [Callers -> Statuses \cup {Failed, NoResult}]
      /\ pc \in [Callers -> {"idle", "numbered", "returned"} \cup InStub]
  BY DEF ReplyInv, DeliveryInv, TypeOK
<1>l. link' = link /\ answers' = answers /\ cut' = cut
  BY DEF link, Run, Number, Refuse, Register, Send, Lock, Check, Wait,
     TakeReply, Exit, Proceed, AssertDies, SpuriousWakeup, AssertFails
<1>d. \A d \in Callers \ {c} : phase'[d] = phase[d] /\ result'[d] = result[d]
  <2> TAKE d \in Callers \ {c}
  <2>1. pc'[d] = pc[d] /\ cur'[d] = cur[d] /\ ret'[d] = ret[d]
    BY <1>t DEF Run, Number, Refuse, Register, Send, Lock, Check, Wait,
       TakeReply, Exit, Proceed, AssertDies, SpuriousWakeup, AssertFails
  <2> QED
    BY <1>l, <2>1, SameCall
<1>1. CASE Number(c)
  <2>1. /\ pc[c] = "idle" /\ pc'[c] = "numbered" /\ cur'[c] = msgids + 1
    BY <1>1, <1>t DEF Number
  <2>2. ~Answered(c)'
    BY <1>t, <1>l, <2>1 DEF Answered, ReplyInv, AnswersUnique
  <2>3. /\ phase[c] = "idle" /\ phase'[c] = "asked"
        /\ result[c] = NoResult /\ result'[c] = NoResult
    BY <2>1, <2>2 DEF phase, result
  <2>4. phase' = [phase EXCEPT ![c] = "asked"] /\ UNCHANGED result
    <3>1. phase' = [phase EXCEPT ![c] = "asked"]
      BY <1>d, <2>3, ServiceChange
    <3>2. \A d \in Callers : result'[d] = result[d]
      BY <1>d, <2>3
    <3> QED
      BY <3>1, <3>2 DEF result
  <2> QED
    BY <1>l, <2>3, <2>4 DEF Service!Next, Service!Ask
<1>2. CASE Refuse(c)
  <2>1. pc[c] = "numbered" /\ pc'[c] = "returned" /\ ret'[c] = Failed
    BY <1>2, <1>t DEF Refuse
  <2>2. /\ phase[c] \in {"asked", "answered"} /\ phase'[c] = "returned"
        /\ result'[c] = Failed
    BY <2>1 DEF phase, result
  <2>3. link # "up"
    BY <1>2 DEF Refuse, link
  <2> QED
    BY <1>l, <1>d, <2>2, <2>3, ServiceChange DEF Service!Next, Service!ReturnFailed
<1>3. CASE TakeReply(c)
  <2>1. /\ pc[c] = "locked" /\ pc'[c] = "returned" /\ msg[c] # NoMsg
        /\ ret'[c] = msg[c].status
    BY <1>3, <1>t DEF TakeReply
  <2>2. phase'[c] = "returned" /\ result'[c] = msg[c].status
    BY <2>1 DEF phase, result
  <2>c. CASE cut
    <3>1. phase[c] \in {"asked", "answered"}
      BY <2>1 DEF phase
    <3>2. msg[c].status \in Statuses \cup {Failed}
      BY <1>t, <2>1 DEF Reply
    <3> QED
      BY <1>l, <1>d, <2>2, <2>c, <3>1, <3>2, ServiceChange
      DEF Service!Next, Service!Garble
  <2>3. CASE ~cut /\ msg[c].status \in Statuses
    <3>1. msg[c] \in answers /\ msg[c].id = cur[c]
      BY <2>1, <2>3 DEF ReplyInv, RepliesTrue, InStub
    <3>2. AnswerTo(cur[c], answers) = msg[c]
      BY <3>1, AnswerIs DEF ReplyInv, AnswersUnique
    <3>3. Answered(c)
      BY <3>1 DEF Answered
    <3>4. phase[c] = "answered" /\ result[c] = msg[c].status
      BY <2>1, <3>2, <3>3 DEF phase, result
    <3>5. phase' = [phase EXCEPT ![c] = "returned"]
      BY <1>d, <2>2, ServiceChange
    <3>6. UNCHANGED result
      <4>1. \A d \in Callers : result'[d] = result[d]
        BY <1>d, <2>2, <3>4
      <4> QED
        BY <4>1 DEF result
    <3> QED
      BY <1>l, <3>4, <3>5, <3>6 DEF Service!Next, Service!Return
  <2>4. CASE ~cut /\ msg[c].status = Failed
    <3>1. ~rpcserve_alive
      BY <2>1, <2>4 DEF ReplyInv, FailureKnown, InStub
    <3>2. phase[c] \in {"asked", "answered"} /\ link # "up"
      BY <2>1, <3>1 DEF phase, link
    <3> QED
      BY <1>l, <1>d, <2>2, <2>4, <3>2, ServiceChange
      DEF Service!Next, Service!ReturnFailed
  <2>5. msg[c].status \in Statuses \cup {Failed}
    BY <1>t, <2>1 DEF Reply
  <2> QED
    BY <2>c, <2>3, <2>4, <2>5
<1>4. CASE Proceed(c)
  <2>1. pc[c] = "returned" /\ pc'[c] = "idle"
    BY <1>4, <1>t DEF Proceed
  <2>2. phase[c] = "returned" /\ phase'[c] = "idle" /\ result'[c] = NoResult
    BY <2>1 DEF phase, result
  <2> QED
    BY <1>l, <1>d, <2>2, ServiceChange DEF Service!Next, Service!Leave
<1>5. CASE \/ Register(c) \/ Send(c) \/ Lock(c) \/ Check(c) \/ Wait(c) \/ Exit(c)
           \/ AssertDies(c) \/ SpuriousWakeup(c) \/ AssertFails(c)
  <2>1. /\ cur'[c] = cur[c] /\ ret'[c] = ret[c]
        /\ pc'[c] = "idle" <=> pc[c] = "idle"
        /\ pc'[c] = "returned" <=> pc[c] = "returned"
    BY <1>5, <1>t DEF Register, Send, Lock, Check, Wait, Exit, AssertDies,
       SpuriousWakeup, AssertFails
  <2>2. phase'[c] = phase[c] /\ result'[c] = result[c]
    BY <1>l, <2>1, SameCall
  <2>3. UNCHANGED <<phase, result>>
    BY <1>d, <2>2, ServiceSame
  <2> QED
    BY <1>l, <2>3 DEF Service!vars
<1> QED
  BY <1>1, <1>2, <1>3, <1>4, <1>5 DEF Run

\* A step of the reader moves the link, or does not concern the service.
LEMMA ReaderServes ==
    ASSUME ReplyInv,
           \/ Reader \/ ReaderMisread \/ ReportError
           \/ HostAbort \/ HostClose \/ HostCut
    PROVE  [Service!Next]_(Service!vars)
<1> USE DEF frameVars, readerVars, hostVars
<1>t. pc \in [Callers -> {"idle", "numbered", "returned"} \cup InStub]
  BY DEF ReplyInv, DeliveryInv, TypeOK
<1>1. UNCHANGED <<answers, cur, ret>>
  BY DEF Reader, ReaderStart, ReaderRecv, ReaderSetMsg, ReaderWake, ReaderFail,
     ReaderApply, ReaderLeave, ReaderMisread, ReportError, HostAbort, HostClose,
     HostCut
<1>2. \A c \in Callers : /\ pc'[c] = "idle" <=> pc[c] = "idle"
                         /\ pc'[c] = "returned" <=> pc[c] = "returned"
  BY <1>t DEF Reader, ReaderStart, ReaderRecv, ReaderSetMsg, ReaderWake, Wake,
     ReaderFail, ReaderApply, ReaderLeave, ReaderMisread, ReportError,
     HostAbort, HostClose, HostCut
<1>3. UNCHANGED <<phase, result>>
  BY <1>1, <1>2, SameCall, ServiceSame
<1>c. CASE HostCut
  <2>1. UNCHANGED link /\ cut'
    BY <1>c DEF HostCut, link
  <2> QED
    BY <1>3, <2>1 DEF Service!Next, Service!Break
<1>u. ~HostCut => UNCHANGED cut
  BY DEF Reader, ReaderStart, ReaderRecv, ReaderSetMsg, ReaderWake,
     ReaderFail, ReaderApply, ReaderLeave, ReaderMisread, ReportError,
     HostAbort, HostClose
<1>4. CASE ReaderStart /\ ~HostCut
  <2>1. link = "starting" /\ link' = "up"
    BY <1>4 DEF ReaderStart, link, ReplyInv, DeliveryInv, ReaderPhase
  <2> QED
    BY <1>3, <1>4, <1>u, <2>1 DEF Service!Next, Service!GoUp
<1>5. CASE ~HostCut /\ (ReaderFail \/ ReaderMisread)
  <2>1. link' = link \/ (link' = "lost" /\ link \in {"up", "lost"})
    BY <1>5 DEF ReaderFail, ReaderMisread, Misread, link
  <2>2. CASE link = "up"
    BY <1>3, <1>5, <1>u, <2>1, <2>2 DEF Service!Next, Service!GoLost, Service!vars
  <2>3. CASE link # "up"
    BY <1>3, <1>5, <1>u, <2>1, <2>3 DEF Service!vars
  <2> QED
    BY <2>1, <2>2, <2>3
<1>6. CASE /\ ~HostCut
           /\ \/ ReaderRecv \/ ReaderSetMsg \/ ReaderWake \/ ReaderApply
              \/ ReaderLeave \/ ReportError \/ HostAbort \/ HostClose
  <2>1. UNCHANGED link
    BY <1>6 DEF link, ReaderRecv, ReaderSetMsg, ReaderWake, Wake, ReaderApply,
       ReaderLeave, ReportError, HostAbort, HostClose
  <2> QED
    BY <1>3, <1>6, <1>u, <2>1 DEF Service!vars
<1> QED
  BY <1>c, <1>4, <1>5, <1>6 DEF Reader

\* The host answers a call for the service, or one whose thread has left.
LEMMA AnswerServes ==
    ASSUME ReplyInv, ReplyInv', HostAnswer
    PROVE  [Service!Next]_(Service!vars)
<1> USE DEF frameVars, readerVars, hostVars
<1>t. /\ cur \in [Callers -> Nat] /\ toHost \in Seq(Request)
      /\ pc \in [Callers -> {"idle", "numbered", "returned"} \cup InStub]
  BY DEF ReplyInv, DeliveryInv, TypeOK
<1> DEFINE h == Head(toHost).id
<1>1. PICK s \in Statuses : answers' = answers \cup {[id |-> h, status |-> s]}
  BY DEF HostAnswer
<1>2. UNCHANGED <<pc, cur, ret, reader, rpcserve_alive, cut>> /\ toHost # <<>>
  BY DEF HostAnswer
<1>3. h \in 1..msgids /\ \A a \in answers : a.id # h
  <2>1. 1 \in DOMAIN toHost /\ Head(toHost) = toHost[1]
    BY <1>t, <1>2, TailElements
  <2> QED
    BY <2>1 DEF ReplyInv, AnswersUnique
<1>4. UNCHANGED link /\ UNCHANGED cut
  BY <1>2 DEF link
<1> HIDE DEF h
<1>5. \A d \in Callers : pc[d] \in {"idle", "returned"} \/ cur[d] # h =>
         phase'[d] = phase[d] /\ result'[d] = result[d]
  <2> TAKE d \in Callers
  <2>1. CASE pc[d] \in {"idle", "returned"}
    BY <1>2, <2>1, OutsideStub
  <2>2. CASE pc[d] \notin {"idle", "returned"} /\ cur[d] # h
    <3>1. Answered(d)' <=> Answered(d)
      BY <1>1, <1>2, <2>2 DEF Answered
    <3>2. CASE Answered(d)
      <4>1. PICK a \in answers : a.id = cur[d]
        BY <3>2 DEF Answered
      <4>2. AnswerTo(cur[d], answers) = a
        BY <4>1, AnswerIs DEF ReplyInv, AnswersUnique
      <4>3. a \in answers' /\ \A x, y \in answers' : x.id = y.id => x = y
        BY <1>1 DEF ReplyInv, AnswersUnique
      <4>4. AnswerTo(cur[d], answers') = a
        BY <4>1, <4>3, AnswerIs
      <4> QED
        BY <1>2, <2>2, <3>1, <3>2, <4>2, <4>4 DEF phase, result
    <3>3. CASE ~Answered(d)
      BY <1>2, <2>2, <3>1, <3>3 DEF phase, result
    <3> QED
      BY <3>2, <3>3
  <2> QED
    BY <2>1, <2>2
<1>6. ASSUME NEW c \in Callers, cur[c] = h, pc[c] \notin {"idle", "returned"}
      PROVE  Service!Answer(c)
  <2>1. \A d \in Callers \ {c} : cur[d] # h
    BY <1>3, <1>t, <1>6 DEF ReplyInv, DeliveryInv, IdsUnique
  <2>2. phase[c] = "asked"
    BY <1>3, <1>6 DEF phase, Answered
  <2> DEFINE r == [id |-> h, status |-> s]
  <2>3. r \in answers' /\ r.id = cur'[c] /\ r.status = s
    BY <1>1, <1>2, <1>6
  <2> HIDE DEF r
  <2>4. AnswerTo(cur'[c], answers') = r
    BY <2>3, AnswerIs DEF ReplyInv, AnswersUnique
  <2>5. Answered(c)'
    BY <2>3 DEF Answered
  <2>6. phase'[c] = "answered" /\ result'[c] = s
    BY <1>2, <1>6, <2>3, <2>4, <2>5 DEF phase, result
  <2>7. /\ phase' = [phase EXCEPT ![c] = "answered"]
        /\ result' = [result EXCEPT ![c] = s]
    BY <1>5, <2>1, <2>6, ServiceChange
  <2> QED
    BY <1>4, <2>2, <2>7 DEF Service!Answer
<1>7. CASE \E c \in Callers : cur[c] = h /\ pc[c] \notin {"idle", "returned"}
  BY <1>6, <1>7 DEF Service!Next
<1>8. CASE \A c \in Callers : cur[c] # h \/ pc[c] \in {"idle", "returned"}
  BY <1>4, <1>5, <1>8, ServiceSame DEF Service!vars
<1> QED
  BY <1>7, <1>8

\* The runtime keeps its promise to the threads, for any number of them and
\* of calls: a call comes back at most once, with the status the host gave
\* for it, or with status 2 while the connection is not served, until a
\* timeout of the host has cut a message.
THEOREM ImplementsService == Spec => ServiceSpec
<1>1. ReplyInv /\ ReplyInv' /\ [Next]_vars => [Service!Next]_(Service!vars)
  <2> SUFFICES ASSUME ReplyInv, ReplyInv', [Next]_vars
               PROVE  [Service!Next]_(Service!vars)
    OBVIOUS
  <2>1. CASE Next
    BY <2>1, CallerServes, ReaderServes, AnswerServes DEF Next, Host
  <2>2. CASE UNCHANGED vars
    BY <2>2 DEF vars, Service!vars, link, phase, result, Answered
  <2> QED
    BY <2>1, <2>2
<1> QED
  BY <1>1, ServiceInit, ReplyInductive, PTL DEF Spec, ServiceSpec, Service!Spec
=============================================================================
