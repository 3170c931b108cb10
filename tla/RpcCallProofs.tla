--------------------------- MODULE RpcCallProofs ----------------------------
(***************************************************************************)
(* Proofs about RpcCall, for any set of threads and any number of calls.   *)
(***************************************************************************)
EXTENDS RpcCall, TLAPS

\* msgids are handed out in order, and a thread in a call has one of its own.
IdsUnique ==
    /\ \A c \in Callers : cur[c] <= msgids /\ (pc[c] = "idle" <=> cur[c] = 0)
    /\ \A c, d \in Callers : cur[c] = cur[d] /\ cur[c] # 0 => c = d

\* What the position of the reader says about rpcserve_alive and applied.
ReaderPhase ==
    /\ reader \in {"starting", "recv", "found", "wake"} => applied = {}
    /\ reader \in {"starting", "apply", "applywake", "gone"} => ~rpcserve_alive
    /\ rpcserve_alive => applied = {}

\* The registry points into stubs that wait for their first message.
RegistryLive ==
    \A e \in rpc_states \ applied : Live(e) /\ msg[e.frame] = NoMsg

\* The frame the reader is about to write to is such a frame, unregistered.
TargetLive ==
    reader = "found" =>
        /\ Live(target)
        /\ msg[target.frame] = NoMsg
        /\ target \notin rpc_states

\* A thread that goes to sleep, or sleeps, with its message there is the one
\* the reader is about to signal.
SleeperSignalled ==
    \A c \in Callers :
        pc[c] \in {"towait", "waiting"} /\ msg[c] # NoMsg =>
            /\ reader \in {"wake", "applywake"}
            /\ target = [id |-> cur[c], frame |-> c]

DeliveryInv ==
    /\ TypeOK
    /\ IdsUnique
    /\ ReaderPhase
    /\ RegistryLive
    /\ TargetLive
    /\ SleeperSignalled
-----------------------------------------------------------------------------
(* The variables and the actions keep their types: the connection delivers *)
(* what was put in.                                                        *)

\* The initial state of RpcCall is well typed.
LEMMA InitTypeOK == Init => TypeOK
<1> SUFFICES ASSUME Init PROVE TypeOK
  OBVIOUS
<1>1. toHost \in Seq(Request) /\ toFood \in Seq(Reply)
  BY DEF Init
<1>2. target \in Entry
  BY CallersAssumption DEF Init, Entry, NoEntry
<1> QED
  BY <1>1, <1>2 DEF Init, TypeOK, InStub

\* A closed or broken connection leaves well-typed channels behind.
LEMMA LoseType ==
    ASSUME TypeOK, Lose
    PROVE  toHost' \in Seq(Request) /\ toFood' \in Seq(Reply)
<1>1. PICK k \in 0..Len(toFood) : toFood' = SubSeq(toFood, 1, k)
  BY DEF Lose
<1>2. toFood \in Seq(Reply)
  BY DEF TypeOK
<1>3. SubSeq(toFood, 1, k) \in Seq(Reply)
  BY <1>1, <1>2
<1>4. toHost' = <<>>
  BY DEF Lose
<1>5. toHost' \in Seq(Request)
  BY <1>4
<1> QED
  BY <1>1, <1>3, <1>4, <1>5

\* Every step of RpcCall keeps the variables in their types.
LEMMA NextTypeOK == TypeOK /\ [Next]_vars => TypeOK'
<1> SUFFICES ASSUME TypeOK, [Next]_vars PROVE TypeOK'
  OBVIOUS
<1> USE StatusAssumption, CallersAssumption
<1>a. CASE UNCHANGED vars
  BY <1>a DEF TypeOK, vars
<1>b. ASSUME NEW c \in Callers,
             Run(c) \/ Number(c) \/ SpuriousWakeup(c) \/ AssertFails(c)
      PROVE  TypeOK'
  <2>1. CASE Number(c)
    BY <2>1 DEF Number, TypeOK, InStub, frameVars, readerVars, hostVars
  <2>2. CASE Refuse(c)
    BY <2>2 DEF Refuse, TypeOK, InStub, readerVars, hostVars
  <2>3. CASE Register(c)
    BY <2>3 DEF Register, TypeOK, InStub, Entry, readerVars, hostVars
  <2>4. CASE Send(c)
    <3>1. [id |-> cur[c], abort |-> aborting[c]] \in Request
      BY DEF TypeOK, Request
    <3>2. toHost' \in Seq(Request)
      BY <2>4, <3>1 DEF Send, TypeOK
    <3> QED
      BY <2>4, <3>2 DEF Send, TypeOK, InStub, frameVars, readerVars
  <2>5. CASE Lock(c)
    BY <2>5 DEF Lock, TypeOK, InStub, frameVars, readerVars, hostVars
  <2>6. CASE Check(c)
    BY <2>6 DEF Check, TypeOK, InStub, frameVars, readerVars, hostVars
  <2>7. CASE Wait(c)
    BY <2>7 DEF Wait, TypeOK, InStub, frameVars, readerVars, hostVars
  <2>8. CASE SpuriousWakeup(c)
    BY <2>8 DEF SpuriousWakeup, TypeOK, InStub, frameVars, readerVars, hostVars
  <2>9. CASE TakeReply(c)
    BY <2>9 DEF TakeReply, TypeOK, InStub, Reply, readerVars, hostVars
  <2>10. CASE Proceed(c)
    BY <2>10 DEF Proceed, TypeOK, InStub, readerVars, hostVars
  <2>11. CASE Exit(c) \/ AssertDies(c)
    BY <2>11 DEF Exit, AssertDies, TypeOK, InStub, frameVars, readerVars, hostVars
  <2>12. CASE AssertFails(c)
    BY <2>12 DEF AssertFails, TypeOK, InStub, readerVars, hostVars
  <2> QED
    BY <1>b, <2>1, <2>2, <2>3, <2>4, <2>5, <2>6, <2>7, <2>8, <2>9, <2>10,
       <2>11, <2>12 DEF Run
<1>c. CASE ReportError
  BY <1>c DEF ReportError, TypeOK, InStub, readerVars, hostVars
<1>d. CASE Reader
  <2>1. CASE ReaderStart
    BY <2>1 DEF ReaderStart, TypeOK, InStub, frameVars, hostVars
  <2>2. CASE ReaderRecv
    <3>1. toFood \in Seq(Reply) /\ toFood # <<>> /\ rpc_states \subseteq Entry
      BY <2>2 DEF ReaderRecv, TypeOK
    <3>2. Head(toFood) \in Reply /\ Tail(toFood) \in Seq(Reply)
      BY <3>1
    <3>3. toFood' \in Seq(Reply) /\ reply' \in Reply \cup {NoMsg}
      BY <2>2, <3>2 DEF ReaderRecv, TypeOK
    <3>4. target \in Entry
      BY DEF TypeOK
    <3>5. target' \in Entry
      BY <2>2, <3>1, <3>4 DEF ReaderRecv
    <3>6. rpc_states' \subseteq Entry
      BY <2>2, <3>1 DEF ReaderRecv
    <3>7. /\ reader' \in {"found", reader}
          /\ UNCHANGED <<msgids, rpcserve_alive, pc, cur, frameVars, applied,
                         errorDue, exited, toHost, hostUp, answers, cut>>
      BY <2>2 DEF ReaderRecv
    <3>8. /\ UNCHANGED <<msgids, rpcserve_alive, pc, cur, msg, ret, aborting, applied,
                         errorDue, exited, toHost, hostUp, answers, cut>>
      BY <3>7 DEF frameVars
    <3>9. reader' \in {"starting", "recv", "found", "wake", "apply", "applywake", "gone", "stuck"}
      BY <3>7 DEF TypeOK
    <3> QED
      BY <3>3, <3>5, <3>6, <3>8, <3>9 DEF TypeOK
  <2>3. CASE ReaderSetMsg
    BY <2>3 DEF ReaderSetMsg, TypeOK, InStub, Entry, hostVars
  <2>4. CASE ReaderWake
    <3>1. /\ pc' \in {pc, [pc EXCEPT ![target.frame] = IF @ = "waiting" THEN "woken" ELSE @]}
          /\ reader' \in {"recv", "apply", "stuck"}
      BY <2>4 DEF ReaderWake, Wake
    <3>2. pc' \in [Callers -> {"idle", "numbered", "returned"} \cup InStub]
      <4> DEFINE S == {"idle", "numbered", "returned"} \cup InStub
      <4>1. pc \in [Callers -> S] /\ "woken" \in S
        BY DEF TypeOK, InStub
      <4> HIDE DEF S
      <4>2. pc' \in [Callers -> S]
        BY <3>1, <4>1
      <4> QED
        BY <4>2 DEF S
    <3>3. UNCHANGED <<msgids, rpc_states, rpcserve_alive, cur, frameVars, target,
                      reply, applied, errorDue, exited, hostVars>>
      BY <2>4 DEF ReaderWake
    <3> QED
      BY <3>1, <3>2, <3>3 DEF TypeOK, frameVars, hostVars
  <2>5. CASE ReaderFail
    BY <2>5 DEF ReaderFail, TypeOK, InStub, frameVars, hostVars
  <2>6. CASE ReaderApply
    BY <2>6 DEF ReaderApply, TypeOK, InStub, Entry, Reply, hostVars
  <2>7. CASE ReaderLeave
    BY <2>7 DEF ReaderLeave, TypeOK, InStub, frameVars, hostVars
  <2> QED
    BY <1>d, <2>1, <2>2, <2>3, <2>4, <2>5, <2>6, <2>7 DEF Reader
<1>m. CASE ReaderMisread
  <2>1. CASE UNCHANGED <<rpc_states, target, reply>>
    <3>1. reader' = "apply" /\ rpcserve_alive' \in BOOLEAN
      BY <1>m, <2>1 DEF ReaderMisread, Misread, TypeOK
    <3>2. UNCHANGED <<msgids, pc, cur, frameVars, applied, errorDue, exited, hostVars>>
      BY <1>m DEF ReaderMisread
    <3> QED
      BY <2>1, <3>1, <3>2 DEF TypeOK, frameVars, hostVars
  <2>2. ASSUME NEW e \in rpc_states, NEW s \in Statuses \cup {Failed},
               Misread(e, s)
        PROVE  TypeOK'
    BY <1>m, <2>2 DEF ReaderMisread, Misread, TypeOK, InStub, Entry, Reply,
       frameVars, hostVars
  <2> QED
    BY <1>m, <2>1, <2>2 DEF ReaderMisread
<1>e. CASE HostAnswer
  <2>1. PICK s \in Statuses :
          /\ toFood' = Append(toFood, [id |-> Head(toHost).id, status |-> s])
          /\ answers' = answers \cup {[id |-> Head(toHost).id, status |-> s]}
    BY <1>e DEF HostAnswer
  <2>2. Head(toHost) \in Request /\ Tail(toHost) \in Seq(Request)
    BY <1>e DEF HostAnswer, TypeOK
  <2>3. [id |-> Head(toHost).id, status |-> s] \in Reply
    BY <2>2 DEF Reply, Request
  <2>4. toFood' \in Seq(Reply) /\ answers' \subseteq Reply
    BY <2>1, <2>3 DEF TypeOK
  <2> QED
    BY <1>e, <2>2, <2>4 DEF HostAnswer, TypeOK, InStub, frameVars, readerVars
<1>f. CASE HostAbort
  <2>1. Close
    BY <1>f DEF HostAbort
  <2> QED
    BY <1>f, <2>1, LoseType DEF HostAbort, Close, TypeOK, InStub, frameVars, readerVars
<1>g. CASE HostClose
  <2>1. Close
    BY <1>g DEF HostClose
  <2> QED
    BY <1>g, <2>1, LoseType DEF HostClose, Close, TypeOK, InStub, frameVars, readerVars
<1>h. CASE HostCut
  <2>1. Lose
    BY <1>h DEF HostCut
  <2> QED
    BY <1>h, <2>1, LoseType DEF HostCut, TypeOK, InStub, frameVars, readerVars
<1> QED
  BY <1>a, <1>b, <1>c, <1>d, <1>e, <1>f, <1>g, <1>h, <1>m DEF Next, Host

\* Type correctness: the registry, the frames and the channels only ever hold
\* what the runtime puts there, for any number of threads and calls.
THEOREM TypeCorrect == Spec => []TypeOK
<1>1. Init => TypeOK
  BY InitTypeOK
<1>2. TypeOK /\ [Next]_vars => TypeOK'
  BY NextTypeOK
<1> QED
  BY <1>1, <1>2, PTL DEF Spec
-----------------------------------------------------------------------------
(* Delivery: the inductive invariant, one lemma per group of actions.      *)

\* Two entries of live calls in the same frame are the same entry.
LEMMA LiveEntryUnique ==
    ASSUME NEW e \in Entry, NEW f \in Entry, Live(e), Live(f), e.frame = f.frame
    PROVE  e = f
BY DEF Live, Entry

\* The steps of a thread preserve DeliveryInv.
LEMMA CallerKeepsDelivery ==
    ASSUME DeliveryInv, TypeOK', NEW c \in Callers,
           Run(c) \/ Number(c) \/ SpuriousWakeup(c) \/ AssertFails(c)
    PROVE  DeliveryInv'
<1> USE DEF frameVars, readerVars, hostVars
<1>t. TypeOK
  BY DEF DeliveryInv
<1>1. CASE Number(c)
  <2>1. IdsUnique'
    BY <1>1, <1>t DEF Number, DeliveryInv, IdsUnique, TypeOK
  <2>2. RegistryLive' /\ TargetLive'
    BY <1>1, <1>t DEF Number, DeliveryInv, RegistryLive, TargetLive, Live,
       TypeOK, Entry, InStub
  <2>3. SleeperSignalled'
    BY <1>1, <1>t DEF Number, DeliveryInv, SleeperSignalled, TypeOK
  <2>4. ReaderPhase'
    BY <1>1 DEF Number, DeliveryInv, ReaderPhase
  <2> QED
    BY <2>1, <2>2, <2>3, <2>4 DEF DeliveryInv
<1>2. CASE Refuse(c)
  BY <1>2, <1>t DEF Refuse, DeliveryInv, IdsUnique, ReaderPhase, RegistryLive,
     TargetLive, SleeperSignalled, Live, TypeOK, Entry, InStub
<1>3. CASE Register(c)
  <2>1. IdsUnique' /\ ReaderPhase'
    BY <1>3, <1>t DEF Register, DeliveryInv, IdsUnique, ReaderPhase, TypeOK
  <2>2. RegistryLive'
    <3> SUFFICES ASSUME NEW e \in rpc_states' \ applied'
                 PROVE  Live(e)' /\ msg'[e.frame] = NoMsg
      BY DEF RegistryLive
    <3>1. CASE e = [id |-> cur[c], frame |-> c]
      BY <1>3, <1>t, <3>1 DEF Register, Live, TypeOK, InStub
    <3>2. CASE e \in rpc_states
      BY <1>3, <1>t, <3>2 DEF Register, DeliveryInv, RegistryLive, Live, TypeOK,
         Entry, InStub
    <3> QED
      BY <1>3, <3>1, <3>2 DEF Register
  <2>3. TargetLive'
    <3> SUFFICES ASSUME reader = "found"
                 PROVE  Live(target)' /\ msg'[target.frame] = NoMsg
                            /\ target \notin rpc_states'
      BY <1>3 DEF Register, TargetLive
    <3>1. Live(target) /\ msg[target.frame] = NoMsg /\ target \notin rpc_states
      BY DEF DeliveryInv, TargetLive
    <3>2. target.frame # c
      BY <1>3, <3>1 DEF Register, Live, InStub
    <3> QED
      BY <1>3, <1>t, <3>1, <3>2 DEF Register, Live, TypeOK, Entry, InStub
  <2>4. SleeperSignalled'
    BY <1>3, <1>t DEF Register, DeliveryInv, SleeperSignalled, TypeOK
  <2> QED
    BY <2>1, <2>2, <2>3, <2>4 DEF DeliveryInv
<1>4. CASE Send(c)
  BY <1>4, <1>t DEF Send, DeliveryInv, IdsUnique, ReaderPhase, RegistryLive,
     TargetLive, SleeperSignalled, Live, TypeOK, Entry, InStub
<1>5. CASE Lock(c)
  BY <1>5, <1>t DEF Lock, DeliveryInv, IdsUnique, ReaderPhase, RegistryLive,
     TargetLive, SleeperSignalled, Live, TypeOK, Entry, InStub
<1>6. CASE Check(c)
  BY <1>6, <1>t DEF Check, DeliveryInv, IdsUnique, ReaderPhase, RegistryLive,
     TargetLive, SleeperSignalled, Live, TypeOK, Entry, InStub
<1>7. CASE Wait(c)
  BY <1>7, <1>t DEF Wait, DeliveryInv, IdsUnique, ReaderPhase, RegistryLive,
     TargetLive, SleeperSignalled, Live, TypeOK, Entry, InStub
<1>8. CASE SpuriousWakeup(c)
  BY <1>8, <1>t DEF SpuriousWakeup, DeliveryInv, IdsUnique, ReaderPhase,
     RegistryLive, TargetLive, SleeperSignalled, Live, TypeOK, Entry, InStub
<1>9. CASE TakeReply(c)
  BY <1>9, <1>t DEF TakeReply, DeliveryInv, IdsUnique, ReaderPhase,
     RegistryLive, TargetLive, SleeperSignalled, Live, TypeOK, Entry, InStub
<1>10. CASE Proceed(c)
  BY <1>10, <1>t DEF Proceed, DeliveryInv, IdsUnique, ReaderPhase,
     RegistryLive, TargetLive, SleeperSignalled, Live, TypeOK, Entry, InStub
<1>11. CASE Exit(c) \/ AssertDies(c)
  BY <1>11, <1>t DEF Exit, AssertDies, DeliveryInv, IdsUnique, ReaderPhase, RegistryLive,
     TargetLive, SleeperSignalled, Live, TypeOK, Entry, InStub
<1>12. CASE AssertFails(c)
  BY <1>12, <1>t DEF AssertFails, DeliveryInv, IdsUnique, ReaderPhase,
     RegistryLive, TargetLive, SleeperSignalled, Live, TypeOK, Entry, InStub
<1> QED
  BY <1>1, <1>2, <1>3, <1>4, <1>5, <1>6, <1>7, <1>8, <1>9, <1>10, <1>11, <1>12
     DEF Run

\* The steps of the reader preserve DeliveryInv.
LEMMA ReaderKeepsDelivery ==
    ASSUME DeliveryInv, TypeOK', Reader \/ ReaderMisread
    PROVE  DeliveryInv'
<1> USE DEF frameVars, readerVars, hostVars
<1>t. TypeOK
  BY DEF DeliveryInv
<1>1. CASE ReaderStart
  BY <1>1, <1>t DEF ReaderStart, DeliveryInv, IdsUnique, ReaderPhase,
     RegistryLive, TargetLive, SleeperSignalled, Live
<1>2. CASE ReaderRecv
  <2>1. IdsUnique' /\ ReaderPhase' /\ SleeperSignalled'
    BY <1>2, <1>t DEF ReaderRecv, DeliveryInv, IdsUnique, ReaderPhase,
       SleeperSignalled
  <2>2. RegistryLive'
    BY <1>2, <1>t DEF ReaderRecv, DeliveryInv, RegistryLive, Live
  <2>3. TargetLive'
    BY <1>2, <1>t DEF ReaderRecv, DeliveryInv, RegistryLive, TargetLive,
       ReaderPhase, Live
  <2> QED
    BY <2>1, <2>2, <2>3 DEF DeliveryInv
<1>3. CASE ReaderSetMsg
  <2>1. Live(target) /\ target \in Entry /\ target \notin rpc_states
    BY <1>3, <1>t DEF ReaderSetMsg, DeliveryInv, TargetLive, TypeOK
  <2>2. IdsUnique' /\ ReaderPhase' /\ TargetLive'
    BY <1>3, <1>t DEF ReaderSetMsg, DeliveryInv, IdsUnique, ReaderPhase,
       TargetLive
  <2>3. RegistryLive'
    <3> SUFFICES ASSUME NEW e \in rpc_states \ applied
                 PROVE  Live(e)' /\ msg'[e.frame] = NoMsg
      BY <1>3 DEF ReaderSetMsg, RegistryLive
    <3>1. e \in Entry /\ Live(e) /\ msg[e.frame] = NoMsg
      BY <1>t DEF DeliveryInv, RegistryLive, TypeOK
    <3>2. e.frame # target.frame
      BY <2>1, <3>1, LiveEntryUnique
    <3> QED
      BY <1>3, <1>t, <3>1, <3>2 DEF ReaderSetMsg, Live, TypeOK
  <2>4. SleeperSignalled'
    BY <1>3, <1>t, <2>1 DEF ReaderSetMsg, DeliveryInv, SleeperSignalled, Live,
       TypeOK, Entry
  <2> QED
    BY <2>2, <2>3, <2>4 DEF DeliveryInv
<1>4. CASE ReaderWake
  <2>1. pc' \in [Callers -> {"idle", "numbered", "returned"} \cup InStub]
    BY DEF TypeOK
  <2>2. \A c \in Callers :
           /\ pc'[c] = pc[c] \/ (pc[c] = "waiting" /\ pc'[c] = "woken")
           /\ Live(target) /\ c = target.frame => pc'[c] \notin {"towait", "waiting"}
    BY <1>4, <1>t DEF ReaderWake, Wake, TypeOK, Entry, Holding
  <2>3. IdsUnique' /\ ReaderPhase'
    BY <1>4, <1>t, <2>2 DEF ReaderWake, Wake, DeliveryInv, IdsUnique,
       ReaderPhase
  <2>4. RegistryLive' /\ TargetLive'
    <3>1. \A e \in Entry : Live(e) => Live(e)'
      BY <1>4, <2>2 DEF ReaderWake, Live, Entry, InStub
    <3> QED
      BY <1>4, <1>t, <3>1 DEF ReaderWake, Wake, DeliveryInv, RegistryLive,
         TargetLive, TypeOK
  <2>5. SleeperSignalled'
    <3> SUFFICES ASSUME NEW c \in Callers,
                        pc'[c] \in {"towait", "waiting"}, msg[c] # NoMsg
                 PROVE  FALSE
      BY <1>4 DEF ReaderWake, SleeperSignalled
    <3>1. pc[c] \in {"towait", "waiting"} /\ ~(Live(target) /\ c = target.frame)
      BY <2>2
    <3>2. target = [id |-> cur[c], frame |-> c]
      BY <3>1 DEF DeliveryInv, SleeperSignalled
    <3> QED
      BY <3>1, <3>2 DEF Live, InStub
  <2> QED
    BY <2>3, <2>4, <2>5 DEF DeliveryInv
<1>5. CASE ReaderFail
  BY <1>5, <1>t DEF ReaderFail, DeliveryInv, IdsUnique, ReaderPhase,
     RegistryLive, TargetLive, SleeperSignalled, Live
<1>6. CASE ReaderApply
  <2>1. PICK e \in rpc_states \ applied :
          /\ applied' = applied \cup {e}
          /\ target' = e
          /\ msg' = [msg EXCEPT ![e.frame] = [id |-> e.id, status |-> Failed]]
    BY <1>6 DEF ReaderApply
  <2>2. e \in Entry /\ Live(e)
    BY <1>t DEF DeliveryInv, RegistryLive, TypeOK
  <2>3. IdsUnique' /\ ReaderPhase' /\ TargetLive'
    BY <1>6 DEF ReaderApply, DeliveryInv, IdsUnique, ReaderPhase, TargetLive
  <2>4. RegistryLive'
    <3> SUFFICES ASSUME NEW f \in rpc_states \ applied, f # e
                 PROVE  Live(f)' /\ msg'[f.frame] = NoMsg
      BY <1>6, <2>1 DEF ReaderApply, RegistryLive
    <3>1. f \in Entry /\ Live(f) /\ msg[f.frame] = NoMsg
      BY <1>t DEF DeliveryInv, RegistryLive, TypeOK
    <3>2. f.frame # e.frame
      BY <2>2, <3>1, LiveEntryUnique
    <3> QED
      BY <1>6, <1>t, <2>1, <3>1, <3>2 DEF ReaderApply, Live, TypeOK
  <2>5. SleeperSignalled'
    BY <1>6, <1>t, <2>1, <2>2 DEF ReaderApply, DeliveryInv, SleeperSignalled,
       Live, TypeOK, Entry
  <2> QED
    BY <2>3, <2>4, <2>5 DEF DeliveryInv
<1>7. CASE ReaderLeave
  BY <1>7, <1>t DEF ReaderLeave, DeliveryInv, IdsUnique, ReaderPhase,
     RegistryLive, TargetLive, SleeperSignalled, Live
<1>8. CASE ReaderMisread
  <2>0. /\ reader = "recv" /\ UNCHANGED <<msgids, pc, cur, msg, applied>>
        /\ applied = {}
    BY <1>8 DEF ReaderMisread, DeliveryInv, ReaderPhase
  <2>1. IdsUnique' /\ SleeperSignalled'
    BY <2>0 DEF DeliveryInv, IdsUnique, SleeperSignalled
  <2>2. CASE UNCHANGED rpc_states /\ reader' = "apply" /\ ~rpcserve_alive'
    <3>1. ReaderPhase' /\ TargetLive'
      BY <2>2 DEF ReaderPhase, TargetLive
    <3>2. RegistryLive'
      BY <2>0, <2>2 DEF DeliveryInv, RegistryLive, Live
    <3> QED
      BY <2>1, <3>1, <3>2 DEF DeliveryInv
  <2>3. ASSUME NEW e \in rpc_states,
               rpc_states' = rpc_states \ {e}, target' = e, reader' = "found",
               UNCHANGED rpcserve_alive
        PROVE  DeliveryInv'
    <3>1. ReaderPhase'
      BY <2>0, <2>3 DEF DeliveryInv, ReaderPhase
    <3>2. RegistryLive' /\ TargetLive'
      BY <2>0, <2>3 DEF DeliveryInv, RegistryLive, TargetLive, Live
    <3> QED
      BY <2>1, <3>1, <3>2 DEF DeliveryInv
  <2> QED
    BY <1>8, <2>2, <2>3 DEF ReaderMisread, Misread
<1> QED
  BY <1>1, <1>2, <1>3, <1>4, <1>5, <1>6, <1>7, <1>8 DEF Reader

\* DeliveryInv is inductive.
LEMMA DeliveryInductive ==
    /\ Init => DeliveryInv
    /\ DeliveryInv /\ [Next]_vars => DeliveryInv'
<1>1. ASSUME Init PROVE DeliveryInv
  <2>1. IdsUnique /\ ReaderPhase /\ RegistryLive /\ TargetLive
    BY <1>1 DEF Init, IdsUnique, ReaderPhase, RegistryLive, TargetLive
  <2>2. SleeperSignalled
    BY <1>1 DEF Init, SleeperSignalled
  <2> QED
    BY <1>1, <2>1, <2>2, InitTypeOK DEF DeliveryInv
<1>2. ASSUME DeliveryInv, [Next]_vars PROVE DeliveryInv'
  <2>t. TypeOK'
    BY <1>2, NextTypeOK DEF DeliveryInv
  <2>1. CASE \E c \in Callers :
                Run(c) \/ Number(c) \/ SpuriousWakeup(c) \/ AssertFails(c)
    BY <1>2, <2>t, <2>1, CallerKeepsDelivery
  <2>2. CASE Reader \/ ReaderMisread
    BY <1>2, <2>t, <2>2, ReaderKeepsDelivery
  <2>3. CASE ReportError \/ Host \/ HostClose \/ HostCut \/ UNCHANGED vars
    <3>1. UNCHANGED <<msgids, rpc_states, rpcserve_alive, pc, cur, msg,
                      reader, target, applied>>
      BY <2>3 DEF ReportError, Host, HostAnswer, HostAbort, HostClose,
         HostCut, frameVars, readerVars, hostVars, vars
    <3> QED
      BY <1>2, <2>t, <3>1 DEF DeliveryInv, IdsUnique, ReaderPhase,
         RegistryLive, TargetLive, SleeperSignalled, Live
  <2> QED
    BY <1>2, <2>1, <2>2, <2>3 DEF Next
<1> QED
  BY <1>1, <1>2

\* The reader and rpc_applier never write to the frame of a call that has
\* returned, nor over an earlier reply.
THEOREM DeliverySafe == Spec => []DeliveryHitsLiveFrame
<1>1. DeliveryInv => DeliveryHitsLiveFrame
  BY DEF DeliveryInv, TargetLive, RegistryLive, DeliveryHitsLiveFrame
<1> QED
  BY <1>1, DeliveryInductive, PTL DEF Spec

\* No thread sleeps in pthread_cond_wait with its reply there and no signal
\* to come, although s->msg is set without s->mut.
THEOREM NoWakeupLost == Spec => []NoLostWakeup
<1>1. DeliveryInv => NoLostWakeup
  BY DEF DeliveryInv, SleeperSignalled, NoLostWakeup
<1> QED
  BY <1>1, DeliveryInductive, PTL DEF Spec

\* The registry does not change while rpc_applier walks it without the mutex.
THEOREM RegistryFrozen == Spec => RegistryFrozenWhileApplied
<1>1. DeliveryInv /\ [Next]_vars =>
         [(reader \in {"apply", "applywake"}) => UNCHANGED rpc_states]_vars
  <2> SUFFICES ASSUME DeliveryInv, Next, reader \in {"apply", "applywake"}
               PROVE  UNCHANGED rpc_states
    BY DEF vars
  <2>1. ~rpcserve_alive
    BY DEF DeliveryInv, ReaderPhase
  <2> QED
    BY <2>1 DEF Next, Run, Number, Refuse, Register, Send, Lock, Check, Wait,
       SpuriousWakeup, TakeReply, Proceed, Exit, AssertDies, AssertFails, ReportError,
       Reader, ReaderMisread, ReaderStart, ReaderRecv, ReaderSetMsg, ReaderWake, ReaderFail,
       ReaderApply, ReaderLeave, Host, HostAnswer, HostAbort, HostClose, HostCut
<1> QED
  BY <1>1, DeliveryInductive, PTL DEF Spec, RegistryFrozenWhileApplied
=============================================================================
