-------------------------- MODULE AudioTrackProofs --------------------------
(***************************************************************************)
(* Theorems about AudioTrack, for any number of starts: types, and that    *)
(* Flash fills one buffer at a time and, unless it was early, safely.      *)
(*                                                                         *)
(* The inductive invariant says where each buffer is.  A thread reserves   *)
(* the buffers it is still going to fill; nobody else does, and the queue  *)
(* does not have them, as long as start and deleteTrack came when all      *)
(* threads were at rest.                                                   *)
(***************************************************************************)
EXTENDS AudioTrack, TLAPS

Reserved(t) ==
    IF pc[t] = "rest" THEN {}
    ELSE IF t # QueueThread /\ buf[t] = "buf1" THEN Buffers
    ELSE {buf[t]}

\* No buffer is in the queue twice.
QueuedOnce == \A i, j \in 1..Len(queued) : queued[i] = queued[j] => i = j

\* The mutex is held by the one thread that is in Flash's callback.
Locked ==
    /\ \A t \in Threads : pc[t] = "fill" => mu
    /\ \A t, u \in Threads : pc[t] = "fill" /\ pc[u] = "fill" => t = u

\* The queue is disposed of by deleteTrack only, which Flash calls last.
Disposed ==
    /\ track = "freed" => aq = "disposed" /\ flash = "idle"
    /\ flash # "idle" => track = "live"
    /\ flash = "delete" <=> track = "live" /\ aq = "disposed"
    /\ track = "none" => aq = "idle" /\ \A t \in Threads : pc[t] = "rest"

\* Where the buffers are.
Apart ==
    /\ \A t, u \in Threads : t # u => Reserved(t) \cap Reserved(u) = {}
    /\ \A t \in Threads : \A i \in 1..Len(queued) : queued[i] \notin Reserved(t)
    /\ Busy => track = "live" /\ aq # "disposed"

TrackInv ==
    /\ TypeOK
    /\ QueuedOnce
    /\ Locked
    /\ Disposed
    /\ ~early => Apart /\ harm = {}

\* The initial state satisfies the invariant.
LEMMA InitTrackInv == Init => TrackInv
<1> SUFFICES ASSUME Init PROVE TrackInv
  OBVIOUS
<1>1. TypeOK
  <2>1. starts \in 0..MaxStarts /\ queued \in Seq(Buffers)
    BY StartsAssumption DEF Init
  <2>2. pc \in [Threads -> {"rest", "lock", "fill"}] /\ buf \in [Threads -> Buffers]
    BY DEF Init, Buffers
  <2> QED
    BY <2>1, <2>2 DEF Init, TypeOK
<1>2. QueuedOnce
  BY DEF Init, QueuedOnce
<1>3. Locked /\ Disposed
  BY DEF Init, Locked, Disposed
<1>4. Apart /\ harm = {}
  BY DEF Init, Apart, Reserved, Busy
<1> QED
  BY <1>1, <1>2, <1>3, <1>4 DEF TrackInv

\* Every step keeps the types.
LEMMA TypeStep == TypeOK /\ [Next]_vars => TypeOK'
<1> SUFFICES ASSUME TypeOK, [Next]_vars
             PROVE  TypeOK'
  OBVIOUS
<1> USE StartsAssumption DEF TypeOK, Buffers, Threads, Starters, QueueThread
<1>1. CASE NewTrack BY <1>1 DEF NewTrack
<1>2. CASE Start
  <2>1. starts' \in 0..MaxStarts /\ early' \in BOOLEAN
    BY <1>2 DEF Start, Busy
  <2>2. pc' \in [Threads -> {"rest", "lock", "fill"}]
    BY <1>2 DEF Start
  <2> QED
    BY <1>2, <2>1, <2>2 DEF Start
<1>3. CASE StartQueue BY <1>3 DEF StartQueue
<1>4. CASE Pause BY <1>4 DEF Pause
<1>5. CASE Stop BY <1>5 DEF Stop
<1>6. CASE DisposeQueue BY <1>6 DEF DisposeQueue
<1>7. CASE FreeTrack BY <1>7 DEF FreeTrack
<1>8. ASSUME NEW t \in Threads, Enter(t)
      PROVE  TypeOK'
  BY <1>8 DEF Enter
<1>9. ASSUME NEW t \in Threads, Leave(t)
      PROVE  TypeOK'
  <2>1. buf[t] \in Buffers /\ queued' = Append(queued, buf[t])
    BY <1>9 DEF Leave
  <2>2. queued' \in Seq(Buffers)
    BY <2>1
  <2>3. pc' \in [Threads -> {"rest", "lock", "fill"}] /\ buf' \in [Threads -> Buffers]
    BY <1>9 DEF Leave, Return
  <2> QED
    BY <1>9, <2>2, <2>3 DEF Leave
<1>10. ASSUME NEW t \in Threads, LeaveRefused(t) \/ UseFreed(t)
       PROVE  TypeOK'
  BY <1>10 DEF LeaveRefused, UseFreed, Hurt
<1>11. CASE Played BY <1>11 DEF Played
<1>12. CASE StopTakesEffect BY <1>12 DEF StopTakesEffect
<1>13. CASE UNCHANGED vars BY <1>13 DEF vars
<1> QED
  BY <1>1, <1>2, <1>3, <1>4, <1>5, <1>6, <1>7, <1>8, <1>9, <1>10, <1>11, <1>12, <1>13
     DEF Next, CallbackStep

\* What Played does to the queue.
LEMMA TailFacts ==
    ASSUME TypeOK, queued # <<>>
    PROVE  /\ Head(queued) = queued[1]
           /\ Len(Tail(queued)) = Len(queued) - 1
           /\ \A i \in 1..Len(Tail(queued)) : Tail(queued)[i] = queued[i + 1] /\ i + 1 \in 1..Len(queued)
           /\ 1 \in 1..Len(queued)
  BY DEF TypeOK

\* What Leave does to the queue.
LEMMA AppendFacts ==
    ASSUME TypeOK, NEW b \in Buffers
    PROVE  /\ Len(Append(queued, b)) = Len(queued) + 1
           /\ \A i \in 1..Len(queued) : Append(queued, b)[i] = queued[i]
           /\ Append(queued, b)[Len(queued) + 1] = b
           /\ \A i \in 1..(Len(queued) + 1) : i \in 1..Len(queued) \/ i = Len(queued) + 1
  BY DEF TypeOK

\* Every step keeps the buffers in the queue apart.
LEMMA QueuedOnceStep == TypeOK /\ QueuedOnce /\ [Next]_vars => QueuedOnce'
<1> SUFFICES ASSUME TypeOK, QueuedOnce, [Next]_vars
             PROVE  QueuedOnce'
  OBVIOUS
<1>1. CASE UNCHANGED queued
  BY <1>1 DEF QueuedOnce
<1>2. CASE queued' = <<>>
  BY <1>2 DEF QueuedOnce
<1>3. ASSUME NEW t \in Threads, Leave(t)
      PROVE  QueuedOnce'
  <2>1. buf[t] \in Buffers
    BY <1>3 DEF TypeOK
  <2>2. queued' = Append(queued, buf[t]) /\ \A i \in 1..Len(queued) : queued[i] # buf[t]
    BY <1>3 DEF Leave, InQueue, TypeOK
  <2> QED
    BY <2>1, <2>2, AppendFacts DEF QueuedOnce, TypeOK
<1>4. CASE Played
  BY <1>4, TailFacts DEF Played, QueuedOnce, TypeOK
<1>5. UNCHANGED queued \/ queued' = <<>> \/ (\E t \in Threads : Leave(t)) \/ Played
  BY DEF Next, vars, NewTrack, Start, StartQueue, Pause, Stop, DisposeQueue, FreeTrack, Enter,
     CallbackStep, LeaveRefused, UseFreed, Hurt, StopTakesEffect
<1> QED
  BY <1>1, <1>2, <1>3, <1>4, <1>5

\* Every step keeps the mutex with the thread that is in the callback.
LEMMA LockedStep == TypeOK /\ Locked /\ [Next]_vars => Locked'
<1> SUFFICES ASSUME TypeOK, Locked, [Next]_vars
             PROVE  Locked'
  OBVIOUS
<1>1. CASE UNCHANGED <<mu, pc>>
  BY <1>1 DEF Locked
<1>2. CASE Start
  <2>1. \A t \in Threads : pc'[t] = "fill" => pc[t] = "fill"
    BY <1>2 DEF Start, TypeOK
  <2> QED
    BY <1>2, <2>1 DEF Start, Locked
<1>3. ASSUME NEW t \in Threads, Enter(t)
      PROVE  Locked'
  <2>1. \A u \in Threads : pc[u] # "fill"
    BY <1>3 DEF Enter, Locked
  <2>2. mu' = TRUE /\ \A u \in Threads : pc'[u] = "fill" => u = t
    BY <1>3, <2>1 DEF Enter, TypeOK
  <2> QED
    BY <2>2 DEF Locked
<1>4. ASSUME NEW t \in Threads, Leave(t)
      PROVE  Locked'
  <2>1. \A u \in Threads : pc[u] = "fill" => u = t
    BY <1>4 DEF Leave, Locked
  <2>2. \A u \in Threads : pc'[u] # "fill"
    BY <1>4, <2>1 DEF Leave, Return, TypeOK
  <2> QED
    BY <2>2 DEF Locked
<1>5. CASE Played
  <2>1. \A t \in Threads : pc'[t] = "fill" => pc[t] = "fill"
    BY <1>5 DEF Played, TypeOK
  <2> QED
    BY <1>5, <2>1 DEF Played, Locked
<1>6. UNCHANGED <<mu, pc>> \/ Start \/ (\E t \in Threads : Enter(t) \/ Leave(t)) \/ Played
  BY DEF Next, vars, NewTrack, StartQueue, Pause, Stop, DisposeQueue, FreeTrack,
     CallbackStep, LeaveRefused, UseFreed, Hurt, StopTakesEffect
<1> QED
  BY <1>1, <1>2, <1>3, <1>4, <1>5, <1>6

\* Every step keeps disposal with deleteTrack.
LEMMA DisposedStep == TypeOK /\ Disposed /\ [Next]_vars => Disposed'
<1> SUFFICES ASSUME TypeOK, Disposed, [Next]_vars
             PROVE  Disposed'
  OBVIOUS
<1> USE DEF TypeOK, Disposed
<1>1. CASE NewTrack BY <1>1 DEF NewTrack
<1>2. CASE Start BY <1>2 DEF Start, Idle
<1>3. CASE StartQueue BY <1>3 DEF StartQueue
<1>4. CASE Pause BY <1>4 DEF Pause, Idle
<1>5. CASE Stop BY <1>5 DEF Stop
<1>6. CASE DisposeQueue BY <1>6 DEF DisposeQueue, Idle
<1>7. CASE FreeTrack BY <1>7 DEF FreeTrack
<1>8. ASSUME NEW t \in Threads, Enter(t)
      PROVE  Disposed'
  BY <1>8 DEF Enter
<1>9. ASSUME NEW t \in Threads, Leave(t)
      PROVE  Disposed'
  BY <1>9 DEF Leave
<1>10. ASSUME NEW t \in Threads, LeaveRefused(t) \/ UseFreed(t)
       PROVE  Disposed'
  BY <1>10 DEF LeaveRefused, UseFreed, Hurt
<1>11. CASE Played BY <1>11 DEF Played
<1>12. CASE StopTakesEffect BY <1>12 DEF StopTakesEffect
<1>13. CASE UNCHANGED vars BY <1>13 DEF vars
<1> QED
  BY <1>1, <1>2, <1>3, <1>4, <1>5, <1>6, <1>7, <1>8, <1>9, <1>10, <1>11, <1>12, <1>13
     DEF Next, CallbackStep

\* Every step keeps the buffers in their places, and does no harm, unless
\* Flash is early.
LEMMA ApartStep == TrackInv /\ [Next]_vars => (~early' => Apart' /\ harm' = {})
<1> SUFFICES ASSUME TrackInv, [Next]_vars, ~early'
             PROVE  Apart' /\ harm' = {}
  OBVIOUS
<1>1. TypeOK /\ QueuedOnce /\ Disposed
  BY DEF TrackInv
<1>2. ~early
  BY <1>1 DEF Next, vars, NewTrack, Start, StartQueue, Pause, Stop, DisposeQueue, FreeTrack,
     Enter, CallbackStep, Leave, LeaveRefused, UseFreed, Hurt, Played, StopTakesEffect
<1>3. Apart /\ harm = {}
  BY <1>2 DEF TrackInv
<1>4. \A t \in Threads : pc[t] # "rest" => buf[t] \in Reserved(t) /\ ~InQueue(buf[t])
  <2> SUFFICES ASSUME NEW t \in Threads, pc[t] # "rest"
               PROVE  buf[t] \in Reserved(t) /\ ~InQueue(buf[t])
    OBVIOUS
  <2>1. buf[t] \in Reserved(t)
    BY <1>1 DEF Reserved, TypeOK
  <2> QED
    BY <1>1, <1>3, <2>1 DEF Apart, InQueue, TypeOK
<1>5. CASE UNCHANGED <<track, aq, queued, pc, buf, harm>>
  BY <1>3, <1>5 DEF Apart, Reserved, Busy
<1>6. CASE NewTrack
  BY <1>3, <1>6 DEF NewTrack, Apart, Reserved, Busy
<1>7. CASE Start
  <2>1. queued' = <<>> /\ harm' = {} /\ track' = "live" /\ ~Busy
    BY <1>2, <1>3, <1>7 DEF Start, Idle
  <2>2. aq' # "disposed"
    BY <1>1, <1>7 DEF Start, Idle, Disposed
  <2>3. \A u \in Threads : u # starts + 1 => Reserved(u)' = {}
    BY <1>1, <1>7, <2>1 DEF Start, Reserved, Busy, TypeOK
  <2>4. Len(queued') = 0
    BY <2>1
  <2> QED
    BY <2>1, <2>2, <2>3, <2>4 DEF Apart
<1>8. CASE StartQueue
  BY <1>3, <1>8 DEF StartQueue, Apart, Reserved, Busy
<1>9. CASE Pause
  BY <1>3, <1>9 DEF Pause, Apart, Reserved, Busy
<1>10. CASE Stop
  BY <1>3, <1>10 DEF Stop, Apart, Reserved, Busy
<1>11. CASE DisposeQueue
  <2>1. queued' = <<>> /\ Len(queued') = 0 /\ harm' = {} /\ ~Busy
    BY <1>3, <1>11 DEF DisposeQueue
  <2>2. ~Busy' /\ \A u \in Threads : Reserved(u)' = {}
    BY <1>11, <2>1 DEF DisposeQueue, Reserved, Busy
  <2> QED
    BY <2>1, <2>2 DEF Apart
<1>12. CASE FreeTrack
  <2>1. ~Busy
    BY <1>1, <1>3, <1>12 DEF FreeTrack, Disposed, Apart
  <2> QED
    BY <1>3, <1>12, <2>1 DEF FreeTrack, Apart, Reserved, Busy
<1>13. ASSUME NEW t \in Threads, Enter(t)
       PROVE  Apart' /\ harm' = {}
  <2>1. harm' = {}
    BY <1>3, <1>4, <1>13 DEF Enter
  <2>2. \A u \in Threads : Reserved(u)' = Reserved(u)
    BY <1>1, <1>13 DEF Enter, Reserved, TypeOK
  <2>3. UNCHANGED <<track, aq, queued>> /\ (Busy' => Busy)
    BY <1>13 DEF Enter, Busy
  <2> QED
    BY <1>3, <2>1, <2>2, <2>3 DEF Apart
<1>14. ASSUME NEW t \in Threads, Leave(t)
       PROVE  Apart' /\ harm' = {}
  <2>1. harm' = {} /\ UNCHANGED <<track, aq>> /\ Busy
    BY <1>3, <1>14 DEF Leave, Busy
  <2>2. \A u \in Threads \ {t} : Reserved(u)' = Reserved(u)
    BY <1>1, <1>14 DEF Leave, Return, Reserved, TypeOK
  <2>3. Reserved(t)' \subseteq Reserved(t) /\ buf[t] \notin Reserved(t)'
    <3>1. CASE t # QueueThread /\ buf[t] = "buf1"
      BY <1>1, <1>14, <3>1 DEF Leave, Return, Reserved, Buffers, TypeOK
    <3>2. CASE ~(t # QueueThread /\ buf[t] = "buf1")
      BY <1>1, <1>14, <3>2 DEF Leave, Return, Reserved, TypeOK
    <3> QED
      BY <3>1, <3>2
  <2>4. buf[t] \in Buffers /\ queued' = Append(queued, buf[t]) /\ buf[t] \in Reserved(t)
    BY <1>1, <1>4, <1>14 DEF Leave, TypeOK
  <2>5. \A u \in Threads : Reserved(u)' \subseteq Reserved(u) /\ buf[t] \notin Reserved(u)'
    BY <1>3, <2>2, <2>3, <2>4 DEF Apart
  <2>6. \A u \in Threads : \A i \in 1..Len(queued') : queued'[i] \notin Reserved(u)'
    BY <1>1, <1>3, <2>4, <2>5, AppendFacts DEF Apart
  <2> QED
    BY <1>3, <2>1, <2>5, <2>6 DEF Apart
<1>15. ASSUME NEW t \in Threads, LeaveRefused(t) \/ UseFreed(t)
       PROVE  FALSE
  <2>1. Busy
    BY <1>15 DEF LeaveRefused, UseFreed, Busy
  <2> QED
    BY <1>3, <1>4, <1>15, <2>1 DEF LeaveRefused, UseFreed, Apart
<1>16. CASE Played
  <2>1. harm' = {} /\ UNCHANGED <<track, aq>> /\ aq # "disposed"
    BY <1>3, <1>16 DEF Played
  <2>2. track = "live"
    BY <1>1, <1>16 DEF Played, Disposed, TypeOK
  <2>3. \A u \in Threads \ {QueueThread} : Reserved(u)' = Reserved(u)
    BY <1>1, <1>16 DEF Played, Reserved, TypeOK
  <2>4. QueueThread \in Threads /\ Reserved(QueueThread)' = {queued[1]}
    BY <1>1, <1>16, TailFacts DEF Played, Reserved, TypeOK, Threads
  <2>5. \A u \in Threads \ {QueueThread} : queued[1] \notin Reserved(u)
    BY <1>1, <1>3, <1>16, TailFacts DEF Played, Apart
  <2>6. \A u \in Threads : \A i \in 1..Len(queued') : queued'[i] \notin Reserved(u)'
    <3> SUFFICES ASSUME NEW u \in Threads, NEW i \in 1..Len(queued')
                 PROVE  queued'[i] \notin Reserved(u)'
      OBVIOUS
    <3>1. queued'[i] = queued[i + 1] /\ i + 1 \in 1..Len(queued) /\ 1 \in 1..Len(queued) /\ i + 1 # 1
      BY <1>1, <1>16, TailFacts DEF Played, TypeOK
    <3>2. queued[i + 1] # queued[1]
      BY <1>1, <3>1 DEF QueuedOnce
    <3> QED
      BY <1>3, <2>3, <2>4, <3>1, <3>2 DEF Apart
  <2> QED
    BY <1>3, <2>1, <2>2, <2>3, <2>4, <2>5, <2>6 DEF Apart
<1>17. CASE StopTakesEffect
  <2>1. queued' = <<>> /\ Len(queued') = 0
    BY <1>17 DEF StopTakesEffect
  <2> QED
    BY <1>3, <1>17, <2>1 DEF StopTakesEffect, Apart, Reserved, Busy
<1> QED
  BY <1>5, <1>6, <1>7, <1>8, <1>9, <1>10, <1>11, <1>12, <1>13, <1>14, <1>15, <1>16, <1>17
     DEF Next, CallbackStep, vars
-----------------------------------------------------------------------------
\* Together: the invariant is inductive.
LEMMA TrackInvariant == Spec => []TrackInv
<1>1. TrackInv /\ [Next]_vars => TrackInv'
  BY TypeStep, QueuedOnceStep, LockedStep, DisposedStep, ApartStep DEF TrackInv
<1> QED
  BY InitTrackInv, <1>1, PTL DEF Spec

\* The variables of a track keep their types, whatever Flash, the starters
\* and the queue do.
THEOREM TrackTypes == Spec => []TypeOK
<1>1. TrackInv => TypeOK
  BY DEF TrackInv
<1> QED
  BY <1>1, TrackInvariant, PTL

\* The two threads behind trackCallbackProc never have Flash fill buffers at
\* once; and for any number of starts nothing but an early start or delete
\* leads to a buffer filled while it plays, to a refusal or to a use of the
\* track after delete.
THEOREM TrackFilledAlone == Spec => []FilledAlone
<1>1. TrackInv => FilledAlone
  BY DEF TrackInv, Locked, FilledAlone
<1> QED
  BY <1>1, TrackInvariant, PTL
-----------------------------------------------------------------------------
(* The buffers stay in the round.                                          *)

\* The queue has the buffer, or a thread that is at it will fill it.
InRound(b) == InQueue(b) \/ \E t \in Threads : b \in Reserved(t)

\* Threads that were not started yet would begin with the first buffer.
Unstarted == \A t \in Starters : starts < t => pc[t] = "rest" /\ buf[t] = "buf1"

\* Both buffers are in the round as soon as the starter runs; a start that is
\* not early finds the queue idle, for a queue in any other state has them.
Round ==
    ~early =>
        /\ aq \in {"running", "paused", "stopping"} \/ flash = "start" =>
              \A b \in Buffers : InRound(b)
        /\ flash = "start" => aq = "idle"

\* Starters begin in order.
LEMMA UnstartedStep == TypeOK /\ Unstarted /\ [Next]_vars => Unstarted'
<1> SUFFICES ASSUME TypeOK, Unstarted, [Next]_vars PROVE Unstarted'
  OBVIOUS
<1> USE StartsAssumption
<1>1. CASE UNCHANGED <<starts, pc, buf>>
  BY <1>1 DEF Unstarted
<1>2. CASE Start
  <2>1. starts \in Nat /\ starts' = starts + 1 /\ buf' = buf
        /\ \A t \in Threads : t # starts + 1 => pc'[t] = pc[t]
    BY <1>2 DEF Start, TypeOK
  <2> QED
    BY <2>1 DEF Unstarted, Starters, Threads
<1>3. ASSUME NEW t \in Threads, pc[t] # "rest",
             \A u \in Threads : u # t => pc'[u] = pc[u] /\ buf'[u] = buf[u], starts' = starts
      PROVE  Unstarted'
  BY <1>3 DEF Unstarted, Threads
<1>4. ASSUME NEW t \in Threads, Enter(t) PROVE Unstarted'
  BY <1>3, <1>4 DEF Enter, TypeOK
<1>5. ASSUME NEW t \in Threads, Leave(t) PROVE Unstarted'
  <2>1. pc[t] # "rest" /\ starts' = starts
        /\ \A u \in Threads : u # t => pc'[u] = pc[u] /\ buf'[u] = buf[u]
    BY <1>5 DEF Leave, Return, TypeOK
  <2> QED
    BY <1>3, <2>1
<1>6. CASE Played
  <2>1. starts' = starts /\ \A t \in Starters : pc'[t] = pc[t] /\ buf'[t] = buf[t]
    BY <1>6 DEF Played, TypeOK, Threads, Starters, QueueThread
  <2> QED
    BY <2>1 DEF Unstarted
<1>7. \/ UNCHANGED <<starts, pc, buf>> \/ Start \/ Played
      \/ \E t \in Threads : Enter(t) \/ Leave(t)
  BY DEF Next, vars, NewTrack, StartQueue, Pause, Stop, DisposeQueue, FreeTrack,
     CallbackStep, LeaveRefused, UseFreed, Hurt, StopTakesEffect
<1> QED
  BY <1>1, <1>2, <1>4, <1>5, <1>6, <1>7

\* A thread takes a buffer out of the queue to fill it, and puts it back.
LEMMA RoundStep == TrackInv /\ Unstarted /\ Round /\ [Next]_vars => Round'
<1> SUFFICES ASSUME TrackInv, Unstarted, Round, [Next]_vars, ~early'
             PROVE  /\ aq' \in {"running", "paused", "stopping"} \/ flash' = "start" =>
                          \A b \in Buffers : InRound(b)'
                    /\ flash' = "start" => aq' = "idle"
  BY DEF Round
<1>1. TypeOK /\ QueuedOnce /\ Disposed
  BY DEF TrackInv
<1>2. ~early
  BY <1>1 DEF Next, vars, NewTrack, Start, StartQueue, Pause, Stop, DisposeQueue, FreeTrack,
     Enter, CallbackStep, Leave, LeaveRefused, UseFreed, Hurt, Played, StopTakesEffect
<1>3. /\ aq \in {"running", "paused", "stopping"} \/ flash = "start" => \A b \in Buffers : InRound(b)
      /\ flash = "start" => aq = "idle"
  BY <1>2 DEF Round
<1>4. CASE \/ NewTrack \/ StartQueue \/ Pause \/ Stop \/ FreeTrack \/ UNCHANGED vars
           \/ \E t \in Threads : LeaveRefused(t) \/ UseFreed(t)
  <2>1. UNCHANGED <<queued, pc, buf>>
    BY <1>4 DEF NewTrack, StartQueue, Pause, Stop, FreeTrack, vars, LeaveRefused, UseFreed, Hurt
  <2>2. \A b : InRound(b)' = InRound(b)
    BY <2>1 DEF InRound, InQueue, Reserved
  <2>3. /\ aq' \in {"running", "paused", "stopping"} =>
              aq \in {"running", "paused", "stopping"} \/ flash = "start"
        /\ flash' = "start" => flash = "start" /\ aq' = aq
    <3>1. CASE StartQueue
      BY <3>1 DEF StartQueue
    <3>2. CASE Pause
      BY <3>2 DEF Pause, Idle
    <3>3. CASE Stop
      <4>1. /\ aq # "disposed" /\ flash' = flash
            /\ aq' = IF aq = "idle" THEN "idle" ELSE "stopping"
        BY <1>1, <3>3 DEF Stop, Disposed
      <4> QED
        BY <1>1, <1>3, <4>1 DEF TypeOK
    <3>4. CASE FreeTrack
      BY <3>4 DEF FreeTrack
    <3>5. CASE \/ NewTrack \/ UNCHANGED vars \/ \E t \in Threads : LeaveRefused(t) \/ UseFreed(t)
      <4>1. UNCHANGED <<aq, flash>>
        BY <3>5 DEF NewTrack, vars, LeaveRefused, UseFreed, Hurt
      <4> QED
        BY <4>1
    <3> QED
      BY <1>4, <3>1, <3>2, <3>3, <3>4, <3>5
  <2> QED
    BY <1>3, <2>2, <2>3
<1>5. CASE Start
  <2>0. track = "live" /\ flash = "idle" /\ queued = <<>> /\ ~Busy /\ aq' = aq
    BY <1>2, <1>5 DEF Start, Idle
  <2>1. /\ track = "live" /\ flash = "idle" /\ queued = <<>> /\ ~Busy
        /\ starts \in Nat /\ starts < MaxStarts /\ aq' = aq
    BY <1>1, <1>5, <2>0 DEF Start, TypeOK
  <2>2. starts + 1 \in Starters /\ starts < starts + 1
    BY <2>1, StartsAssumption DEF Starters
  <2>3. /\ starts + 1 \in Threads /\ starts + 1 # QueueThread
        /\ pc'[starts + 1] = "lock" /\ buf'[starts + 1] = "buf1"
    <3>1. starts + 1 \in Threads /\ starts + 1 # QueueThread
      BY <2>1, <2>2 DEF Threads, QueueThread
    <3> QED
      BY <1>1, <1>5, <2>2, <3>1 DEF Start, TypeOK, Unstarted
  <2>4. \A b \in Buffers : InRound(b)'
    BY <2>3 DEF InRound, Reserved
  <2>5. ~InRound("buf1")
    <3>1. DOMAIN queued = {}
      BY <2>1
    <3> QED
      BY <2>1, <3>1 DEF InRound, InQueue, Reserved, Busy
  <2>6. aq = "idle"
    <3>1. aq \notin {"running", "paused", "stopping"}
      BY <1>3, <2>5 DEF Buffers
    <3>2. aq # "disposed"
      BY <1>1, <2>1 DEF Disposed
    <3> QED
      BY <1>1, <3>1, <3>2 DEF TypeOK
  <2> QED
    BY <2>1, <2>4, <2>6
<1>6. CASE DisposeQueue
  BY <1>6 DEF DisposeQueue
<1>7. ASSUME NEW t \in Threads, Enter(t)
      PROVE  UNCHANGED <<aq, flash>> /\ \A b : InRound(b)' = InRound(b)
  <2>1. \A u \in Threads : Reserved(u)' = Reserved(u)
    BY <1>1, <1>7 DEF Enter, Reserved, TypeOK
  <2> QED
    BY <1>7, <2>1 DEF Enter, InRound, InQueue
<1>8. ASSUME NEW t \in Threads, Leave(t)
      PROVE  UNCHANGED <<aq, flash>> /\ \A b \in Buffers : InRound(b) => InRound(b)'
  <2>0. PICK c : c = buf[t]
    OBVIOUS
  <2>1. UNCHANGED <<aq, flash>> /\ queued' = Append(queued, c) /\ c \in Buffers
    BY <1>1, <1>8, <2>0 DEF Leave, TypeOK
  <2>2. InQueue(c)' /\ \A b : InQueue(b) => InQueue(b)'
    <3>1. /\ DOMAIN queued' = 1..Len(queued) + 1 /\ DOMAIN queued = 1..Len(queued)
          /\ Len(queued) \in Nat
      BY <1>1, <2>1 DEF TypeOK
    <3>2. \A i \in 1..Len(queued) : queued'[i] = queued[i]
      BY <1>1, <2>1, AppendFacts
    <3>3. queued'[Len(queued) + 1] = c
      BY <1>1, <2>1, AppendFacts
    <3>4. ASSUME NEW b, InQueue(b) PROVE \E i \in DOMAIN queued' : queued'[i] = b
      BY <3>1, <3>2, <3>4 DEF InQueue
    <3>5. \E i \in DOMAIN queued' : queued'[i] = c
      BY <3>1, <3>3
    <3> QED
      BY <3>4, <3>5 DEF InQueue
  <2>3. \A u \in Threads \ {t} : Reserved(u)' = Reserved(u)
    BY <1>1, <1>8 DEF Leave, Return, Reserved, TypeOK
  <2>4. \A b \in Reserved(t) : b = c \/ b \in Reserved(t)'
    <3>1. CASE t # QueueThread /\ buf[t] = "buf1"
      BY <1>1, <1>8, <2>0, <3>1 DEF Leave, Return, Reserved, Buffers, TypeOK
    <3>2. CASE ~(t # QueueThread /\ buf[t] = "buf1")
      BY <2>0, <3>2 DEF Reserved
    <3> QED
      BY <3>1, <3>2
  <2> QED
    BY <2>1, <2>2, <2>3, <2>4 DEF InRound
<1>9. CASE Played
  <2>1. /\ UNCHANGED <<aq, flash>> /\ queued # <<>> /\ pc[QueueThread] = "rest"
        /\ queued' = Tail(queued) /\ QueueThread \in Threads
    BY <1>9 DEF Played, Threads
  <2>2. Reserved(QueueThread) = {} /\ Reserved(QueueThread)' = {queued[1]}
    BY <1>1, <1>9, <2>1, TailFacts DEF Played, Reserved, TypeOK
  <2>3. \A u \in Threads \ {QueueThread} : Reserved(u)' = Reserved(u)
    BY <1>1, <1>9 DEF Played, Reserved, TypeOK
  <2>4. ASSUME NEW b, InQueue(b) PROVE b = queued[1] \/ \E i \in DOMAIN queued' : queued'[i] = b
    <3>1. PICK i \in 1..Len(queued) : queued[i] = b
      BY <1>1, <2>4 DEF InQueue, TypeOK
    <3>2. CASE i = 1
      BY <3>1, <3>2
    <3>3. CASE i # 1
      <4>1. i - 1 \in 1..Len(queued') /\ queued'[i - 1] = queued[i] /\ DOMAIN queued' = 1..Len(queued')
        BY <1>1, <2>1, <3>3, TailFacts DEF TypeOK
      <4> QED
        BY <3>1, <4>1
    <3> QED
      BY <3>2, <3>3
  <2>5. \A b : InQueue(b) => b = queued[1] \/ InQueue(b)'
    BY <2>4 DEF InQueue
  <2>6. \A b : InRound(b) => InRound(b)'
    BY <2>1, <2>2, <2>3, <2>5 DEF InRound
  <2> QED
    BY <1>3, <2>1, <2>6
<1>10. CASE StopTakesEffect
  <2>1. aq = "stopping" /\ aq' = "idle" /\ flash' = flash
    BY <1>10 DEF StopTakesEffect
  <2> QED
    BY <1>3, <2>1
<1>11. CASE \E t \in Threads : Enter(t) \/ Leave(t)
  BY <1>3, <1>7, <1>8, <1>11
<1> QED
  BY <1>4, <1>5, <1>6, <1>9, <1>10, <1>11 DEF Next, CallbackStep

\* A track that plays, and was not started or deleted early, has each of its
\* two buffers in the queue or in the hands of a thread that will fill it: no
\* pause, stop or start makes the sound run dry.
THEOREM BuffersInRound == Spec => []NoBufferLost
<1>1. Init => Unstarted /\ Round
  BY DEF Init, Unstarted, Round, Threads
<1>2. Spec => [](TrackInv /\ Unstarted /\ Round)
  <2>1. TrackInv /\ Unstarted /\ [Next]_vars => Unstarted'
    BY UnstartedStep DEF TrackInv
  <2> QED
    BY <1>1, <2>1, RoundStep, TrackInvariant, PTL DEF Spec
<1>3. TrackInv /\ Round => NoBufferLost
  <2> SUFFICES ASSUME Round, ~early, aq = "running", NEW b \in Buffers, ~InQueue(b)
               PROVE  \E t \in Threads :
                        pc[t] # "rest" /\ (buf[t] = b \/ (t # QueueThread /\ buf[t] = "buf1"))
    BY DEF NoBufferLost
  <2>1. PICK t \in Threads : b \in Reserved(t)
    BY DEF Round, InRound
  <2> QED
    BY <2>1 DEF Reserved
<1> QED
  BY <1>2, <1>3, PTL
=============================================================================
