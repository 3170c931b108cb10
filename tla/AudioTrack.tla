----------------------------- MODULE AudioTrack -----------------------------
(***************************************************************************)
(* An audio track of the player (food/anp.cpp, ANPAudioTrackInterfaceV0)   *)
(* over an AudioQueue of the system.                                       *)
(*                                                                         *)
(* Every start makes a thread, audiotrack_starter, which has Flash fill    *)
(* the two buffers for the first time; afterwards the queue's own thread   *)
(* gives each buffer back when it has been played.  Both go through        *)
(* trackCallbackProc, under the track's mutex.  Flash starts, pauses,      *)
(* stops (also from its callback) and deletes the track.                   *)
(*                                                                         *)
(* The queue is external: it plays what it is given in order, refuses a    *)
(* buffer that it already has, and calls nobody once it is disposed of.    *)
(* aqtry turns a refusal into the end of the player.                       *)
(***************************************************************************)
EXTENDS Naturals, Sequences

CONSTANT MaxStarts      \* bound: calls of start

ASSUME StartsAssumption == MaxStarts \in Nat

Starters == 1..MaxStarts
QueueThread == 0
Threads == Starters \cup {QueueThread}
Buffers == {"buf1", "buf2"}     \* buf3 is allocated and never used

VARIABLES
    track,      \* the ANPAudioTrack: "none", "live" or "freed"
    stopped,    \* its flag
    mu,         \* its mutex is held
    aq,         \* state of the queue
    queued,     \* the buffers the queue has, the one it plays first
    flash,      \* what Flash's thread is in the middle of
    starts,     \* starts so far; thread n belongs to the n-th
    pc,         \* per thread: where it is
    buf,        \* per thread: the buffer it is called for
    early,      \* history: start or deleteTrack while a thread was busy with
                \* the track, or start while the queue had a buffer
    harm        \* what went wrong; then the player is gone or undefined

vars == <<track, stopped, mu, aq, queued, flash, starts, pc, buf, early, harm>>

TypeOK ==
    /\ track \in {"none", "live", "freed"}
    /\ stopped \in BOOLEAN
    /\ mu \in BOOLEAN
    /\ aq \in {"idle", "running", "paused", "stopping", "disposed"}
    /\ queued \in Seq(Buffers)
    /\ flash \in {"idle", "start", "delete"}
    /\ starts \in 0..MaxStarts
    /\ pc \in [Threads -> {"rest", "lock", "fill"}]
    /\ buf \in [Threads -> Buffers]
    /\ early \in BOOLEAN
    /\ harm \subseteq {"aborted", "freed", "overwritten"}

Init ==
    /\ track = "none" /\ stopped = TRUE /\ mu = FALSE
    /\ aq = "idle" /\ queued = <<>>
    /\ flash = "idle" /\ starts = 0
    /\ pc = [t \in Threads |-> "rest"] /\ buf = [t \in Threads |-> "buf1"]
    /\ early = FALSE /\ harm = {}

InQueue(b) == \E i \in DOMAIN queued : queued[i] = b
Busy == \E t \in Threads : pc[t] # "rest"
InCallback == \E t \in Threads : pc[t] = "fill"
Idle == flash = "idle" /\ track = "live"
-----------------------------------------------------------------------------
(* Flash's calls.                                                          *)

NewTrack ==
    /\ track = "none"
    /\ track' = "live"
    /\ stopped' = TRUE
    /\ UNCHANGED <<mu, aq, queued, flash, starts, pc, buf, early, harm>>

\* start: the flag, and the thread, which runs before or after the rest.
Start ==
    /\ Idle
    /\ starts < MaxStarts
    /\ stopped' = FALSE
    /\ starts' = starts + 1
    /\ pc' = [pc EXCEPT ![starts + 1] = "lock"]
    /\ early' = (early \/ Busy \/ queued # <<>>)
    /\ flash' = "start"
    /\ UNCHANGED <<track, mu, aq, queued, buf, harm>>

\* The rest of start: AudioQueueStart.
StartQueue ==
    /\ flash = "start"
    /\ flash' = "idle"
    /\ aq' = "running"
    /\ UNCHANGED <<track, stopped, mu, queued, starts, pc, buf, early, harm>>

Pause ==
    /\ Idle
    /\ stopped' = TRUE
    /\ aq' = IF aq = "running" THEN "paused" ELSE aq
    /\ UNCHANGED <<track, mu, queued, flash, starts, pc, buf, early, harm>>

\* stop: the queue stops when it has played what it has.  A callback may stop the
\* track before the start that led to it has got to AudioQueueStart.
Stop ==
    /\ track = "live"
    /\ flash = "idle" \/ (flash = "start" /\ InCallback)
    /\ stopped' = TRUE
    /\ aq' = IF aq = "idle" THEN "idle" ELSE "stopping"
    /\ UNCHANGED <<track, mu, queued, flash, starts, pc, buf, early, harm>>

\* deleteTrack: AudioQueueDispose, and then delete.
DisposeQueue ==
    /\ Idle
    /\ aq' = "disposed"
    /\ queued' = <<>>
    /\ early' = (early \/ Busy)
    /\ flash' = "delete"
    /\ UNCHANGED <<track, stopped, mu, starts, pc, buf, harm>>

FreeTrack ==
    /\ flash = "delete"
    /\ flash' = "idle"
    /\ track' = "freed"
    /\ UNCHANGED <<stopped, mu, aq, queued, starts, pc, buf, early, harm>>
-----------------------------------------------------------------------------
(* trackCallbackProc.                                                      *)

Hurt(what) ==
    /\ harm' = harm \cup {what}
    /\ UNCHANGED <<track, stopped, mu, aq, queued, flash, starts, pc, buf, early>>

\* Mutant: the callback does not take the mutex.
EnterUnlocked(t) ==
    /\ pc[t] = "lock" /\ track = "live"
    /\ pc' = [pc EXCEPT ![t] = "fill"]
    /\ UNCHANGED <<track, stopped, mu, aq, queued, flash, starts, buf, early, harm>>

\* The mutex is taken; Flash fills the buffer.
Enter(t) ==
    /\ pc[t] = "lock" /\ track = "live"
    /\ ~mu
    /\ mu' = TRUE
    /\ pc' = [pc EXCEPT ![t] = "fill"]
    /\ harm' = IF InQueue(buf[t]) THEN harm \cup {"overwritten"} ELSE harm
    /\ UNCHANGED <<track, stopped, aq, queued, flash, starts, buf, early>>

\* Mutant: the starter fills one buffer only.
ReturnOnce(t) == pc' = [pc EXCEPT ![t] = "rest"] /\ UNCHANGED buf

\* What comes next: the starter has a second buffer to fill.
Return(t) ==
    IF t # QueueThread /\ buf[t] = "buf1"
    THEN pc' = [pc EXCEPT ![t] = "lock"] /\ buf' = [buf EXCEPT ![t] = "buf2"]
    ELSE pc' = [pc EXCEPT ![t] = "rest"] /\ UNCHANGED buf

\* Mutant: the mutex is not given back.
LeaveLocked(t) ==
    /\ pc[t] = "fill" /\ track = "live"
    /\ aq # "disposed" /\ ~InQueue(buf[t])
    /\ queued' = Append(queued, buf[t])
    /\ Return(t)
    /\ UNCHANGED <<track, stopped, mu, aq, flash, starts, early, harm>>

\* callbackProc has returned: the buffer is enqueued and the mutex given back.
Leave(t) ==
    /\ pc[t] = "fill" /\ track = "live"
    /\ aq # "disposed" /\ ~InQueue(buf[t])
    /\ queued' = Append(queued, buf[t])
    /\ mu' = FALSE
    /\ Return(t)
    /\ UNCHANGED <<track, stopped, aq, flash, starts, early, harm>>

\* Enqueueing fails.
LeaveRefused(t) ==
    /\ pc[t] = "fill" /\ track = "live"
    /\ aq = "disposed" \/ InQueue(buf[t])
    /\ Hurt("aborted")

\* The mutex or the queue is asked of a track that is no more.
UseFreed(t) ==
    /\ pc[t] # "rest" /\ track = "freed"
    /\ Hurt("freed")
-----------------------------------------------------------------------------
(* The queue.                                                              *)

\* A buffer has been played: the queue's thread calls back for it.
Played ==
    /\ aq \in {"running", "stopping"}
    /\ queued # <<>>
    /\ pc[QueueThread] = "rest"
    /\ buf' = [buf EXCEPT ![QueueThread] = Head(queued)]
    /\ queued' = Tail(queued)
    /\ pc' = [pc EXCEPT ![QueueThread] = "lock"]
    /\ UNCHANGED <<track, stopped, mu, aq, flash, starts, early, harm>>

\* The stop takes effect; what is still enqueued is given up.
StopTakesEffect ==
    /\ aq = "stopping"
    /\ pc[QueueThread] = "rest"
    /\ aq' = "idle"
    /\ queued' = <<>>
    /\ UNCHANGED <<track, stopped, mu, flash, starts, pc, buf, early, harm>>
-----------------------------------------------------------------------------
CallbackStep(t) == Leave(t) \/ LeaveRefused(t) \/ UseFreed(t)

Next ==
    /\ harm = {}
    /\ \/ NewTrack \/ Start \/ StartQueue \/ Pause \/ Stop
       \/ DisposeQueue \/ FreeTrack
       \/ \E t \in Threads : Enter(t) \/ CallbackStep(t)
       \/ Played \/ StopTakesEffect

\* Flash's callback returns, start runs on, the queue plays, and the mutex,
\* free for the length of a buffer between two of the queue's callbacks, is
\* got by a starter that waits for it.
Fairness ==
    /\ WF_vars(harm = {} /\ StartQueue)
    /\ WF_vars(harm = {} /\ Played)
    /\ \A t \in Threads : /\ WF_vars(harm = {} /\ CallbackStep(t))
                          /\ SF_vars(harm = {} /\ Enter(t))

Spec == Init /\ [][Next]_vars
FairSpec == Spec /\ Fairness
-----------------------------------------------------------------------------
(* Properties.                                                             *)

\* Two threads never have Flash fill buffers of the track at once; and unless
\* the track was started or deleted early, no buffer is filled while the queue
\* has it, the queue refuses none, and nobody uses the track after delete.
FilledAlone ==
    /\ \A t, u \in Threads : pc[t] = "fill" /\ pc[u] = "fill" => t = u
    /\ harm # {} => early

\* While the track plays no buffer drops out of the round, unless it was
\* started or deleted early: the queue has it, or a thread will fill it.
NoBufferLost ==
    ~early /\ aq = "running" =>
        \A b \in Buffers :
            \/ InQueue(b)
            \/ \E t \in Threads :
                  pc[t] # "rest" /\ (buf[t] = b \/ (t # QueueThread /\ buf[t] = "buf1"))

\* While the track plays, each buffer is played and filled again and again.
KeepsPlaying ==
    \A b \in Buffers :
        /\ aq = "running" /\ InQueue(b) ~> ~InQueue(b) \/ aq # "running" \/ harm # {}
        /\ aq = "running" /\ ~InQueue(b) ~> InQueue(b) \/ aq # "running" \/ harm # {}
=============================================================================
