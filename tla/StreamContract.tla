--------------------------- MODULE StreamContract ---------------------------
(***************************************************************************)
(* What Flash may rely on for each stream it asked for: newstream, then    *)
(* its bytes in order and no more than arrived, then, once everything that *)
(* arrived was written, destroystream; urlnotify at most once and after    *)
(* destroystream.  When Flash takes less than it is offered of a stream,   *)
(* nothing is promised of the bytes of that stream from then on.  The      *)
(* player may end at any time.                                             *)
(***************************************************************************)
EXTENDS Naturals

CONSTANT Streams

VARIABLES
    phase,      \* per stream: how far Flash has seen it
    arrived,    \* per stream: bytes the host got hold of
    written,    \* per stream: bytes Flash was given
    short,      \* streams of which Flash took less than offered
    complete,   \* per stream: no more bytes will arrive
    running     \* the player runs

cvars == <<phase, arrived, written, short, complete, running>>

Init ==
    /\ phase = [s \in Streams |-> "none"]
    /\ arrived = [s \in Streams |-> 0]
    /\ written = [s \in Streams |-> 0]
    /\ short = {}
    /\ complete = [s \in Streams |-> FALSE]
    /\ running = TRUE

Ask(s) ==
    /\ phase[s] = "none"
    /\ phase' = [phase EXCEPT ![s] = "asked"]
    /\ UNCHANGED <<arrived, written, short, complete, running>>

\* More bytes came, the last ones, or both.
Arrive(s) ==
    /\ phase[s] # "none"
    /\ ~complete[s]
    /\ arrived'[s] >= arrived[s]
    /\ arrived' = [arrived EXCEPT ![s] = arrived'[s]]
    /\ complete'[s] \in BOOLEAN
    /\ complete' = [complete EXCEPT ![s] = complete'[s]]
    /\ UNCHANGED <<phase, written, short, running>>

NewStream(s) ==
    /\ phase[s] = "asked"
    /\ phase' = [phase EXCEPT ![s] = "open"]
    /\ UNCHANGED <<arrived, written, short, complete, running>>

Write(s) ==
    /\ phase[s] = "open"
    /\ s \notin short
    /\ written'[s] > written[s] /\ written'[s] <= arrived[s]
    /\ written' = [written EXCEPT ![s] = written'[s]]
    /\ UNCHANGED <<phase, arrived, short, complete, running>>

\* Flash takes less than it is offered, or did so before.
WriteShort(s) ==
    /\ phase[s] = "open"
    /\ short' = short \cup {s}
    /\ written'[s] >= written[s]
    /\ written' = [written EXCEPT ![s] = written'[s]]
    /\ UNCHANGED <<phase, arrived, complete, running>>

DestroyStream(s) ==
    /\ phase[s] = "open"
    /\ complete[s]
    /\ written[s] = arrived[s] \/ s \in short
    /\ phase' = [phase EXCEPT ![s] = "closed"]
    /\ UNCHANGED <<arrived, written, short, complete, running>>

UrlNotify(s) ==
    /\ phase[s] = "closed"
    /\ phase' = [phase EXCEPT ![s] = "notified"]
    /\ UNCHANGED <<arrived, written, short, complete, running>>

End ==
    /\ running' = FALSE
    /\ UNCHANGED <<phase, arrived, written, short, complete>>

Next ==
    \/ \E s \in Streams :
        \/ Arrive(s)
        \/ running /\ (Ask(s) \/ NewStream(s) \/ Write(s) \/ WriteShort(s)
                       \/ DestroyStream(s) \/ UrlNotify(s))
    \/ End

Spec == Init /\ [][Next]_cvars
=============================================================================
