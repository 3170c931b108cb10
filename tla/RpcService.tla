----------------------------- MODULE RpcService -----------------------------
(***************************************************************************)
(* What a synchronous stub of the RPC runtime promises the thread that     *)
(* calls it: the call comes back at most once, either with the status the  *)
(* host gave for this very call, or with status 2, and with status 2 only  *)
(* while the connection is not being served.  Once a message was cut by a  *)
(* timeout of the host, a call may come back with any status.              *)
(* RpcCall is shown to implement this specification.                       *)
(***************************************************************************)
CONSTANTS Callers,      \* the threads of the player process
          Statuses,     \* what a handler of the host may return
          Failed,       \* status 2 of the stub: nobody serves the connection
          NoResult      \* no status yet

VARIABLES link,     \* "starting", "up" or "lost"
          phase,    \* phase[c]: where the call of thread c is
          result,   \* result[c]: what the host said or the stub returned
          broken    \* a message was cut

vars == <<link, phase, result, broken>>

TypeOK ==
    /\ link \in {"starting", "up", "lost"}
    /\ phase \in [Callers -> {"idle", "asked", "answered", "returned"}]
    /\ result \in [Callers -> Statuses \cup {Failed, NoResult}]
    /\ broken \in BOOLEAN

Init ==
    /\ link = "starting"
    /\ phase = [c \in Callers |-> "idle"]
    /\ result = [c \in Callers |-> NoResult]
    /\ broken = FALSE

GoUp   == link = "starting" /\ link' = "up"   /\ UNCHANGED <<phase, result, broken>>
GoLost == link = "up"       /\ link' = "lost" /\ UNCHANGED <<phase, result, broken>>
Break  == broken' = TRUE /\ UNCHANGED <<link, phase, result>>

Ask(c) ==
    /\ phase[c] = "idle"
    /\ phase' = [phase EXCEPT ![c] = "asked"]
    /\ UNCHANGED <<link, result, broken>>

Answer(c) ==
    /\ phase[c] = "asked"
    /\ phase' = [phase EXCEPT ![c] = "answered"]
    /\ \E s \in Statuses : result' = [result EXCEPT ![c] = s]
    /\ UNCHANGED <<link, broken>>

Return(c) ==
    /\ phase[c] = "answered"
    /\ phase' = [phase EXCEPT ![c] = "returned"]
    /\ UNCHANGED <<link, result, broken>>

\* An answer that was given may still be lost together with the connection.
ReturnFailed(c) ==
    /\ phase[c] \in {"asked", "answered"}
    /\ link # "up"
    /\ phase' = [phase EXCEPT ![c] = "returned"]
    /\ result' = [result EXCEPT ![c] = Failed]
    /\ UNCHANGED <<link, broken>>

Garble(c) ==
    /\ broken
    /\ phase[c] \in {"asked", "answered"}
    /\ phase' = [phase EXCEPT ![c] = "returned"]
    /\ \E s \in Statuses \cup {Failed} : result' = [result EXCEPT ![c] = s]
    /\ UNCHANGED <<link, broken>>

Leave(c) ==
    /\ phase[c] = "returned"
    /\ phase' = [phase EXCEPT ![c] = "idle"]
    /\ result' = [result EXCEPT ![c] = NoResult]
    /\ UNCHANGED <<link, broken>>

Next ==
    \/ GoUp
    \/ GoLost
    \/ Break
    \/ \E c \in Callers :
          \/ Ask(c) \/ Answer(c) \/ Return(c) \/ ReturnFailed(c)
          \/ Garble(c) \/ Leave(c)

Spec == Init /\ [][Next]_vars
=============================================================================
