----------------------------- MODULE RpcChannel -----------------------------
(***************************************************************************)
(* What the RPC runtime promises of its connections: the receiver gets the *)
(* messages handed to xsend, whole, in the order in which xsend took them, *)
(* each once.  A connection may break; from then on something else may     *)
(* come out of it, and on the other connections nothing changes.           *)
(***************************************************************************)
EXTENDS Naturals, Sequences

CONSTANTS Fds,          \* the connections
          Messages      \* what may be sent

VARIABLES sent,         \* sent[f]: messages taken for connection f
          got,          \* got[f]: messages received from connection f
          broken        \* connections that are broken

vars == <<sent, got, broken>>

Init == /\ sent = [f \in Fds |-> <<>>]
        /\ got = [f \in Fds |-> <<>>]
        /\ broken = {}

Send(f) == /\ \E m \in Messages : sent' = [sent EXCEPT ![f] = Append(@, m)]
           /\ UNCHANGED <<got, broken>>

Receive(f) == /\ Len(got[f]) < Len(sent[f])
              /\ got' = [got EXCEPT ![f] = Append(@, sent[f][Len(@) + 1])]
              /\ UNCHANGED <<sent, broken>>

Break(f) == /\ broken' = broken \cup {f}
            /\ UNCHANGED <<sent, got>>

\* Something, intact or not, comes out of a broken connection.
Garble(f) == /\ f \in broken
             /\ got' = [got EXCEPT ![f] = got'[f]]
             /\ UNCHANGED <<sent, broken>>

Next == \E f \in Fds : Send(f) \/ Receive(f) \/ Break(f) \/ Garble(f)

Spec == Init /\ [][Next]_vars
=============================================================================
