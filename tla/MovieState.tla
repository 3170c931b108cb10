----------------------------- MODULE MovieState -----------------------------
(***************************************************************************)
(* What the processes around one movie share: the host's descriptors, the  *)
(* connections behind them, and the notifications by which the host has a  *)
(* player killed.  Connection c is the one that the c-th FServer makes.    *)
(***************************************************************************)
EXTENDS Naturals, Sequences

CONSTANTS
    Fds,        \* descriptor numbers the host may be given
    MaxConns    \* bound: connections made

ASSUME ConnsAssumption == MaxConns \in Nat /\ 0 \notin Fds

VARIABLES
    file,       \* per descriptor of the host: the connection, 0 if closed
    far,        \* per connection: who holds the other end
    wire,       \* per connection: what is on its way to the host
    posted      \* connections whose secret the host has posted

sharedVars == <<file, far, wire, posted>>

Conns == 1..MaxConns

\* The numbers the kernel may give out: any given out before, or a new one;
\* those it never gave out are all alike.
Fresh(numbers, used) ==
    (numbers \cap used) \cup
    IF numbers \subseteq used THEN {} ELSE {CHOOSE n \in numbers \ used : TRUE}

HostOpen(c) == \E fd \in Fds : file[fd] = c

\* A message to the host; sent to one that has closed, it goes nowhere.
Send(c, m) ==
    wire' = IF HostOpen(c) THEN [wire EXCEPT ![c] = Append(@, m)] ELSE wire

\* What is on its way when the host's descriptors have become f: closing one
\* discards what was not read from it.
StillOpen(f) == [c \in Conns |-> IF \E fd \in Fds : f[fd] = c THEN wire[c] ELSE <<>>]

SharedTypeOK ==
    /\ file \in [Fds -> Conns \cup {0}]
    /\ far \in [Conns -> {"none", "backlog", "wrapper", "leaked", "inherited", "player", "gone"}]
    /\ wire \in [Conns -> Seq({"sekrit", "abort"})]
    /\ posted \subseteq Conns

SharedInit ==
    /\ file = [fd \in Fds |-> 0]
    /\ far = [c \in Conns |-> "none"]
    /\ wire = [c \in Conns |-> <<>>]
    /\ posted = {}
=============================================================================
