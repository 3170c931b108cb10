------------------------------ MODULE Wrapper -------------------------------
(***************************************************************************)
(* food_wrapper.c: launchd starts it when a connection comes; it accepts,  *)
(* makes up a secret, registers for the notification of that name, sends   *)
(* the secret to the host and forks a player.  When the notification comes *)
(* it kills the player; after ten idle seconds it exits.                   *)
(*                                                                         *)
(* A player exits when it notices that the host is gone, or for reasons of *)
(* its own, or hangs.  SIGCHLD is ignored: its pid is free at once.        *)
(***************************************************************************)
EXTENDS MovieState, Integers

CONSTANT Pids       \* process numbers the kernel may give to players

\* In watch: no notification of the connection will be reported for its player.
Lost == -1

ASSUME PidsAssumption == 0 \notin Pids /\ Lost \notin Pids

VARIABLES
    wrapper,    \* "none", or where the process is
    cur,        \* the connection it is busy with, 0 if none
    watch,      \* per connection: the pid put into the kqueue for it, 0 or Lost
    pid,        \* per connection: the pid of its player, or 0
    player,     \* per connection: state of its player
    killed      \* history: connections whose player was killed while the
                \* host held them, before a pid was given out twice; not
                \* those whose own notification is lost

wrapperVars == <<wrapper, cur, watch, pid, player, killed>>

WrapperTypeOK ==
    /\ wrapper \in {"none", "wait", "secret", "forked"}
    /\ cur \in Conns \cup {0}
    /\ watch \in [Conns -> Pids \cup {0, Lost}] /\ pid \in [Conns -> Pids \cup {0}]
    /\ player \in [Conns -> {"none", "run", "hung", "dead"}]
    /\ killed \subseteq Conns

WrapperInit ==
    /\ wrapper = "none" /\ cur = 0
    /\ watch = [c \in Conns |-> 0] /\ pid = [c \in Conns |-> 0]
    /\ player = [c \in Conns |-> "none"]
    /\ killed = {}

Alive(c) == player[c] \in {"run", "hung"}
Backlog == {c \in Conns : far[c] = "backlog"}
PidReused == \E c, d \in Conns : c # d /\ pid[c] # 0 /\ pid[c] = pid[d]
Ready == {c \in Conns : watch[c] \in Pids /\ c \in posted}
-----------------------------------------------------------------------------
\* launchd starts the job for a connection.
Launch ==
    /\ wrapper = "none"
    /\ Backlog # {}
    /\ wrapper' = "wait"
    /\ UNCHANGED <<sharedVars, cur, watch, pid, player, killed>>

\* kevent reports the listening socket: accept, register the notification
\* (notify_register_file_descriptor), send set_sekrit on the connection.  A
\* registration that fails is logged; it shows when notify_fd is used (Watch).
Accept ==
    /\ wrapper = "wait"
    /\ \E c \in Backlog : /\ cur' = c
                          /\ far' = [far EXCEPT ![c] = "wrapper"]
                          /\ Send(c, "sekrit")
    /\ wrapper' = "secret"
    /\ UNCHANGED <<file, posted, watch, pid, player, killed>>

\* fork, with a pid that no player uses.
Fork ==
    /\ wrapper = "secret"
    /\ \E p \in Fresh(Pids, {pid[c] : c \in Conns}) :
          /\ \A c \in Conns : pid[c] = p => ~Alive(c)
          /\ pid' = [pid EXCEPT ![cur] = p]
    /\ player' = [player EXCEPT ![cur] = "run"]
    /\ wrapper' = "forked"
    /\ UNCHANGED <<sharedVars, cur, watch, killed>>

\* fork fails, but not for want of memory: the loop goes on, and neither the
\* connection nor the notification is closed.
ForkFails ==
    /\ wrapper = "secret"
    /\ far' = [far EXCEPT ![cur] = "leaked"]
    /\ cur' = 0
    /\ wrapper' = "wait"
    /\ UNCHANGED <<file, wire, posted, watch, pid, player, killed>>

\* The process ends, and with it all it holds; but the players that it forked
\* after a failed fork have inherited that connection.
Exit ==
    /\ wrapper' = "none"
    /\ cur' = 0
    /\ watch' = [c \in Conns |-> 0]
    /\ LET left == IF \E c \in Conns : Alive(c) THEN "inherited" ELSE "gone" IN
       far' = [c \in Conns |-> CASE far[c] = "wrapper" -> "gone"
                                [] far[c] = "leaked"  -> left
                                [] OTHER              -> far[c]]
    /\ UNCHANGED <<file, wire, posted, pid, player, killed>>

\* The last of those players has ended, or there was none.
HeirsEnd(c) ==
    /\ far[c] = "inherited"
    /\ far' = [far EXCEPT ![c] = "gone"]
    /\ UNCHANGED <<file, wire, posted, wrapperVars>>

\* errno == ENOMEM: goto out.
ForkNoMemory == wrapper = "secret" /\ Exit

\* Mutant: the notification is not added to the kqueue.
WatchNot ==
    /\ wrapper = "forked"
    /\ far' = [far EXCEPT ![cur] = IF Alive(cur) THEN "player" ELSE "gone"]
    /\ cur' = 0
    /\ wrapper' = "wait"
    /\ UNCHANGED <<file, wire, posted, watch, pid, player, killed>>

\* The parent: EV_ADD of notify_fd with the pid as udata; close(r).  EV_ADD may
\* fail, which is logged.  When the registration has failed, notify_fd, which
\* nobody initialises, is nothing that EV_ADD takes, or what an earlier turn of
\* the loop left there: the notification of n, whose entry gets the new pid.
Watch ==
    /\ wrapper = "forked"
    /\ \/ watch' = [watch EXCEPT ![cur] = pid[cur]]
       \/ watch' = [watch EXCEPT ![cur] = Lost]
       \/ \E n \in Conns \ {cur} :
             /\ watch[n] \in Pids \/ far[n] = "leaked"
             /\ watch' = [watch EXCEPT ![cur] = Lost, ![n] = pid[cur]]
    /\ far' = [far EXCEPT ![cur] = IF Alive(cur) THEN "player" ELSE "gone"]
    /\ cur' = 0
    /\ wrapper' = "wait"
    /\ UNCHANGED <<file, wire, posted, pid, player, killed>>

\* Mutant: any notification kills any watched player.
KillAny ==
    /\ wrapper = "wait"
    /\ Ready # {}
    /\ \E c \in Conns :
          /\ Alive(c) /\ watch[c] \in Pids
          /\ player' = [player EXCEPT ![c] = "dead"]
          /\ far' = [far EXCEPT ![c] = "gone"]
          /\ killed' = IF HostOpen(c) /\ ~PidReused THEN killed \cup {c} ELSE killed
          /\ watch' = [watch EXCEPT ![c] = 0]
    /\ UNCHANGED <<file, wire, posted, wrapper, cur, pid>>

\* kevent reports a notification: close its descriptor, kill the pid, which
\* may be another player's by now.
Kill ==
    /\ wrapper = "wait"
    /\ \E c \in Ready :
          /\ watch' = [watch EXCEPT ![c] = 0]
          /\ LET hit == {d \in Conns : pid[d] = watch[c] /\ Alive(d)} IN
             /\ player' = [d \in Conns |-> IF d \in hit THEN "dead" ELSE player[d]]
             /\ far' = [d \in Conns |-> IF d \in hit THEN "gone" ELSE far[d]]
             /\ killed' = killed \cup {d \in hit : HostOpen(d) /\ ~PidReused /\ watch[d] # Lost}
    /\ UNCHANGED <<file, wire, posted, wrapper, cur, pid>>

\* goto out: kevent reports nothing for ten seconds, or fails, or accept does.
LoopEnds == wrapper = "wait" /\ Exit
-----------------------------------------------------------------------------
(* The players.                                                            *)

\* The end of c's player, and of its end of the connection.
PlayerEnds(c) ==
    /\ player' = [player EXCEPT ![c] = "dead"]
    /\ far' = [far EXCEPT ![c] = IF @ = "player" THEN "gone" ELSE @]

\* The host is gone: the reader sees the end, error() exits (RpcCall).
PlayerLeaves(c) ==
    /\ player[c] = "run"
    /\ ~HostOpen(c)
    /\ PlayerEnds(c)
    /\ UNCHANGED <<file, wire, posted, wrapper, cur, watch, pid, killed>>

\* do_abort: abort_msg, then exit; or exit without a word.
PlayerAborts(c) ==
    /\ player[c] = "run"
    /\ PlayerEnds(c)
    /\ \/ Send(c, "abort")
       \/ UNCHANGED wire
    /\ UNCHANGED <<file, posted, wrapper, cur, watch, pid, killed>>

PlayerHangs(c) ==
    /\ player[c] = "run"
    /\ player' = [player EXCEPT ![c] = "hung"]
    /\ UNCHANGED <<sharedVars, wrapper, cur, watch, pid, killed>>

WrapperStep ==
    \/ Launch \/ Accept \/ Fork \/ ForkFails \/ ForkNoMemory
    \/ Watch \/ Kill

WrapperNext ==
    \/ WrapperStep \/ LoopEnds
    \/ \E c \in Conns : HeirsEnd(c) \/ PlayerLeaves(c) \/ PlayerAborts(c) \/ PlayerHangs(c)
=============================================================================
