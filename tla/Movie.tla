------------------------------- MODULE Movie --------------------------------
(***************************************************************************)
(* A plug-in view with its FServers, the launch wrapper and the players:   *)
(* PluginHost and Wrapper over the connections they share.                 *)
(***************************************************************************)
EXTENDS PluginHost, Wrapper

vars == <<sharedVars, hostVars, wrapperVars>>

Init == SharedInit /\ HostInit /\ WrapperInit

Next ==
    \/ HostNext /\ UNCHANGED wrapperVars
    \/ WrapperNext /\ UNCHANGED hostVars

\* launchd starts the wrapper and the wrapper's loop runs.  Nothing is asked
\* of the host or of the players, which may hang.
Fairness == WF_vars(WrapperStep /\ UNCHANGED hostVars)

Spec == Init /\ [][Next]_vars
FairSpec == Spec /\ Fairness

TypeOK == SharedTypeOK /\ HostTypeOK /\ WrapperTypeOK
-----------------------------------------------------------------------------
(* Properties.                                                             *)

\* Whatever the order of starts, stops, clicks and deaths, at most the
\* view's current FServer has a connection, it has it under the number the
\* dictionary knows, and a view whose number is 0 has none.
OneMovie ==
    \A fd \in Fds : file[fd] # 0 =>
        /\ file[fd] = server /\ servers[fd] = server /\ rpcFd[server] = fd
        /\ rpcfd = fd

\* As long as no descriptor number is given out a second time, an error, a
\* secret and a message reach the FServer or the player they belong to,
\* however late they come.
OwnUntilReuse == wrong = {}

\* The wrapper never kills a player whose movie still runs, unless the
\* kernel gave the pid of a dead player to that one, or a registration that
\* failed put its pid under the notification of another movie.
KillsOnlyTheStopped == killed = {}

\* A player whose secret the host has posted ends, hung or not, as long as
\* the wrapper that forked it lives and got its notification into the kqueue,
\* where a later failure does not overwrite its pid: also when the post comes
\* before that, and when the wrapper is busy with the next movie.
StoppedPlayerEnds ==
    \A c \in Conns :
        Alive(c) /\ c \in posted /\ (watch[c] # 0 \/ cur = c)
            ~> ~Alive(c) \/ wrapper = "none" \/ watch[c] \notin {0, pid[c]}
=============================================================================
