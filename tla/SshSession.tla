------------------------------ MODULE SshSession ------------------------------
(***************************************************************************)
(* SSH sessions of several processes of one workspace: each connects, runs *)
(* commands side by side on its connection, and closes it.  The abort      *)
(* signal of a process reaches the connection that is being made and every *)
(* command that runs.                                                      *)
(***************************************************************************)
EXTENDS SshConnect, RemoteCommand

CONSTANT ProcessOf  \* the process that runs a command

ASSUME SessionAssumption == ProcessOf \in [Commands -> Processes]

vars == <<pins, hostKey, conn, aborted, rekeys, cmd>>

Init == ConnectInit /\ CommandInit

Connect(p) == (ConnectStep(p) \/ Lost(p)) /\ UNCHANGED cmd

\* The executor hands a command to the connection.
Start(c) ==
  LET p == ProcessOf[c]
  IN /\ conn[p].outcome = "connected"
     /\ Execute(c, conn[p].client = "open", aborted[p])
     /\ UNCHANGED connectVars

Event(c) == ChannelEvent(c) /\ UNCHANGED connectVars
Expire(c) == Timeout(c) /\ UNCHANGED connectVars

\* One abort event runs every listener of the signal.
Abort(p) ==
  /\ AbortConnect(p)
  /\ cmd' = [c \in Commands |-> IF ProcessOf[c] = p THEN Cancelled(cmd[c]) ELSE cmd[c]]

\* The workflow closes the connection, also when it failed with commands
\* still running.
Close(p) == CloseClient(p) /\ UNCHANGED cmd

Reinstall(h) == Rekey(h) /\ UNCHANGED cmd

Next ==
  \/ \E p \in Processes : Connect(p) \/ Abort(p) \/ Close(p)
  \/ \E c \in Commands : Start(c) \/ Event(c) \/ Expire(c)
  \/ \E h \in Contacted : Reinstall(h)

\* connectSsh goes on: its awaits return, the server answers or readyTimeout
\* passes.  A command has a timer.  Nothing is asked of the server.
Fairness ==
  /\ \A p \in Processes : WF_vars(ConnectStep(p) /\ UNCHANGED cmd)
  /\ \A c \in Commands : WF_vars(Expire(c))

Spec == Init /\ [][Next]_vars /\ Fairness

-----------------------------------------------------------------------------
(* Properties. *)

\* What a caller has given up on is closed: a refused connection that became
\* ready, or was waiting for the known-hosts file, and the channel of a command
\* that ended before exec answered.
NothingLeftOpen == NoConnectionLeft /\ NoChannelLeft

\* Every connection attempt and every command ends, whatever the server does.
AlwaysAnswered ==
  /\ \A p \in Processes : <>(conn[p].outcome # "pending")
  /\ \A c \in Commands : Running(cmd[c]) ~> Completed(cmd[c])
=============================================================================
