---------------------------- MODULE RemoteCommand ----------------------------
(***************************************************************************)
(* executeRaw: one remote command on a channel of its own.  Its timer, the *)
(* abort signal, the callback of exec and the events of the channel come   *)
(* in any order; the first that ends the command decides its result.       *)
(***************************************************************************)
EXTENDS Integers

CONSTANTS
  Commands,
  MaxOutputBytes,
  Exits,      \* what classifyExit makes of an exit code and stderr
  Chunks,     \* lengths of chunks of output
  MaxReceived \* bound: output of a command

ASSUME CommandAssumption ==
  /\ MaxOutputBytes \in Nat
  /\ Exits \subseteq {"success", "permission_denied", "command_missing", "failed"}
  /\ Chunks \subseteq Nat \ {0}
  /\ MaxReceived \in Nat

VARIABLE cmd

\* exit: what the exit code stands for; forced: forcedStatus;
\* stored, received: bytes of output until the result was made; what comes
\* later goes into buffers that nobody reads any more, and is left out.
NotStarted ==
  [channel |-> "none", exit |-> "none", forced |-> "none", stored |-> 0,
   received |-> 0, result |-> "none"]

CommandInit == cmd = [c \in Commands |-> NotStarted]

Completed(m) == m.result # "none"
Running(m) == m.channel # "none" /\ ~Completed(m)

\* Mutation: the exit code is looked at first.
StatusOfExit(m) ==
  IF m.exit # "none" THEN m.exit
  ELSE IF m.forced # "none" THEN m.forced ELSE "failed"

\* The status finish() reports.  Without an exit code a command has failed; that
\* its stderr may still say why is not told apart.
Status(m) ==
  IF m.forced # "none" THEN m.forced
  ELSE IF m.exit # "none" THEN m.exit ELSE "failed"

\* finish().
Finish(m) ==
  IF Completed(m) THEN m ELSE [m EXCEPT !.result = Status(m)]

\* stopChannel().
Stop(m) == IF m.channel = "open" THEN [m EXCEPT !.channel = "closing"] ELSE m

\* The timer and the signal: the result first, then the channel.
End(m, status) == Stop(Finish([m EXCEPT !.forced = status]))

Step(c, m) == cmd' = [cmd EXCEPT ![c] = m]

\* exec() is called unless the signal is aborted; without a connection it
\* throws, and the executor reports a failure.
Execute(c, up, isAborted) ==
  /\ cmd[c].channel = "none"
  /\ ~Completed(cmd[c])
  /\ Step(c, CASE isAborted -> Finish([cmd[c] EXCEPT !.forced = "cancelled"])
               [] ~isAborted /\ up -> [cmd[c] EXCEPT !.channel = "pending"]
               [] OTHER -> Finish(cmd[c]))

\* Mutation: the timer is cleared once output was cut.
TimeoutUncut(c) ==
  /\ Running(cmd[c])
  /\ cmd[c].forced = "none"
  /\ Step(c, End(cmd[c], "timeout"))

Timeout(c) ==
  /\ Running(cmd[c])
  /\ Step(c, End(cmd[c], "timeout"))

\* The abort event reaches every running command of its process.
Cancelled(m) == IF Running(m) THEN End(m, "cancelled") ELSE m

\* Mutation: a channel that opens late is kept.
OpenedKept(c) ==
  /\ cmd[c].channel = "pending"
  /\ Step(c, [cmd[c] EXCEPT !.channel = "open"])

\* The callback of exec: a channel that comes too late is closed.
Opened(c) ==
  /\ cmd[c].channel = "pending"
  /\ Step(c, [cmd[c] EXCEPT !.channel = IF Completed(cmd[c]) THEN "closing" ELSE "open"])

\* exec failed.
OpenFailed(c) ==
  /\ cmd[c].channel = "pending"
  /\ Step(c, [Finish(cmd[c]) EXCEPT !.channel = "closed"])

OnChannel(c) == cmd[c].channel \in {"open", "closing"}

\* append(): what does not fit is dropped, and the command stopped.
Appended(m, n) ==
  LET left == MaxOutputBytes - m.stored
      kept == [m EXCEPT !.received = @ + n, !.stored = @ + (IF n < left THEN n ELSE left)]
  IN IF n > left /\ m.forced = "none"
     THEN Stop([kept EXCEPT !.forced = "truncated"]) ELSE kept

Data(c, n) ==
  /\ OnChannel(c) /\ Running(cmd[c])
  /\ cmd[c].received + n <= MaxReceived
  /\ Step(c, Appended(cmd[c], n))

Exit(c, e) ==
  /\ OnChannel(c)
  /\ cmd[c].exit = "none"
  /\ Step(c, [cmd[c] EXCEPT !.exit = e])

\* 'error' of the channel, which breaks it; its 'close' is still to come.
ChannelError(c) ==
  /\ OnChannel(c)
  /\ Step(c, Stop(Finish(cmd[c])))

ChannelClosed(c) ==
  /\ OnChannel(c)
  /\ Step(c, [Finish(cmd[c]) EXCEPT !.channel = "closed"])

\* What the server and the network may do.
ChannelEvent(c) ==
  \/ Opened(c) \/ OpenFailed(c) \/ ChannelError(c) \/ ChannelClosed(c)
  \/ \E n \in Chunks : Data(c, n)
  \/ \E e \in Exits : Exit(c, e)

-----------------------------------------------------------------------------
(* Properties. *)

\* Success means: the command exited with 0, nothing cut it short, and all that
\* it wrote was kept.  Truncated means that what was kept fills the limit.
ResultHonest ==
  \A c \in Commands :
    /\ cmd[c].result = "success" =>
         cmd[c].exit = "success" /\ cmd[c].stored = cmd[c].received
    /\ cmd[c].result = "truncated" =>
         cmd[c].stored = MaxOutputBytes /\ cmd[c].stored < cmd[c].received

\* A command that has its result has no channel that nobody closes, also when
\* the channel opened after the timer or the signal.
NoChannelLeft == \A c \in Commands : Completed(cmd[c]) => cmd[c].channel # "open"
=============================================================================
