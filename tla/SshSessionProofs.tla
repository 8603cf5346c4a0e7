--------------------------- MODULE SshSessionProofs ---------------------------
(***************************************************************************)
(* What the SSH sessions guarantee for every number of processes, hosts,   *)
(* keys and commands, and every limit of output: a connection is handed    *)
(* out only for a key that may be trusted, nothing that was given up stays *)
(* open, a result says what happened, and a remembered key is lost only to *)
(* a race.                                                                 *)
(*                                                                         *)
(* The processes share the known-hosts file only, and each command has its *)
(* own record: the inductive invariant is a condition on the pins and one  *)
(* on each record, and the proof of a step looks at the record it changes. *)
(***************************************************************************)
EXTENDS SshSession, TLAPS

-----------------------------------------------------------------------------
(* The invariant. *)

Pins == [Hosts -> Keys \cup {None}]

Places == {"start", "configure", "connecting", "verified", "refused", "remember", "write", "done"}

Conns ==
  [pc : Places, policy : {"strict", "acceptNew", "loose"}, known : Keys \cup {None},
   shown : Keys \cup {None}, accepted : Keys \cup {None}, rejected : BOOLEAN,
   read : Pins \cup {None}, client : {"none", "open", "ended", "closed"},
   outcome : {"pending", "connected", "hostKey", "config", "file", "aborted",
              "failed"}]

\* The key that was shown may be trusted.
Trusted(m) ==
  m.policy = "loose" \/ m.shown = m.known \/ (m.known = None /\ m.policy = "acceptNew")

\* Nothing was sent before the client connects; what goes on to be remembered is
\* new, and was verified; a connection that was refused is not open.
ConnOK(m) ==
  /\ m \in Conns
  /\ m.pc \in {"start", "configure"} => m.client = "none" /\ m.outcome = "pending"
  /\ m.pc \in {"start", "configure", "connecting"} => m.accepted = None
  /\ m.pc = "verified" => m.accepted = None \/ m.known \in {None, m.accepted}
  /\ m.pc \in {"remember", "write"} => m.known = None
  /\ m.pc = "write" => m.read \in Pins
  /\ m.pc \in {"verified", "remember", "write"} \/ m.outcome = "connected" => Trusted(m)
  /\ m.outcome = "connected" => m.pc = "done"
  /\ m.outcome \notin {"pending", "connected"} => m.client # "open"

Cmds ==
  [channel : {"none", "pending", "open", "closing", "closed"}, exit : Exits \cup {"none"},
   forced : {"none", "truncated", "timeout", "cancelled"}, stored : Nat, received : Nat,
   result : Exits \cup {"none", "failed", "truncated", "timeout", "cancelled"}]

\* Until something cuts it short a command has kept all its output, and it is cut
\* at the limit.
CmdOK(m) ==
  /\ m \in Cmds
  /\ m.stored <= MaxOutputBytes
  /\ ~Completed(m) /\ m.forced = "none" => m.stored = m.received
  /\ m.forced = "truncated" => m.stored = MaxOutputBytes /\ m.stored < m.received
  /\ m.result = "success" => m.exit = "success" /\ m.stored = m.received
  /\ m.result = "truncated" => m.stored = MaxOutputBytes /\ m.stored < m.received
  /\ Completed(m) => m.channel # "open"

ConnInv ==
  /\ pins \in Pins
  /\ hostKey \in [Contacted -> Keys]
  /\ DOMAIN conn = Processes
  /\ \A p \in Processes : ConnOK(conn[p])

CmdInv ==
  /\ DOMAIN cmd = Commands
  /\ \A c \in Commands : CmdOK(cmd[c])

Inv == ConnInv /\ CmdInv

-----------------------------------------------------------------------------
(* The operators on a connection's record. *)

\* A refusal ends in a record that is as sound as the closed one it is about.
LEMMA RejectOnceOK ==
  ASSUME NEW m, ConnOK(m), m.client # "open", m.pc \notin {"start", "configure"},
         NEW reason \in {"aborted", "failed"}
  PROVE  ConnOK(RejectOnce(m, reason))
BY DEF ConnOK, Conns, Places, RejectOnce, Trusted

\* client.end() keeps the record sound once the client exists.
LEMMA EndedOK ==
  ASSUME NEW m, ConnOK(m), m.pc \notin {"start", "configure"}
  PROVE  ConnOK(Ended(m)) /\ Ended(m).client # "open" /\ Ended(m).pc = m.pc
BY DEF ConnOK, Conns, Ended, Trusted

\* A record that is sound stays so when connectSsh ends with it.
LEMMA DoneOK ==
  ASSUME NEW m, ConnOK(m)
  PROVE  ConnOK([m EXCEPT !.pc = "done"]) /\ ConnOK([m EXCEPT !.pc = "done", !.read = None])
<1> DEFINE plain == [m EXCEPT !.pc = "done"]
           cleared == [m EXCEPT !.pc = "done", !.read = None]
<1>1. plain \in Conns /\ cleared \in Conns
  BY DEF ConnOK, Conns, Places
<1>2. ConnOK(plain)
  BY <1>1 DEF ConnOK, Conns, Trusted
<1>3. ConnOK(cleared)
  BY <1>1 DEF ConnOK, Conns, Trusted
<1>4. QED
  BY <1>2, <1>3

\* A record that is sound stays so when only the known-hosts file is awaited.
LEMMA DroppedOK ==
  ASSUME NEW m, ConnOK(m)
  PROVE  ConnOK(Dropped(m))
BY DoneOK DEF Dropped

-----------------------------------------------------------------------------
(* The steps of a connection. *)

\* A step that changes the record of one process keeps the invariant when it keeps
\* that record and the pins sound.
LEMMA OneConn ==
  ASSUME ConnInv, NEW p \in Processes, NEW m, ConnOK(m),
         conn' = [conn EXCEPT ![p] = m], pins' \in Pins, hostKey' = hostKey
  PROVE  ConnInv'
BY DEF ConnInv, ConnOK, Conns, Trusted

\* What is looked up is a pin or nothing.
LEMMA FindOK ==
  ASSUME ConnInv, NEW p \in Processes, Find(p)
  PROVE  ConnInv'
<1> DEFINE m == [conn[p] EXCEPT !.pc = "configure", !.known = pins[HostOf[p]]]
           ended == [conn[p] EXCEPT !.pc = "done"]
           n == [ended EXCEPT !.outcome = "file"]
<1>1. ConnOK(conn[p]) /\ pins[HostOf[p]] \in Keys \cup {None}
  BY ConnectAssumption DEF ConnInv, Pins
<1>2. m \in Conns
  BY <1>1 DEF ConnOK, Conns, Places
<1>3. ConnOK(ended) /\ n \in Conns
  <2>1. ConnOK(ended)
    BY <1>1, DoneOK
  <2> HIDE DEF ended
  <2>2. QED
    BY <2>1 DEF ConnOK, Conns
<1>4. ConnOK(m) /\ ConnOK(n)
  <2>1. conn[p].pc = "start" /\ conn[p].client = "none" /\ conn[p].outcome = "pending"
    BY <1>1 DEF Find, ConnOK
  <2>2. ConnOK(m)
    BY <1>1, <1>2, <2>1 DEF ConnOK, Conns, Trusted
  <2>3. ConnOK(n)
    BY <1>1, <1>3, <2>1 DEF ConnOK, Conns, Trusted
  <2>4. QED
    BY <2>2, <2>3
<1>5. /\ conn' = [conn EXCEPT ![p] = m] \/ conn' = [conn EXCEPT ![p] = n]
      /\ pins' = pins /\ hostKey' = hostKey
  BY DEF Find, ConnInv
<1>6. QED
  BY <1>4, <1>5, OneConn DEF ConnInv

LEMMA ConfigureOK ==
  ASSUME ConnInv, NEW p \in Processes, Configure(p)
  PROVE  ConnInv'
<1> DEFINE broken == [conn[p] EXCEPT !.pc = "done", !.outcome = "config"]
           given == [Aborted(conn[p]) EXCEPT !.pc = "done"]
           open == [conn[p] EXCEPT !.pc = "connecting", !.client = "open"]
<1>1. ConnOK(conn[p]) /\ conn[p].pc = "configure"
  BY DEF ConnInv, Configure
<1>2. broken \in Conns /\ given \in Conns /\ open \in Conns
  BY ZenonT(60), <1>1 DEF ConnOK, Conns, Places, Aborted, Ended, RejectOnce
<1>3. ConnOK(broken) /\ ConnOK(open)
  BY <1>1, <1>2 DEF ConnOK, Conns, Trusted
<1>4. ConnOK(given)
  BY <1>1, <1>2 DEF ConnOK, Conns, Trusted, Aborted, Ended, RejectOnce
<1>5. pins' = pins /\ hostKey' = hostKey
  BY DEF Configure
<1>6. \E m : ConnOK(m) /\ conn' = [conn EXCEPT ![p] = m]
  <2>1. CASE conn' = [conn EXCEPT ![p].pc = "done", ![p].outcome = "config"]
    BY <2>1, <1>3 DEF ConnInv
  <2>2. CASE conn' = [conn EXCEPT ![p] = [Aborted(@) EXCEPT !.pc = "done"]]
    BY <2>2, <1>4 DEF ConnInv
  <2>3. CASE conn' = [conn EXCEPT ![p].pc = "connecting", ![p].client = "open"]
    BY <2>3, <1>3 DEF ConnInv
  <2>4. QED
    BY <2>1, <2>2, <2>3 DEF Configure
<1>7. QED
  BY <1>5, <1>6, OneConn DEF ConnInv

\* The policy accepts a key it may trust.
LEMMA VerifyOK ==
  ASSUME ConnInv, NEW p \in Processes, Verify(p)
  PROVE  ConnInv'
<1> DEFINE key == hostKey[HostOf[p]]
           m == [Verified(conn[p], key) EXCEPT !.shown = key]
<1>1. ConnOK(conn[p]) /\ conn[p].pc = "connecting" /\ key \in Keys
  BY ConnectAssumption DEF ConnInv, Verify, Contacted
<1>2. m \in Conns
  BY <1>1 DEF ConnOK, Conns, Places, Verified
<1>3. ConnOK(m)
  <2>1. /\ conn[p] \in Conns /\ conn[p].outcome # "connected" /\ conn[p].accepted = None
        /\ conn[p].outcome = "pending" \/ conn[p].client # "open"
    BY <1>1 DEF ConnOK
  <2>2. CASE conn[p].policy = "loose"
    <3>1. m = [conn[p] EXCEPT !.pc = "verified", !.shown = key]
      BY <2>2 DEF Verified
    <3>2. QED
      BY ZenonT(60), <1>2, <2>1, <2>2, <3>1 DEF ConnOK, Conns, Trusted
  <2>3. CASE /\ conn[p].policy # "loose"
             /\ \/ conn[p].policy = "acceptNew" /\ conn[p].known \in {key, None}
                \/ conn[p].policy = "strict" /\ conn[p].known = key
    <3>1. m = [conn[p] EXCEPT !.pc = "verified", !.accepted = key, !.shown = key]
      BY <2>3 DEF Verified
    <3>2. /\ m.pc = "verified" /\ m.accepted = key /\ m.shown = key
          /\ m.known = conn[p].known /\ m.policy = conn[p].policy
          /\ m.outcome = conn[p].outcome /\ m.client = conn[p].client
      BY <2>1, <3>1 DEF Conns
    <3>3. m.known \in {None, key} /\ Trusted(m)
      BY <2>3, <3>2 DEF Trusted
    <3> HIDE DEF m
    <3>4. QED
      BY <1>2, <2>1, <3>2, <3>3 DEF ConnOK
  <2>4. CASE /\ conn[p].policy # "loose"
             /\ ~\/ conn[p].policy = "acceptNew" /\ conn[p].known \in {key, None}
                 \/ conn[p].policy = "strict" /\ conn[p].known = key
    <3>1. m = [conn[p] EXCEPT !.pc = "refused", !.rejected = TRUE, !.shown = key]
      BY <2>4 DEF Verified
    <3>2. QED
      BY ZenonT(60), <1>2, <2>1, <3>1 DEF ConnOK, Conns, Trusted
  <2>5. QED
    BY <2>2, <2>3, <2>4
<1>4. QED
  BY <1>3, OneConn DEF Verify, ConnInv

\* Only a key that is new goes on to be remembered.
LEMMA ReadyOK ==
  ASSUME ConnInv, NEW p \in Processes, Ready(p)
  PROVE  ConnInv'
<1> DEFINE new == [conn[p] EXCEPT !.pc = "remember"]
           ready == [Resolve(conn[p]) EXCEPT !.pc = "done"]
<1>1. ConnOK(conn[p]) /\ conn[p].pc = "verified"
  BY DEF ConnInv, Ready
<1>2. new \in Conns /\ ready \in Conns
  BY <1>1 DEF ConnOK, Conns, Places, Resolve
<1>3. ASSUME conn[p].accepted # None /\ conn[p].accepted # conn[p].known
      PROVE  ConnOK(new)
  BY <1>1, <1>2, <1>3 DEF ConnOK, Conns, Trusted
<1>4. ConnOK(ready)
  BY <1>1, <1>2 DEF ConnOK, Conns, Trusted, Resolve
<1>5. QED
  BY <1>3, <1>4, OneConn DEF Ready, ConnInv

LEMMA RememberReadOK ==
  ASSUME ConnInv, NEW p \in Processes, RememberRead(p)
  PROVE  ConnInv'
<1> DEFINE m == [conn[p] EXCEPT !.pc = "write", !.read = pins]
<1>1. ConnOK(conn[p]) /\ conn[p].pc = "remember" /\ pins \in Pins
  BY DEF ConnInv, RememberRead
<1>2. m \in Conns
  BY <1>1 DEF ConnOK, Conns, Places
<1>3. ConnOK(m)
  BY <1>1, <1>2 DEF ConnOK, Conns, Trusted
<1>4. conn' = [conn EXCEPT ![p] = m] /\ pins' = pins /\ hostKey' = hostKey
  BY DEF RememberRead, ConnInv
<1>5. QED
  BY <1>1, <1>3, <1>4, OneConn

\* The document that was read is one of pins, and stays one with the key in it.
LEMMA RememberWriteOK ==
  ASSUME ConnInv, NEW p \in Processes, RememberWrite(p)
  PROVE  ConnInv'
<1> DEFINE m == [Resolve(conn[p]) EXCEPT !.pc = "done", !.read = None]
<1>1. ConnOK(conn[p]) /\ conn[p].pc = "write"
  BY DEF ConnInv, RememberWrite
<1>2. m \in Conns
  BY ZenonT(60), <1>1 DEF ConnOK, Conns, Places, Resolve
<1>3. ConnOK(m)
  BY <1>1, <1>2 DEF ConnOK, Conns, Trusted, Resolve
<1>4. Document(p) \in Pins
  BY <1>1, ConnectAssumption DEF Document, ConnOK, Conns, Pins
<1>5. QED
  BY <1>3, <1>4, OneConn DEF RememberWrite, ConnInv

LEMMA RememberFailedOK ==
  ASSUME ConnInv, NEW p \in Processes, RememberFailed(p)
  PROVE  ConnInv'
<1> DEFINE ended == RejectOnce(Ended(conn[p]), "failed")
           m == [ended EXCEPT !.pc = "done", !.read = None]
<1>1. ConnOK(conn[p]) /\ conn[p].pc \in {"remember", "write"}
  BY DEF ConnInv, RememberFailed
<1>2. ConnOK(ended)
  BY <1>1, EndedOK, RejectOnceOK
<1>3. ConnOK(m)
  BY <1>2, DoneOK
<1>4. QED
  BY <1>3, OneConn DEF RememberFailed, ConnInv

\* The client that is lost is closed, whatever connectSsh awaits.
LEMMA LostOK ==
  ASSUME ConnInv, NEW p \in Processes, Lost(p)
  PROVE  ConnInv'
<1> DEFINE m == [RejectOnce(conn[p], "failed") EXCEPT !.client = "closed"]
<1>1. ConnOK(conn[p]) /\ conn[p].client = "open"
  BY DEF ConnInv, Lost
<1>2. m \in Conns
  BY <1>1 DEF ConnOK, Conns, RejectOnce
<1>3. ConnOK(m)
  BY <1>1, <1>2 DEF ConnOK, Conns, Trusted, RejectOnce
<1>4. ConnOK(Dropped(m))
  BY <1>3, DroppedOK
<1>5. QED
  BY <1>4, OneConn DEF Lost, ConnInv

\* The listener ends a client that exists and has no outcome yet.
LEMMA AbortConnectOK ==
  ASSUME ConnInv, NEW p \in Processes, AbortConnect(p)
  PROVE  ConnInv'
<1> DEFINE listening == conn[p].client # "none" /\ conn[p].outcome = "pending"
           m == Dropped(Aborted(conn[p]))
<1>1. ConnOK(conn[p])
  BY DEF ConnInv
<1>2. ASSUME listening
      PROVE  ConnOK(m)
  <2>1. conn[p].pc \notin {"start", "configure"}
    BY <1>1, <1>2 DEF ConnOK
  <2>2. ConnOK(Aborted(conn[p]))
    BY <1>1, <2>1, EndedOK, RejectOnceOK DEF Aborted
  <2>3. QED
    BY <2>2, DroppedOK
<1>3. CASE listening
  BY <1>2, <1>3, OneConn DEF AbortConnect, ConnInv
<1>4. CASE ~listening
  <2>1. conn' = [conn EXCEPT ![p] = conn[p]] /\ pins' = pins /\ hostKey' = hostKey
    BY <1>4 DEF AbortConnect
  <2>2. QED
    BY <1>1, <2>1, OneConn DEF ConnInv
<1>5. QED
  BY <1>3, <1>4

LEMMA CloseClientOK ==
  ASSUME ConnInv, NEW p \in Processes, CloseClient(p)
  PROVE  ConnInv'
<1>1. ConnOK(conn[p]) /\ conn[p].pc = "done"
  BY DEF ConnInv, ConnOK, CloseClient
<1>2. ConnOK(Ended(conn[p]))
  BY <1>1, EndedOK
<1>3. QED
  BY <1>2, OneConn DEF CloseClient, ConnInv

LEMMA RekeyOK ==
  ASSUME ConnInv, NEW h \in Contacted, Rekey(h)
  PROVE  ConnInv'
<1>1. hostKey' \in [Contacted -> Keys]
  BY DEF Rekey, ConnInv
<1>2. conn' = conn /\ pins' = pins
  BY DEF Rekey
<1>3. QED
  BY <1>1, <1>2 DEF ConnInv, ConnOK, Conns, Trusted

-----------------------------------------------------------------------------
(* The steps of a command. *)

\* Whatever ends a command first makes its result from what it has kept by then.
LEMMA FinishOK ==
  ASSUME NEW m, CmdOK(m), m.channel # "open"
  PROVE  CmdOK(Finish(m)) /\ Finish(m).channel # "open"
<1> DEFINE n == [m EXCEPT !.result = Status(m)]
<1>1. m \in Cmds
  BY DEF CmdOK
<1>2. CASE Completed(m)
  BY <1>2 DEF Finish
<1>3. CASE ~Completed(m)
  <2>1. n \in Cmds
    BY <1>1, CommandAssumption DEF Cmds, Status
  <2>2. CmdOK(n)
    BY <1>1, <1>3, <2>1, CommandAssumption DEF CmdOK, Cmds, Status, Completed
  <2>3. Finish(m) = n
    BY <1>3 DEF Finish
  <2>4. QED
    BY <1>1, <2>2, <2>3 DEF Cmds
<1>4. QED
  BY <1>2, <1>3

\* The timer and the signal end a command whose output was cut before as well.
LEMMA EndOK ==
  ASSUME NEW m, CmdOK(m), ~Completed(m), NEW status \in {"timeout", "cancelled"}
  PROVE  CmdOK(End(m, status))
<1> DEFINE f == [m EXCEPT !.forced = status]
           n == [f EXCEPT !.result = status]
           s == [n EXCEPT !.channel = "closing"]
<1>1. m \in Cmds
  BY DEF CmdOK
<1>2. f \in Cmds /\ n \in Cmds /\ s \in Cmds
  BY <1>1 DEF Cmds
<1>3. Finish(f) = n
  BY <1>1 DEF Finish, Status, Completed, Cmds
<1>4. n.channel = "open" => End(m, status) = s
  BY <1>3 DEF End, Stop
<1>5. n.channel # "open" => End(m, status) = n
  BY <1>3 DEF End, Stop
<1>6. CmdOK(s)
  BY <1>1, <1>2 DEF CmdOK, Cmds, Completed
<1>7. n.channel # "open" => CmdOK(n)
  BY <1>1, <1>2 DEF CmdOK, Cmds, Completed
<1>8. QED
  BY <1>4, <1>5, <1>6, <1>7

\* What does not fit is dropped only when the limit is reached.
LEMMA AppendedOK ==
  ASSUME NEW m, CmdOK(m), ~Completed(m), NEW n \in Nat \ {0}
  PROVE  CmdOK(Appended(m, n))
<1> DEFINE left == MaxOutputBytes - m.stored
           taken == IF n < left THEN n ELSE left
           kept == [m EXCEPT !.received = @ + n, !.stored = @ + taken]
           cut == [kept EXCEPT !.forced = "truncated"]
           stopped == [cut EXCEPT !.channel = "closing"]
<1>1. m \in Cmds /\ m.stored \in Nat /\ m.received \in Nat /\ MaxOutputBytes \in Nat
  BY CommandAssumption DEF CmdOK, Cmds
<1>2. left \in Nat /\ taken \in Nat /\ m.stored + taken <= MaxOutputBytes
  BY <1>1 DEF CmdOK
<1>3. /\ kept \in Cmds /\ cut \in Cmds /\ stopped \in Cmds
      /\ kept.stored = m.stored + taken /\ kept.received = m.received + n
  <2>1. m.stored + taken \in Nat /\ m.received + n \in Nat
    BY <1>1, <1>2
  <2>2. /\ kept = [m EXCEPT !.received = m.received + n, !.stored = m.stored + taken]
        /\ kept.stored = m.stored + taken /\ kept.received = m.received + n
    BY <1>1 DEF Cmds
  <2> HIDE DEF taken
  <2>3. kept \in Cmds
    BY <1>1, <2>1, <2>2 DEF Cmds
  <2>4. QED
    BY <2>2, <2>3 DEF Cmds
<1>4. CASE n > left /\ m.forced = "none"
  <2>1. m.stored + taken = MaxOutputBytes /\ m.stored = m.received
        /\ MaxOutputBytes < m.received + n
    BY <1>1, <1>4 DEF CmdOK
  <2>2. CmdOK(cut) /\ CmdOK(stopped)
    BY <1>1, <1>2, <1>3, <2>1 DEF CmdOK, Cmds, Completed
  <2>3. Appended(m, n) = Stop(cut)
    BY <1>4 DEF Appended
  <2>4. QED
    BY <2>2, <2>3 DEF Stop
<1>5. CASE ~(n > left /\ m.forced = "none")
  <2>1. Appended(m, n) = kept
    BY <1>5 DEF Appended
  <2>2. m.forced = "none" => taken = n
    BY <1>1, <1>2, <1>5
  <2>3. m.forced = "truncated" => taken = 0
    BY <1>1, <1>2 DEF CmdOK
  <2>4. CmdOK(kept)
    BY <1>1, <1>2, <1>3, <2>2, <2>3 DEF CmdOK, Cmds, Completed
  <2>5. QED
    BY <2>1, <2>4
<1>6. QED
  BY <1>4, <1>5

\* A step that changes the record of one command.
LEMMA OneCmd ==
  ASSUME CmdInv, NEW c \in Commands, NEW m, CmdOK(m), cmd' = [cmd EXCEPT ![c] = m]
  PROVE  CmdInv'
BY DEF CmdInv, CmdOK, Completed

LEMMA ExecuteOK ==
  ASSUME CmdInv, NEW c \in Commands, NEW up, NEW isAborted,
         Execute(c, up, isAborted)
  PROVE  CmdInv'
<1> DEFINE given == [cmd[c] EXCEPT !.forced = "cancelled"]
           pending == [cmd[c] EXCEPT !.channel = "pending"]
<1>1. CmdOK(cmd[c]) /\ cmd[c].channel = "none" /\ ~Completed(cmd[c])
  BY DEF CmdInv, Execute
<1>2. given \in Cmds /\ pending \in Cmds
  BY <1>1 DEF CmdOK, Cmds
<1>3. CmdOK(given) /\ given.channel # "open"
  BY <1>1, <1>2 DEF CmdOK, Cmds, Completed
<1>4. CmdOK(pending)
  BY <1>1, <1>2 DEF CmdOK, Cmds, Completed
<1>5. CmdOK(Finish(given)) /\ CmdOK(Finish(cmd[c]))
  BY <1>1, <1>3, FinishOK
<1>6. \E m \in {Finish(given), pending, Finish(cmd[c])} : cmd' = [cmd EXCEPT ![c] = m]
  BY DEF Execute, Step
<1>7. QED
  BY <1>4, <1>5, <1>6, OneCmd

LEMMA TimeoutOK ==
  ASSUME CmdInv, NEW c \in Commands, Timeout(c)
  PROVE  CmdInv'
<1>1. CmdOK(cmd[c]) /\ ~Completed(cmd[c])
  BY DEF CmdInv, Timeout, Running
<1>2. CmdOK(End(cmd[c], "timeout"))
  BY <1>1, EndOK
<1>3. QED
  BY <1>2, OneCmd DEF Timeout, Step

\* A channel that opens for a command that has its result is closed, and what comes
\* after the result does not change it.
LEMMA ChannelEventOK ==
  ASSUME CmdInv, NEW c \in Commands, ChannelEvent(c)
  PROVE  CmdInv'
<1> DEFINE m == cmd[c]
<1>1. CmdOK(m) /\ m \in Cmds
  BY DEF CmdInv, CmdOK
<1>2. CASE Opened(c)
  <2> DEFINE n == [m EXCEPT !.channel = IF Completed(m) THEN "closing" ELSE "open"]
  <2>1. n \in Cmds
    BY <1>1 DEF Cmds
  <2>2. CmdOK(n)
    BY <1>1, <2>1 DEF CmdOK, Cmds, Completed
  <2>3. QED
    BY <1>2, <2>2, OneCmd DEF Opened, Step
<1>3. ASSUME NEW n, CmdOK(n), n.channel # "open"
      PROVE  CmdOK([Finish(n) EXCEPT !.channel = "closed"])
  <2>1. CmdOK(Finish(n))
    BY <1>3, FinishOK
  <2>2. [Finish(n) EXCEPT !.channel = "closed"] \in Cmds
    BY <2>1 DEF CmdOK, Cmds
  <2>3. QED
    BY <2>1, <2>2 DEF CmdOK, Cmds, Completed
<1>4. ASSUME NEW n, CmdOK(n)
      PROVE  CmdOK(Stop(Finish(n))) /\ CmdOK([Finish(n) EXCEPT !.channel = "closed"])
  <2> DEFINE f == Finish(n)
             r == [n EXCEPT !.result = Status(n)]
             d == [r EXCEPT !.channel = "closing"]
             e == [r EXCEPT !.channel = "closed"]
  <2>1. n \in Cmds
    BY <1>4 DEF CmdOK
  <2>2. CASE Completed(n)
    <3>1. f = n /\ n.channel # "open"
      BY <1>4, <2>2 DEF Finish, CmdOK
    <3>2. Stop(f) = f
      BY <3>1 DEF Stop
    <3>3. QED
      BY <1>3, <1>4, <3>1, <3>2
  <2>3. CASE ~Completed(n)
    <3>1. f = r
      BY <2>3 DEF Finish
    <3>2. r \in Cmds /\ d \in Cmds /\ e \in Cmds
      BY ZenonT(60), <2>1, CommandAssumption DEF Cmds, Status
    <3>3. CmdOK(d) /\ CmdOK(e)
      BY <1>4, <2>1, <2>3, <3>2, CommandAssumption DEF CmdOK, Cmds, Status, Completed
    <3>4. r.channel # "open" => CmdOK(r)
      BY <1>4, <2>1, <2>3, <3>2, CommandAssumption DEF CmdOK, Cmds, Status, Completed
    <3>5. QED
      BY <3>1, <3>3, <3>4 DEF Stop
  <2>4. QED
    BY <2>2, <2>3
<1>5. CASE OpenFailed(c) \/ ChannelClosed(c)
  BY <1>1, <1>4, <1>5, OneCmd DEF OpenFailed, ChannelClosed, Step
<1>6. CASE ChannelError(c)
  BY <1>1, <1>4, <1>6, OneCmd DEF ChannelError, Step
<1>7. ASSUME NEW n \in Chunks, Data(c, n)
      PROVE  CmdInv'
  <2>1. CmdOK(Appended(m, n))
    BY <1>1, <1>7, AppendedOK, CommandAssumption DEF Data, Running
  <2>2. QED
    BY <1>7, <2>1, OneCmd DEF Data, Step
<1>8. ASSUME NEW e \in Exits, Exit(c, e)
      PROVE  CmdInv'
  <2> DEFINE n == [m EXCEPT !.exit = e]
  <2>1. n \in Cmds
    BY <1>1 DEF Cmds
  <2>2. CmdOK(n)
    BY <1>1, <1>8, <2>1, CommandAssumption DEF CmdOK, Cmds, Completed, Exit
  <2>3. QED
    BY <1>8, <2>2, OneCmd DEF Exit, Step
<1>9. QED
  BY <1>2, <1>5, <1>6, <1>7, <1>8 DEF ChannelEvent

\* The abort event ends all commands of a process that run.
LEMMA AbortOK ==
  ASSUME Inv, NEW p \in Processes, Abort(p)
  PROVE  Inv'
<1>1. ConnInv'
  BY AbortConnectOK DEF Abort, Inv
<1>2. ASSUME NEW c \in Commands
      PROVE  CmdOK(Cancelled(cmd[c]))
  BY <1>2, EndOK DEF Inv, CmdInv, Cancelled, Running
<1>3. /\ DOMAIN cmd' = Commands
      /\ \A c \in Commands : cmd'[c] = cmd[c] \/ cmd'[c] = Cancelled(cmd[c])
  BY DEF Abort
<1>4. \A c \in Commands : CmdOK(cmd'[c])
  BY <1>2, <1>3 DEF Inv, CmdInv
<1>5. CmdInv'
  BY <1>3, <1>4 DEF CmdInv, CmdOK, Completed
<1>6. QED
  BY <1>1, <1>5 DEF Inv

-----------------------------------------------------------------------------
(* The whole. *)

LEMMA InitInv == Init => Inv
<1> SUFFICES ASSUME Init PROVE Inv
  OBVIOUS
<1>1. pins \in Pins /\ hostKey \in [Contacted -> Keys] /\ DOMAIN conn = Processes
  BY DEF Init, ConnectInit, Pins
<1>2. ASSUME NEW l \in {"strict", "acceptNew", "loose"}
      PROVE  ConnOK(Fresh(l))
  <2>1. Fresh(l) \in Conns
    BY DEF Fresh, Conns, Places
  <2>2. QED
    BY <2>1 DEF Fresh, ConnOK, Trusted
<1>3. \A p \in Processes : ConnOK(conn[p])
  BY <1>2 DEF Init, ConnectInit
<1>4. CmdOK(NotStarted)
  <2>1. NotStarted \in Cmds
    BY DEF NotStarted, Cmds
  <2>2. QED
    BY <2>1, CommandAssumption DEF NotStarted, CmdOK, Completed
<1>5. CmdInv
  BY <1>4 DEF Init, CommandInit, CmdInv
<1>6. QED
  BY <1>1, <1>3, <1>5 DEF Inv, ConnInv

LEMMA NextInv == Inv /\ [Next]_vars => Inv'
<1> SUFFICES ASSUME Inv, [Next]_vars PROVE Inv'
  OBVIOUS
<1>1. CASE UNCHANGED vars
  BY <1>1 DEF vars, Inv, ConnInv, CmdInv, ConnOK, Conns, Trusted, CmdOK, Completed
<1>2. ASSUME UNCHANGED cmd PROVE CmdInv'
  BY <1>2 DEF Inv, CmdInv, CmdOK, Completed
<1>3. ASSUME UNCHANGED connectVars PROVE ConnInv'
  BY <1>3 DEF connectVars, Inv, ConnInv, ConnOK, Conns, Trusted
<1>4. ASSUME NEW p \in Processes, Connect(p)
      PROVE  Inv'
  <2>1. ConnInv'
    <3>1. CASE Lost(p)
      BY <3>1, LostOK DEF Inv
    <3>2. CASE ConnectStep(p)
      BY <3>2, FindOK, ConfigureOK, VerifyOK, ReadyOK, RememberReadOK, RememberWriteOK,
         RememberFailedOK, LostOK DEF ConnectStep, Inv
    <3>3. QED
      BY <1>4, <3>1, <3>2 DEF Connect
  <2>2. QED
    BY <1>2, <1>4, <2>1 DEF Connect, Inv
<1>5. ASSUME NEW p \in Processes, Close(p)
      PROVE  Inv'
  BY <1>2, <1>5, CloseClientOK DEF Close, Inv
<1>6. ASSUME NEW h \in Contacted, Reinstall(h)
      PROVE  Inv'
  BY <1>2, <1>6, RekeyOK DEF Reinstall, Inv
<1>7. ASSUME NEW c \in Commands, Start(c)
      PROVE  Inv'
  <2>1. Execute(c, conn[ProcessOf[c]].client = "open", aborted[ProcessOf[c]])
    BY <1>7 DEF Start
  <2>2. CmdInv'
    BY <2>1, ExecuteOK DEF Inv
  <2>3. QED
    BY <1>3, <1>7, <2>2 DEF Start, Inv
<1>8. ASSUME NEW c \in Commands, Event(c) \/ Expire(c)
      PROVE  Inv'
  BY <1>3, <1>8, ChannelEventOK, TimeoutOK DEF Event, Expire, Inv
<1>9. QED
  BY <1>1, <1>4, <1>5, <1>6, <1>7, <1>8, AbortOK DEF Next

LEMMA Invariant == Spec => []Inv
BY InitInv, NextInv, PTL DEF Spec

\* connectSsh hands out a connection only for the key it looked up, or for a new key
\* that may be accepted, whatever aborts or closes it and whenever a host changes key.
THEOREM Verification == Spec => []ConnectedVerified
<1>1. Inv => ConnectedVerified
  BY DEF Inv, ConnInv, ConnOK, Trusted, ConnectedVerified
<1>2. QED
  BY <1>1, Invariant, PTL

\* A refused connection that became ready, or was being remembered, is closed; so is
\* the channel of a command that ended before exec answered.
THEOREM Closing == Spec => []NothingLeftOpen
<1>1. Inv => NoConnectionLeft
  BY DEF Inv, ConnInv, ConnOK, NoConnectionLeft
<1>2. Inv => NoChannelLeft
  BY DEF Inv, CmdInv, CmdOK, NoChannelLeft
<1>3. QED
  BY <1>1, <1>2, Invariant, PTL DEF NothingLeftOpen

\* The result of a command says what happened to it, whichever of its timer, its
\* signal, its limit of output and its channel comes first.
THEOREM Honesty == Spec => []ResultHonest
<1>1. Inv => ResultHonest
  BY DEF Inv, CmdInv, CmdOK, ResultHonest
<1>2. QED
  BY <1>1, Invariant, PTL

\* A write that has the file and the pin of its host as it found them adds a pin and
\* changes none: it remembers only a key of a host that had none.
THEOREM Remembering == Spec => PinsLostOnlyByRace
<1>1. Inv /\ [Next]_vars => [LostByRace]_connectVars
  <2> SUFFICES ASSUME Inv, [Next]_vars PROVE LostByRace
    OBVIOUS
  <2>1. CASE pins' = pins
    BY <2>1 DEF LostByRace
  <2>2. ASSUME NEW p \in Processes, RememberWrite(p)
        PROVE  LostByRace
    <3> SUFFICES ASSUME ~Overtaken(p)
                 PROVE  \A h \in Hosts : pins[h] # None => pins'[h] = pins[h]
      BY DEF LostByRace
    <3>1. conn[p].pc = "write" /\ conn[p].read = pins /\ conn[p].known = pins[HostOf[p]]
      BY <2>2 DEF RememberWrite, Overtaken
    <3>2. pins[HostOf[p]] = None
      BY <3>1 DEF Inv, ConnInv, ConnOK
    <3>3. pins' = [pins EXCEPT ![HostOf[p]] = conn[p].accepted]
      BY <2>2, <3>1 DEF RememberWrite, Document
    <3>4. QED
      BY <3>2, <3>3 DEF Inv, ConnInv, Pins
  <2>3. pins' = pins \/ \E p \in Processes : RememberWrite(p)
    BY DEF vars, Next, Connect, ConnectStep, Find, Configure, Verify, Ready, RememberRead,
       RememberFailed, Lost, Abort, AbortConnect, Close, CloseClient, Start, Event, Expire,
       Reinstall, Rekey, connectVars
  <2>4. QED
    BY <2>1, <2>2, <2>3
<1>2. QED
  BY <1>1, Invariant, PTL DEF Spec, PinsLostOnlyByRace

=============================================================================
