------------------------------ MODULE SshConnect ------------------------------
(***************************************************************************)
(* connectSsh and the known-hosts file: processes that look up the key of  *)
(* their host, wait for the client to become ready, and remember the key.  *)
(* The file is shared by the processes of a workspace, without a lock.     *)
(*                                                                         *)
(* An action is the code between two awaits or one event of the client.    *)
(***************************************************************************)
EXTENDS Integers

CONSTANTS
  Processes,
  Hosts,
  HostOf,    \* the host a process connects to
  Keys,      \* fingerprints
  Signalled, \* processes with an abort signal
  Policies,  \* what --accept-new-host-key and the configuration may say to each
  MaxRekeys, \* bound: times a host changes its key
  None

ASSUME ConnectAssumption ==
  /\ HostOf \in [Processes -> Hosts]
  /\ Policies \in [Processes -> SUBSET {"strict", "acceptNew", "loose"}]
  /\ Signalled \subseteq Processes
  /\ MaxRekeys \in Nat
  /\ None \notin Keys

VARIABLES
  pins,    \* the fingerprints in the known-hosts file
  hostKey, \* the key each host has that is connected to
  conn,    \* what each call of connectSsh holds
  aborted, \* the abort signal of each process
  rekeys

Contacted == {HostOf[p] : p \in Processes}

connectVars == <<pins, hostKey, conn, aborted, rekeys>>

\* known: the fingerprint that was looked up; shown: the one the server showed;
\* accepted: the one the policy accepted; rejected: the policy refused it;
\* read: the document remember() has read; client: the socket;
\* outcome: how the promise was settled.
Fresh(policy) ==
  [pc |-> "start", policy |-> policy, known |-> None, shown |-> None,
   accepted |-> None, rejected |-> FALSE, read |-> None, client |-> "none",
   outcome |-> "pending"]

ConnectInit ==
  /\ pins \in [Hosts -> Keys \cup {None}]
  /\ hostKey \in [Contacted -> Keys]
  /\ conn \in [Processes -> {Fresh(l) : l \in {"strict", "acceptNew", "loose"}}]
  /\ \A p \in Processes : conn[p].policy \in Policies[p]
  /\ aborted = [p \in Processes |-> FALSE]
  /\ rekeys = 0

-----------------------------------------------------------------------------
\* rejectOnce: a refusal of the host key outweighs any other reason.
RejectOnce(m, reason) ==
  IF m.outcome # "pending" THEN m
  ELSE [m EXCEPT !.outcome = IF m.rejected THEN "hostKey" ELSE reason]

\* The end of the ready handler.
Resolve(m) == IF m.outcome = "pending" THEN [m EXCEPT !.outcome = "connected"] ELSE m

\* client.end(): nothing arrives from the server after it.
Ended(m) == [m EXCEPT !.client = "ended"]

\* abort().
Aborted(m) == RejectOnce(Ended(m), "aborted")

\* No event of the client follows; only the known-hosts file is still awaited.
Dropped(m) ==
  IF m.pc \in {"connecting", "verified", "refused"} THEN [m EXCEPT !.pc = "done"] ELSE m

\* KnownHostsStore.find.  It throws if the file cannot be read or is no document.
Find(p) ==
  /\ conn[p].pc = "start"
  /\ \/ conn' = [conn EXCEPT ![p].pc = "configure", ![p].known = pins[HostOf[p]]]
     \/ conn' = [conn EXCEPT ![p].pc = "done", ![p].outcome = "file"]
  /\ UNCHANGED <<pins, hostKey, aborted, rekeys>>

\* createConnectConfig waits for the identity file and the passwords; it may
\* throw.  Then the signal is looked at, and the client connects.
Configure(p) ==
  /\ conn[p].pc = "configure"
  /\ \/ conn' = [conn EXCEPT ![p].pc = "done", ![p].outcome = "config"]
     \/ /\ aborted[p]
        /\ conn' = [conn EXCEPT ![p] = [Aborted(@) EXCEPT !.pc = "done"]]
     \/ /\ ~aborted[p]
        /\ conn' = [conn EXCEPT ![p].pc = "connecting", ![p].client = "open"]
  /\ UNCHANGED <<pins, hostKey, aborted, rekeys>>

\* Mutation: the first key of a host is accepted whatever the policy.
VerifiedUnasked(m, key) ==
  CASE m.policy = "loose" -> [m EXCEPT !.pc = "verified"]
    [] m.policy # "loose" /\ m.known \in {key, None} ->
         [m EXCEPT !.pc = "verified", !.accepted = key]
    [] OTHER -> [m EXCEPT !.pc = "refused", !.rejected = TRUE]

\* HostKeyPolicy.verify.
Verified(m, key) ==
  CASE m.policy = "loose" -> [m EXCEPT !.pc = "verified"]
    [] \/ m.policy = "acceptNew" /\ m.known \in {key, None}
       \/ m.policy = "strict" /\ m.known = key ->
         [m EXCEPT !.pc = "verified", !.accepted = key]
    [] OTHER -> [m EXCEPT !.pc = "refused", !.rejected = TRUE]

\* The server shows its key.
Verify(p) ==
  LET key == hostKey[HostOf[p]]
  IN /\ conn[p].pc = "connecting"
     /\ conn[p].client = "open"
     /\ conn' = [conn EXCEPT ![p] = [Verified(@, key) EXCEPT !.shown = key]]
     /\ UNCHANGED <<pins, hostKey, aborted, rekeys>>

\* 'ready': the user is authenticated.  A key that is new is remembered first.
Ready(p) ==
  /\ conn[p].pc = "verified"
  /\ conn[p].client = "open"
  /\ conn' = [conn EXCEPT ![p] =
       IF @.accepted # None /\ @.accepted # @.known
       THEN [@ EXCEPT !.pc = "remember"]
       ELSE [Resolve(@) EXCEPT !.pc = "done"]]
  /\ UNCHANGED <<pins, hostKey, aborted, rekeys>>

\* remember() reads the file.
RememberRead(p) ==
  /\ conn[p].pc = "remember"
  /\ conn' = [conn EXCEPT ![p].pc = "write", ![p].read = pins]
  /\ UNCHANGED <<pins, hostKey, aborted, rekeys>>

\* Mutation: the document is not the one that was read.
DocumentAlone(p) ==
  [h \in Hosts |-> IF h = HostOf[p] THEN conn[p].accepted ELSE None]

\* The document that remember() writes.
Document(p) == [conn[p].read EXCEPT ![HostOf[p]] = conn[p].accepted]

\* It replaces the file as a whole, and the ready handler goes on.
RememberWrite(p) ==
  /\ conn[p].pc = "write"
  /\ pins' = Document(p)
  /\ conn' = [conn EXCEPT ![p] = [Resolve(@) EXCEPT !.pc = "done", !.read = None]]
  /\ UNCHANGED <<hostKey, aborted, rekeys>>

\* remember() throws: the file cannot be read or written.
RememberFailed(p) ==
  /\ conn[p].pc \in {"remember", "write"}
  /\ conn' = [conn EXCEPT ![p] = [RejectOnce(Ended(@), "failed") EXCEPT !.pc = "done",
                                                                  !.read = None]]
  /\ UNCHANGED <<pins, hostKey, aborted, rekeys>>

\* 'error' or 'close': authentication fails, the key was refused, the network
\* is gone, or readyTimeout has passed.
Lost(p) ==
  /\ conn[p].client = "open"
  /\ conn' = [conn EXCEPT ![p] =
       Dropped([RejectOnce(@, "failed") EXCEPT !.client = "closed"])]
  /\ UNCHANGED <<pins, hostKey, aborted, rekeys>>

\* The signal.  Its listener is registered while the promise is pending.
AbortConnect(p) ==
  /\ p \in Signalled /\ ~aborted[p]
  /\ aborted' = [aborted EXCEPT ![p] = TRUE]
  /\ conn' = [conn EXCEPT ![p] =
       IF @.client # "none" /\ @.outcome = "pending"
       THEN Dropped(Aborted(@))
       ELSE @]
  /\ UNCHANGED <<pins, hostKey, rekeys>>

\* SshConnection.close.
CloseClient(p) ==
  /\ conn[p].outcome = "connected"
  /\ conn[p].client # "ended"
  /\ conn' = [conn EXCEPT ![p] = Ended(@)]
  /\ UNCHANGED <<pins, hostKey, aborted, rekeys>>

\* A host is installed again and has another key.
Rekey(h) ==
  /\ rekeys < MaxRekeys
  /\ rekeys' = rekeys + 1
  /\ \E k \in Keys \ {hostKey[h]} : hostKey' = [hostKey EXCEPT ![h] = k]
  /\ UNCHANGED <<pins, conn, aborted>>

\* The steps of connectSsh that are sure to happen: its own continuations, and
\* an answer of the server, or readyTimeout.
ConnectStep(p) ==
  \/ Find(p) \/ Configure(p) \/ Verify(p) \/ Ready(p)
  \/ RememberRead(p) \/ RememberWrite(p) \/ RememberFailed(p)
  \/ conn[p].outcome = "pending" /\ Lost(p)

-----------------------------------------------------------------------------
(* Properties. *)

\* A connection is handed out only when the key the server showed is the one
\* that was looked up, or is new and may be accepted; whatever aborts, closes or
\* changes key on the way.
ConnectedVerified ==
  \A p \in Processes :
    conn[p].outcome = "connected" /\ conn[p].policy # "loose" =>
      \/ conn[p].shown = conn[p].known
      \/ conn[p].known = None /\ conn[p].policy = "acceptNew"

\* Whoever is told that there is no connection leaves no open one behind, also
\* when the refusal came while the key was being remembered.
NoConnectionLeft ==
  \A p \in Processes :
    conn[p].outcome \notin {"pending", "connected"} => conn[p].client # "open"

\* A remembered key is lost or replaced only by a process whose view of the
\* file was overtaken: its document by another write, or its lookup by another
\* process that remembered a key of the same host.
Overtaken(p) ==
  conn[p].pc = "write" /\ (conn[p].read # pins \/ conn[p].known # pins[HostOf[p]])
LostByRace ==
  \A h \in Hosts :
    pins[h] # None /\ pins'[h] # pins[h] => \E p \in Processes : Overtaken(p)
PinsLostOnlyByRace == [][LostByRace]_connectVars
=============================================================================
