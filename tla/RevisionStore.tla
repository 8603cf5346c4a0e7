---------------------------- MODULE RevisionStore ----------------------------
(***************************************************************************)
(* The agent command: processes that load the revision chains of a run,    *)
(* ask the model, and append what it proposes to two JSON-lines files, one *)
(* append after the other and without a lock.  Meanwhile a discover and    *)
(* resume pair may replace the inventory the chains belong to.             *)
(***************************************************************************)
EXTENDS Integers, Sequences, FiniteSets

CONSTANTS
  Agents,          \* processes
  Changes,         \* what a proposal may change
  MaxActive,       \* bound: processes at work at a time
  MaxTurns,        \* bound: turns begun
  MaxInventories,  \* bound: inventories the run has had
  MaxCrashes,      \* bound: processes that die
  None,            \* no change, no parent
  Torn             \* a line that cannot be parsed

ASSUME StoreAssumption ==
  /\ MaxActive \in Nat \ {0}
  /\ MaxTurns \in Nat
  /\ MaxInventories \in Nat \ {0}
  /\ MaxCrashes \in Nat
  /\ None \notin Changes

VARIABLES
  inventory,  \* the inventory in inventory.json
  lines,      \* the two revision files
  open,       \* the files whose last line lacks its newline
  turns,      \* the turns recorded in the turns file
  agent,      \* what each process holds
  proposed,   \* history: the proposals that passed validation
  begun,      \* number of turns begun
  crashes

vars == <<inventory, lines, open, turns, agent, proposed, begun, crashes>>

Files == {"inventory", "wiki"}

Idle == [pc |-> "idle", turn |-> 0, base |-> 0, seen |-> << >>,
         proposal |-> << >>]

Init ==
  /\ inventory = 1
  /\ lines = [f \in Files |-> << >>]
  /\ open = {}
  /\ turns = {}
  /\ agent = [a \in Agents |-> Idle]
  /\ proposed = {}
  /\ begun = 0
  /\ crashes = 0

-----------------------------------------------------------------------------
(* Chains of revisions. *)

Last(s) == s[Len(s)]

\* assertRevisionChain.
Chain(s, base) ==
  \A i \in DOMAIN s :
    /\ s[i].inventory = base
    /\ s[i].sequence = i
    /\ s[i].parent = IF i = 1 THEN None ELSE s[i - 1].id

\* readJsonLines parses every line, and assertRevisionChain follows them.
Accepted(s, base) == (\A i \in DOMAIN s : s[i] # Torn) /\ Chain(s, base)

Identified(f, base, sequence, parent, changes, turn) ==
  [id |-> [file |-> f, inventory |-> base, sequence |-> sequence, changes |-> changes],
   inventory |-> base, sequence |-> sequence, parent |-> parent, turn |-> turn]

\* Mutation: the parent is left out.
RevisionAlone(f, m) ==
  Identified(f, m.base, Len(m.seen[f]) + 1, None, m.proposal[f], m.turn)

\* Mutation: both builders continue the inventory's chain.
RevisionCrossed(f, m) ==
  LET s == m.seen["inventory"]
  IN Identified(f, m.base, Len(s) + 1, IF s = << >> THEN None ELSE Last(s).id,
                m.proposal[f], m.turn)

\* buildInventoryRevision, buildWikiRevision: the next of what was read.
Revision(f, m) ==
  LET s == m.seen[f]
      sequence == IF s = << >> THEN 1 ELSE Last(s).sequence + 1
  IN Identified(f, m.base, sequence, IF s = << >> THEN None ELSE Last(s).id,
                m.proposal[f], m.turn)

\* What is appended to a line without its newline makes one line of the two,
\* which cannot be parsed; otherwise it is a line of its own.
Appended(s, unended, line) ==
  IF unended THEN [s EXCEPT ![Len(s)] = Torn] ELSE Append(s, line)

\* buildPostReportRevisions: there is a revision for each part with changes.
Revised(m) == {f \in Files : m.proposal[f] # None}

\* Mutation: the turn is recorded before its revisions.
PlaceTurnFirst(m, done) ==
  IF "turn" \notin done THEN "turn"
  ELSE IF "inventory" \in Revised(m) \ done THEN "inventory"
  ELSE IF "wiki" \in Revised(m) \ done THEN "wiki"
  ELSE "idle"

\* The order of the appends.
Place(m, done) ==
  IF "inventory" \in Revised(m) \ done THEN "inventory"
  ELSE IF "wiki" \in Revised(m) \ done THEN "wiki"
  ELSE IF "turn" \notin done THEN "turn" ELSE "idle"

\* What is done when a process is at a place.
Before(place) ==
  CASE place = "inventory" -> {"inventory"}
    [] place = "wiki" -> {"inventory", "wiki"}
    [] place = "turn" -> {"inventory", "wiki", "turn"}

-----------------------------------------------------------------------------
(* A turn of the agent. *)

\* The command starts and finds the inventory; another id would not be found.
Begin(a) ==
  /\ agent[a].pc = "idle"
  /\ Cardinality({b \in Agents : agent[b].pc # "idle"}) < MaxActive
  /\ begun < MaxTurns
  /\ begun' = begun + 1
  /\ agent' = [agent EXCEPT ![a] = [Idle EXCEPT !.pc = "reading", !.turn = begun',
                                                !.base = inventory]]
  /\ UNCHANGED <<inventory, lines, open, turns, proposed, crashes>>

\* The files are read side by side, one before or after the other.
Read(a, f) ==
  /\ agent[a].pc = "reading"
  /\ f \notin DOMAIN agent[a].seen
  /\ agent' = [agent EXCEPT ![a].seen =
                 [g \in DOMAIN @ \cup {f} |-> IF g = f THEN lines[f] ELSE @[g]]]
  /\ UNCHANGED <<inventory, lines, open, turns, proposed, begun, crashes>>

Checked(m) == \A f \in Files : Accepted(m.seen[f], m.base)

\* Both files are there: go on, or throw.
Check(a) ==
  /\ agent[a].pc = "reading"
  /\ DOMAIN agent[a].seen = Files
  /\ agent' = [agent EXCEPT ![a].pc = IF Checked(agent[a]) THEN "asking" ELSE "refused"]
  /\ UNCHANGED <<inventory, lines, open, turns, proposed, begun, crashes>>

\* The model answered and the proposal is valid.
Answer(a, proposal) ==
  LET m == [agent[a] EXCEPT !.proposal = proposal]
  IN /\ agent[a].pc = "asking"
     /\ agent' = [agent EXCEPT ![a] = [m EXCEPT !.pc = Place(m, {})]]
     /\ proposed' = proposed \cup {[turn |-> m.turn, proposal |-> proposal]}
     /\ UNCHANGED <<inventory, lines, open, turns, begun, crashes>>

\* The model failed, its proposal is not valid, or the chains were refused.
Fail(a) ==
  /\ agent[a].pc \in {"asking", "refused"}
  /\ agent' = [agent EXCEPT ![a] = Idle]
  /\ UNCHANGED <<inventory, lines, open, turns, proposed, begun, crashes>>

\* The process goes to its next append, or is done.
Advance(a, done) ==
  LET next == Place(agent[a], done)
  IN agent' = [agent EXCEPT ![a] = IF next = "idle" THEN Idle
                                   ELSE [@ EXCEPT !.pc = next]]

\* appendJsonLine of a revision built from what was read at the beginning.
AppendRevision(a, f) ==
  /\ agent[a].pc = f
  /\ lines' = [lines EXCEPT ![f] = Appended(@, f \in open, Revision(f, agent[a]))]
  /\ open' = open \ {f}
  /\ Advance(a, Before(f))
  /\ UNCHANGED <<inventory, turns, proposed, begun, crashes>>

AppendTurn(a) ==
  /\ agent[a].pc = "turn"
  /\ turns' = turns \cup {agent[a].turn}
  /\ Advance(a, Before("turn"))
  /\ UNCHANGED <<inventory, lines, open, proposed, begun, crashes>>

\* The process dies; an append that was under way may leave half a line, or a
\* whole one without its newline, which is read like any other.
Crash(a) ==
  /\ agent[a].pc # "idle"
  /\ crashes < MaxCrashes
  /\ crashes' = crashes + 1
  /\ \/ UNCHANGED <<lines, open>>
     \/ \E f \in Files :
          /\ agent[a].pc = f
          /\ \E part \in {Torn, Revision(f, agent[a])} :
               lines' = [lines EXCEPT ![f] = Appended(@, f \in open, part)]
          /\ open' = open \cup {f}
  /\ agent' = [agent EXCEPT ![a] = Idle]
  /\ UNCHANGED <<inventory, turns, proposed, begun>>

\* Finalization, by a resume of the run, writes another inventory.
Replace ==
  /\ inventory < MaxInventories
  /\ inventory' = inventory + 1
  /\ UNCHANGED <<lines, open, turns, agent, proposed, begun, crashes>>

\* Nobody has to start another turn.
Terminated ==
  /\ \A a \in Agents : agent[a].pc = "idle"
  /\ UNCHANGED vars

Next ==
  \/ \E a \in Agents :
       \/ Begin(a)
       \/ \E f \in Files : Read(a, f)
       \/ Check(a)
       \/ \E proposal \in [Files -> Changes \cup {None}] : Answer(a, proposal)
       \/ Fail(a)
       \/ \E f \in Files : AppendRevision(a, f)
       \/ AppendTurn(a)
       \/ Crash(a)
  \/ Replace
  \/ Terminated

Spec == Init /\ [][Next]_vars

-----------------------------------------------------------------------------
(* Properties. *)

\* However processes interleave and die: a revision follows the line at the place
\* its sequence number gives, which is its parent and revises the same inventory.
\* Concurrent agents fork a chain, they never invent one.  What can be lost is
\* that line itself: its append was cut before the newline, its reader took it
\* for whole, and the next append made it one line with its own.
ParentsPresent ==
  \A f \in Files : \A i \in DOMAIN lines[f] :
    LET r == lines[f][i]
        place == r.sequence - 1
        parent == lines[f][place]
    IN \/ r = Torn
       \/ r.parent = None /\ r.sequence = 1
       \/ /\ place \in 1..i - 1
          /\ \/ parent = Torn
             \/ /\ parent.id = r.parent
                /\ parent.sequence = place
                /\ parent.inventory = r.inventory

\* A turn in the turns file has left every revision it proposed, whichever
\* processes died meanwhile, unless the file has a line that cannot be parsed.
Cut(f) == \E i \in DOMAIN lines[f] : lines[f][i] = Torn
Written(f, turn) ==
  \E i \in DOMAIN lines[f] : lines[f][i] # Torn /\ lines[f][i].turn = turn
TurnsComplete ==
  \A p \in proposed : p.turn \in turns =>
    \A f \in Files : p.proposal[f] # None => Written(f, p.turn) \/ Cut(f)

\* What can make an agent of an inventory refuse the run: a damaged line, two
\* agents that continued the same revision, or revisions of a former
\* inventory.  An agent that died between two appends blocks nobody.
Forked(f) ==
  \E i, j \in DOMAIN lines[f] :
    /\ i # j
    /\ lines[f][i].inventory = lines[f][j].inventory
    /\ lines[f][i].sequence = lines[f][j].sequence
Foreign(f, base) == \E i \in DOMAIN lines[f] : lines[f][i].inventory # base
RefusedOnlyDamaged ==
  \A a \in Agents : agent[a].pc = "refused" =>
    \E f \in Files : Cut(f) \/ Forked(f) \/ Foreign(f, agent[a].base)

\* The agent can always be used on the inventory of the run.
NeverRefused == \A a \in Agents : agent[a].pc # "refused"
=============================================================================
