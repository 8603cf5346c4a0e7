------------------------- MODULE RevisionStoreProofs -------------------------
(***************************************************************************)
(* What the revision files guarantee for any number of agents, turns,      *)
(* crashes and replaced inventories, although nothing locks them.          *)
(***************************************************************************)
EXTENDS RevisionStore, SequenceTheorems, WellFoundedInduction, TLAPS

-----------------------------------------------------------------------------
(* Lines and files. *)

Ids == [file : Files, inventory : Nat, sequence : Nat, changes : Changes \cup {None}]
Lines ==
  [id : Ids, inventory : Nat, sequence : Nat, parent : Ids \cup {None}, turn : Nat]
    \cup {Torn}

\* What was read of a file stays where it is, but for the lines that an append
\* has made one with its own.
Kept(s, t) ==
  /\ s \in Seq(Lines) /\ t \in Seq(Lines)
  /\ Len(s) <= Len(t)
  /\ \A i \in 1..Len(s) : t[i] = s[i] \/ t[i] = Torn

LEMMA KeptTransitive ==
  ASSUME NEW s, NEW t, NEW u, Kept(s, t), Kept(t, u)
  PROVE  Kept(s, u)
<1>1. Len(s) \in Nat /\ Len(t) \in Nat /\ Len(u) \in Nat
  BY LenProperties DEF Kept
<1>2. QED
  BY <1>1 DEF Kept

LEMMA KeptReflexive == ASSUME NEW s \in Seq(Lines) PROVE Kept(s, s)
<1>1. Len(s) \in Nat
  BY LenProperties
<1>2. QED
  BY <1>1 DEF Kept

\* A last line that lacks its newline is spoiled by the next append.
LEMMA SpoiledFacts ==
  ASSUME NEW s \in Seq(Lines), s # << >>, NEW t, t = [s EXCEPT ![Len(s)] = Torn]
  PROVE  /\ Kept(s, t) /\ t # << >>
         /\ Len(t) = Len(s) /\ Len(s) \in DOMAIN t /\ t[Len(s)] = Torn
<1>1. Len(s) \in Nat /\ Torn \in Lines
  BY LenProperties DEF Lines
<1>2. Len(s) \in 1..Len(s)
  BY <1>1, EmptySeq
<1>3. /\ t \in Seq(Lines) /\ Len(t) = Len(s)
      /\ \A i \in 1..Len(s) : t[i] = IF i = Len(s) THEN Torn ELSE s[i]
  BY <1>1, <1>2, ExceptSeq
<1>4. /\ Len(s) <= Len(t) /\ t[Len(s)] = Torn
      /\ \A i \in 1..Len(s) : t[i] = s[i] \/ t[i] = Torn
  BY ONLY <1>1, <1>2, <1>3
<1>5. Len(s) \in DOMAIN t
  BY ONLY <1>2, <1>3, LenProperties
<1>6. Len(s) # 0
  BY ONLY <1>1, <1>2
<1>7. t # << >>
  BY ONLY <1>3, <1>6, EmptySeq
<1>8. Kept(s, t)
  BY ONLY <1>3, <1>4, s \in Seq(Lines), Zenon DEF Kept
<1>9. QED
  BY <1>3, <1>4, <1>5, <1>7, <1>8

\* After any other line the next one follows.
LEMMA AddedFacts ==
  ASSUME NEW s \in Seq(Lines), NEW x \in Lines, NEW t, t = Append(s, x)
  PROVE  Kept(s, t) /\ t # << >> /\ Len(t) = Len(s) + 1 /\ t[Len(s) + 1] = x
<1>1. Len(s) \in Nat
  BY LenProperties
<1>2. /\ t \in Seq(Lines) /\ Len(t) = Len(s) + 1
      /\ \A i \in 1..Len(s) : t[i] = s[i]
      /\ t[Len(s) + 1] = x
  BY AppendProperties
<1>3. Kept(s, t)
  BY ONLY <1>1, <1>2, s \in Seq(Lines) DEF Kept
<1>4. Len(t) # 0
  BY ONLY <1>1, <1>2
<1>5. t # << >>
  BY ONLY <1>2, <1>4, EmptySeq
<1>6. QED
  BY <1>2, <1>3, <1>5

-----------------------------------------------------------------------------
(* The inductive invariant. *)

Places == {"inventory", "wiki", "turn"}
Begun == {"reading", "asking", "refused"} \cup Places
Fields == {"pc", "turn", "base", "seen", "proposal"}

\* What a process holds: beginnings of both files, and later chains of its inventory.
AgentOK(m, files) ==
  /\ DOMAIN m = Fields
  /\ m.pc \in {"idle"} \cup Begun
  /\ m.turn \in Nat /\ m.base \in Nat
  /\ m.pc = "reading" =>
       \A f \in Files : f \in DOMAIN m.seen => Kept(m.seen[f], files[f])
  /\ m.pc \in {"asking"} \cup Places =>
       \A f \in Files : Kept(m.seen[f], files[f]) /\ Accepted(m.seen[f], m.base)
  /\ m.pc = "refused" =>
       (\A f \in Files : Kept(m.seen[f], files[f])) /\ ~Checked(m)
  /\ m.pc \in Places => m.proposal \in [Files -> Changes \cup {None}]

StoreInv ==
  /\ inventory \in Nat
  /\ DOMAIN lines = Files /\ \A f \in Files : lines[f] \in Seq(Lines)
  /\ DOMAIN agent = Agents /\ \A a \in Agents : AgentOK(agent[a], lines)

\* Only a line that was written can lack its newline.
OpenInv == open \subseteq Files /\ \A f \in open : lines[f] # << >>

\* A turn has one process, and one proposal.
TurnInv ==
  /\ begun \in Nat
  /\ turns \subseteq 1..begun
  /\ \A p \in proposed : p.turn \in 1..begun
  /\ \A a \in Agents : agent[a].pc \in Begun => agent[a].turn \in (1..begun) \ turns
  /\ \A a, b \in Agents :
       agent[a].pc \in Begun /\ agent[b].pc \in Begun /\ a # b =>
         agent[a].turn # agent[b].turn
  /\ \A a \in Agents, p \in proposed :
       agent[a].pc \in Begun /\ p.turn = agent[a].turn =>
         agent[a].pc \in Places /\ p.proposal = agent[a].proposal

\* What a process has done when it is at a place.
Left(f, turn) == Written(f, turn) \/ Cut(f)
DoneInv ==
  \A a \in Agents, f \in Files :
    /\ agent[a].pc \in Places
    /\ agent[a].proposal[f] # None
    /\ agent[a].pc = "turn" \/ (agent[a].pc = "wiki" /\ f = "inventory")
    => Left(f, agent[a].turn)

Inv == StoreInv /\ TurnInv /\ DoneInv /\ ParentsPresent /\ TurnsComplete

-----------------------------------------------------------------------------
(* Files that grow. *)

Grew == DOMAIN lines' = Files /\ \A f \in Files : Kept(lines[f], lines'[f])

LEMMA LeftKept ==
  ASSUME Grew, NEW f \in Files, NEW turn, Left(f, turn)
  PROVE  Left(f, turn)'
<1>1. /\ lines[f] \in Seq(Lines) /\ lines'[f] \in Seq(Lines)
      /\ Len(lines[f]) \in Nat /\ Len(lines'[f]) \in Nat
      /\ DOMAIN lines[f] = 1..Len(lines[f]) /\ DOMAIN lines'[f] = 1..Len(lines'[f])
      /\ Len(lines[f]) <= Len(lines'[f])
  BY LenProperties DEF Grew, Kept
<1>2. \A i \in DOMAIN lines[f] :
        /\ i \in DOMAIN lines'[f]
        /\ lines'[f][i] = lines[f][i] \/ lines'[f][i] = Torn
  BY <1>1 DEF Grew, Kept
<1>3. QED
  BY <1>2 DEF Left, Written, Cut

LEMMA AgentKept ==
  ASSUME Grew, NEW m, AgentOK(m, lines)
  PROVE  AgentOK(m, lines')
<1>1. \A f \in Files : \A s : Kept(s, lines[f]) => Kept(s, lines'[f])
  BY KeptTransitive DEF Grew
<1>2. QED
  BY <1>1 DEF AgentOK

LEMMA SameGrew == ASSUME StoreInv, UNCHANGED lines PROVE Grew
BY KeptReflexive DEF StoreInv, Grew

\* A step that changes one process, while the files grow.
LEMMA OneAgent ==
  ASSUME StoreInv, Grew, inventory' \in Nat, NEW a \in Agents, NEW m, AgentOK(m, lines'),
         agent' = [agent EXCEPT ![a] = m]
  PROVE  StoreInv'
<1>1. \A f \in Files : lines'[f] \in Seq(Lines)
  BY DEF Grew, Kept
<1>2. ASSUME NEW b \in Agents PROVE AgentOK(agent'[b], lines')
  <2>1. CASE b = a
    BY <2>1 DEF StoreInv
  <2>2. CASE b # a
    <3>1. agent'[b] = agent[b] /\ AgentOK(agent[b], lines)
      BY <2>2 DEF StoreInv
    <3>2. QED
      BY <3>1, AgentKept
  <2>3. QED
    BY <2>1, <2>2
<1>3. QED
  BY <1>1, <1>2 DEF StoreInv, Grew

-----------------------------------------------------------------------------
(* Parents. *)

ParentOf(s, i) ==
  LET place == s[i].sequence - 1
  IN \/ s[i] = Torn
     \/ s[i].parent = None /\ s[i].sequence = 1
     \/ /\ place \in 1..i - 1
        /\ \/ s[place] = Torn
           \/ /\ s[place].id = s[i].parent
              /\ s[place].sequence = place
              /\ s[place].inventory = s[i].inventory

LEMMA ParentsSame ==
  ParentsPresent <=> \A f \in Files : \A i \in DOMAIN lines[f] : ParentOf(lines[f], i)
BY DEF ParentsPresent, ParentOf

\* What happens to a file changes nothing for the lines it has.
LEMMA ParentKept ==
  ASSUME NEW s, NEW t, Kept(s, t), NEW i \in DOMAIN s, ParentOf(s, i)
  PROVE  ParentOf(t, i)
<1>1. Len(s) \in Nat /\ DOMAIN s = 1..Len(s)
  BY LenProperties DEF Kept
<1>2. \A j \in 1..i : t[j] = s[j] \/ t[j] = Torn
  BY <1>1 DEF Kept
<1>3. /\ t[i] = s[i] \/ t[i] = Torn
      /\ \A j \in 1..i - 1 : t[j] = s[j] \/ t[j] = Torn
  BY <1>1, <1>2
<1>4. QED
  BY <1>3, Zenon DEF ParentOf

\* A revision follows the last line of what its process has read.
LEMMA RevisionFollows ==
  ASSUME NEW f \in Files, NEW m, NEW t, NEW i \in Nat, AgentOK(m, lines),
         m.pc \in Places, Kept(lines[f], t), i = Len(lines[f]) + 1,
         t[i] = Revision(f, m)
  PROVE  ParentOf(t, i)
<1> DEFINE s == m.seen[f]
<1>1. /\ Kept(s, lines[f]) /\ Accepted(s, m.base)
      /\ Len(s) \in Nat /\ Len(lines[f]) \in Nat /\ DOMAIN s = 1..Len(s)
      /\ Len(s) <= Len(lines[f]) /\ Len(lines[f]) <= Len(t)
  BY LenProperties DEF AgentOK, Kept
<1>2. CASE s = << >>
  <2>1. t[i].parent = None /\ t[i].sequence = 1
    BY <1>2 DEF Revision, Identified
  <2>2. QED
    BY <2>1 DEF ParentOf
<1>3. CASE s # << >>
  <2>1. Len(s) \in DOMAIN s /\ Len(s) \in 1..i - 1
    <3>1. Len(s) # 0
      BY <1>1, <1>3, EmptySeq DEF Kept
    <3>2. QED
      BY <1>1, <3>1
  <2>2. t[Len(s)] = Last(s) \/ t[Len(s)] = Torn
    <3>1. lines[f][Len(s)] = s[Len(s)] \/ lines[f][Len(s)] = Torn
      BY <1>1, <2>1 DEF Kept
    <3>2. t[Len(s)] = lines[f][Len(s)] \/ t[Len(s)] = Torn
      BY <1>1, <2>1 DEF Kept
    <3>3. QED
      BY <3>1, <3>2 DEF Last
  <2>3. Last(s) # Torn /\ Last(s).inventory = m.base /\ Last(s).sequence = Len(s)
    BY <1>1, <2>1 DEF Accepted, Chain, Last
  <2>4. /\ t[i].parent = Last(s).id /\ t[i].inventory = m.base
        /\ t[i].sequence = Last(s).sequence + 1
    BY <1>3 DEF Revision, Identified
  <2>5. t[i].sequence - 1 = Len(s)
    BY <1>1, <2>3, <2>4
  <2>6. QED
    BY <2>1, <2>2, <2>3, <2>4, <2>5, Zenon DEF ParentOf
<1>4. QED
  BY <1>2, <1>3

\* An append to a file.
LEMMA FileAppended ==
  ASSUME StoreInv, OpenInv, NEW f \in Files, NEW x \in Lines, NEW t,
         t = Appended(lines[f], f \in open, x)
  PROVE  /\ Kept(lines[f], t) /\ t # << >>
         /\ \/ Len(t) = Len(lines[f]) /\ Len(lines[f]) \in DOMAIN t
               /\ t[Len(lines[f])] = Torn
            \/ Len(t) = Len(lines[f]) + 1 /\ t[Len(lines[f]) + 1] = x
<1>1. lines[f] \in Seq(Lines) /\ (f \in open => lines[f] # << >>)
  BY DEF StoreInv, OpenInv
<1>2. CASE f \in open
  <2>1. t = [lines[f] EXCEPT ![Len(lines[f])] = Torn]
    BY <1>2, Zenon DEF Appended
  <2>2. QED
    BY <1>1, <1>2, <2>1, SpoiledFacts, Zenon
<1>3. CASE f \notin open
  <2>1. t = Append(lines[f], x)
    BY <1>3, Zenon DEF Appended
  <2>2. QED
    BY <1>1, <2>1, AddedFacts, Zenon
<1>4. QED
  BY <1>2, <1>3

\* A file that gets a line.
LEMMA ParentsGrow ==
  ASSUME StoreInv, OpenInv, ParentsPresent, NEW f \in Files, NEW x \in Lines,
         lines' = [lines EXCEPT ![f] = Appended(lines[f], f \in open, x)],
         lines'[f][Len(lines[f]) + 1] = x =>
           x = Torn \/ ParentOf(lines'[f], Len(lines[f]) + 1)
  PROVE  ParentsPresent' /\ Grew
<1>1. /\ lines'[f] = Appended(lines[f], f \in open, x)
      /\ \A g \in Files \ {f} : lines'[g] = lines[g]
      /\ DOMAIN lines' = Files
  BY DEF StoreInv
<1>2. lines[f] \in Seq(Lines)
  BY DEF StoreInv
<1>3. /\ Kept(lines[f], lines'[f])
      /\ \/ Len(lines'[f]) = Len(lines[f])
         \/ /\ Len(lines'[f]) = Len(lines[f]) + 1
            /\ lines'[f][Len(lines[f]) + 1] = x
  BY <1>1, <1>2, FileAppended
<1>4. Grew
  BY <1>1, <1>3, KeptReflexive DEF StoreInv, Grew
<1>5. \A g \in Files : \A i \in DOMAIN lines[g] : ParentOf(lines'[g], i)
  BY <1>4, ParentsSame, ParentKept DEF Grew
<1>6. ASSUME NEW i \in DOMAIN lines'[f] PROVE ParentOf(lines'[f], i)
  <2>1. /\ lines'[f] \in Seq(Lines) /\ Len(lines[f]) \in Nat /\ Len(lines'[f]) \in Nat
        /\ DOMAIN lines[f] = 1..Len(lines[f]) /\ DOMAIN lines'[f] = 1..Len(lines'[f])
    BY <1>2, <1>4, LenProperties DEF Grew, Kept
  <2>2. CASE i \in DOMAIN lines[f]
    BY <1>5, <2>2
  <2>3. CASE i \notin DOMAIN lines[f]
    <3>1. Len(lines'[f]) = Len(lines[f]) + 1 /\ lines'[f][Len(lines[f]) + 1] = x
      BY <1>3, <2>1, <2>3
    <3>2. i = Len(lines[f]) + 1
      BY <2>1, <2>3, <3>1
    <3>3. QED
      BY <3>1, <3>2 DEF ParentOf
  <2>4. QED
    BY <2>2, <2>3
<1>7. \A g \in Files : \A i \in DOMAIN lines'[g] : ParentOf(lines'[g], i)
  BY <1>1, <1>5, <1>6
<1>8. QED
  BY <1>4, <1>7 DEF ParentsPresent, ParentOf

LEMMA ParentsUnchanged == ASSUME ParentsPresent, UNCHANGED lines PROVE ParentsPresent'
BY DEF ParentsPresent

\* The revision a process appends is a line.
LEMMA RevisionIsLine ==
  ASSUME NEW f \in Files, NEW m, AgentOK(m, lines), m.pc \in Places
  PROVE  Revision(f, m) \in Lines /\ Revision(f, m).turn = m.turn
<1> DEFINE s == m.seen[f]
           sequence == IF s = << >> THEN 1 ELSE Last(s).sequence + 1
           parent == IF s = << >> THEN None ELSE Last(s).id
<1>1. /\ s \in Seq(Lines) /\ Accepted(s, m.base) /\ Len(s) \in Nat /\ DOMAIN s = 1..Len(s)
      /\ m.proposal[f] \in Changes \cup {None} /\ m.base \in Nat /\ m.turn \in Nat
  BY LenProperties DEF AgentOK, Kept
<1>2. sequence \in Nat /\ parent \in Ids \cup {None}
  <2>1. CASE s = << >>
    BY <2>1
  <2>2. CASE s # << >>
    <3>1. Len(s) \in DOMAIN s
      BY <1>1, <2>2, EmptySeq
    <3>2. Last(s) \in Lines \ {Torn}
      BY <1>1, <3>1, ElementOfSeq DEF Accepted, Last
    <3>3. QED
      BY <2>2, <3>2 DEF Lines
  <2>3. QED
    BY <2>1, <2>2
<1>3. Revision(f, m) = Identified(f, m.base, sequence, parent, m.proposal[f], m.turn)
  BY DEF Revision
<1> HIDE DEF sequence, parent
<1>4. QED
  BY <1>1, <1>2, <1>3 DEF Identified, Lines, Ids

-----------------------------------------------------------------------------
(* Turns. *)

\* What happens to the processes while no turn begins, is answered or recorded.
Continues ==
  \A b \in Agents : agent'[b].pc \in Begun =>
    /\ agent[b].pc \in Begun
    /\ agent'[b].turn = agent[b].turn
    /\ agent[b].pc \in Places =>
         agent'[b].pc \in Places /\ agent'[b].proposal = agent[b].proposal

LEMMA TurnKept ==
  ASSUME TurnInv, Continues, UNCHANGED <<begun, turns, proposed>>
  PROVE  TurnInv'
BY DEF TurnInv, Continues

LEMMA DoneKept ==
  ASSUME DoneInv, Grew, \A b \in Agents : agent'[b].pc \in Places => agent'[b] = agent[b]
  PROVE  DoneInv'
BY LeftKept DEF DoneInv

\* A step that brings one process to a place.
LEMMA DoneExcept ==
  ASSUME DoneInv, Grew, NEW a \in Agents,
         \A b \in Agents \ {a} : agent'[b] = agent[b],
         \A f \in Files :
           /\ agent'[a].proposal[f] # None
           /\ agent'[a].pc = "turn" \/ (agent'[a].pc = "wiki" /\ f = "inventory")
           => Left(f, agent[a].turn)'
  PROVE  DoneInv'
<1>1. \A b \in Agents \ {a}, f \in Files :
        Left(f, agent[b].turn) /\ agent'[b] = agent[b] => Left(f, agent[b].turn)'
  BY LeftKept DEF Left, Written, Cut
<1>2. QED
  BY <1>1 DEF DoneInv

LEMMA CompleteKept ==
  ASSUME TurnsComplete, Grew, UNCHANGED <<turns, proposed>>
  PROVE  TurnsComplete'
BY LeftKept DEF TurnsComplete, Left

\* A process that is idle holds nothing.
LEMMA IdleOK == AgentOK(Idle, lines)
BY DEF AgentOK, Idle, Fields, Begun, Places

-----------------------------------------------------------------------------
(* One lemma per action. *)

LEMMA InitInv == Init => Inv
<1> SUFFICES ASSUME Init PROVE Inv
  OBVIOUS
<1>1. \A f \in Files : lines[f] = << >>
  BY DEF Init
<1>2. \A f \in Files : lines[f] \in Seq(Lines) /\ DOMAIN lines[f] = {}
  <2>1. << >> \in Seq(Lines) /\ Len(<< >>) = 0
    BY EmptySeq
  <2>2. DOMAIN << >> = {}
    BY <2>1, LenProperties
  <2>3. QED
    BY <1>1, <2>1, <2>2
<1>3. StoreInv
  BY <1>2, IdleOK DEF StoreInv, Init
<1>4. TurnInv
  BY DEF TurnInv, Init, Idle, Begun, Places
<1>5. DoneInv
  BY DEF DoneInv, Init, Idle, Places
<1>6. ParentsPresent /\ TurnsComplete
  BY <1>2 DEF ParentsPresent, TurnsComplete, Init
<1>7. QED
  BY <1>3, <1>4, <1>5, <1>6 DEF Inv

LEMMA BeginKeeps == ASSUME Inv, NEW a \in Agents, Begin(a) PROVE Inv'
<1> DEFINE m == [Idle EXCEPT !.pc = "reading", !.turn = begun', !.base = inventory]
<1> USE DEF Inv
<1>1. /\ agent' = [agent EXCEPT ![a] = m] /\ begun' = begun + 1 /\ agent[a].pc = "idle"
      /\ UNCHANGED <<inventory, lines, turns, proposed>>
  BY DEF Begin
<1>2. m.pc = "reading" /\ m.turn = begun + 1
  BY <1>1 DEF Idle
<1>3. \A b \in Agents : agent'[b] = IF b = a THEN m ELSE agent[b]
  BY <1>1 DEF StoreInv
<1>4. Grew
  BY <1>1, SameGrew
<1>5. StoreInv'
  <2>1. AgentOK(m, lines')
    BY <1>1 DEF AgentOK, Idle, Fields, Begun, Places, StoreInv, TurnInv
  <2>2. QED
    BY <1>1, <1>4, <2>1, OneAgent DEF StoreInv
<1> HIDE DEF m
<1>6. TurnInv'
  <2>1. /\ begun \in Nat /\ begun' \in Nat
        /\ begun' \notin 1..begun /\ 1..begun \subseteq 1..begun'
    BY <1>1 DEF TurnInv
  <2>2. begun' \in 1..begun'
    BY <1>1, <2>1
  <2>3. \A b \in Agents : b # a => agent'[b] = agent[b]
    BY <1>3
  <2>4. agent'[a].pc = "reading" /\ agent'[a].turn = begun'
    BY <1>1, <1>2, <1>3
  <2>5. turns' = turns /\ proposed' = proposed
    BY <1>1
  <2>6. QED
    BY <2>1, <2>2, <2>3, <2>4, <2>5 DEF TurnInv, Begun, Places
<1>7. DoneInv'
  BY <1>2, <1>3, <1>4, DoneKept DEF Places
<1>8. ParentsPresent' /\ TurnsComplete'
  BY <1>1, <1>4, ParentsUnchanged, CompleteKept
<1>9. QED
  BY <1>5, <1>6, <1>7, <1>8

LEMMA ReadKeeps == ASSUME Inv, NEW a \in Agents, NEW f \in Files, Read(a, f) PROVE Inv'
<1> DEFINE seen == agent[a].seen
           m == [agent[a] EXCEPT !.seen = [g \in DOMAIN seen \cup {f} |->
                                             IF g = f THEN lines[f] ELSE seen[g]]]
<1> USE DEF Inv
<1>1. /\ agent' = [agent EXCEPT ![a] = m] /\ agent[a].pc = "reading"
      /\ UNCHANGED <<inventory, lines, turns, proposed, begun>>
  BY DEF Read
<1>2. m.pc = "reading" /\ m.turn = agent[a].turn /\ m.base = agent[a].base
  BY <1>1 DEF StoreInv, AgentOK, Fields
<1>3. \A b \in Agents : agent'[b] = IF b = a THEN m ELSE agent[b]
  BY <1>1 DEF StoreInv
<1>4. Grew
  BY <1>1, SameGrew
<1>5. StoreInv'
  <2>1. AgentOK(m, lines)
    <3>1. /\ DOMAIN m = Fields
          /\ m.seen = [g \in DOMAIN seen \cup {f} |-> IF g = f THEN lines[f] ELSE seen[g]]
      BY DEF StoreInv, AgentOK, Fields
    <3>2. \A g \in Files : g \in DOMAIN m.seen => Kept(m.seen[g], lines[g])
      BY <1>1, <3>1, KeptReflexive DEF StoreInv, AgentOK
    <3>3. m.turn \in Nat /\ m.base \in Nat
      BY <1>2 DEF StoreInv, AgentOK
    <3>4. m.pc = "refused" => ~Checked(m)
      BY <1>2 DEF Checked
    <3> HIDE DEF m
    <3>5. QED
      BY <1>2, <3>1, <3>2, <3>3, <3>4 DEF AgentOK, Begun, Places
  <2>2. QED
    BY <1>1, <1>4, <2>1, AgentKept, OneAgent DEF StoreInv
<1> HIDE DEF m
<1>6. TurnInv'
  <2>1. Continues
    BY <1>1, <1>2, <1>3 DEF Continues, Begun, Places
  <2>2. QED
    BY <1>1, <2>1, TurnKept
<1>7. DoneInv'
  BY <1>2, <1>3, <1>4, DoneKept DEF Places
<1>8. ParentsPresent' /\ TurnsComplete'
  BY <1>1, <1>4, ParentsUnchanged, CompleteKept
<1>9. QED
  BY <1>5, <1>6, <1>7, <1>8

LEMMA CheckKeeps == ASSUME Inv, NEW a \in Agents, Check(a) PROVE Inv'
<1> DEFINE pc == IF Checked(agent[a]) THEN "asking" ELSE "refused"
           m == [agent[a] EXCEPT !.pc = pc]
<1> USE DEF Inv
<1>1. /\ agent' = [agent EXCEPT ![a] = m] /\ agent[a].pc = "reading"
      /\ DOMAIN agent[a].seen = Files
      /\ UNCHANGED <<inventory, lines, turns, proposed, begun>>
  BY DEF Check
<1>2. /\ m.pc = pc /\ m.turn = agent[a].turn /\ m.base = agent[a].base
      /\ m.seen = agent[a].seen /\ DOMAIN m = Fields /\ m.pc \in {"asking", "refused"}
  BY DEF StoreInv, AgentOK, Fields
<1>3. \A b \in Agents : agent'[b] = IF b = a THEN m ELSE agent[b]
  BY <1>1 DEF StoreInv
<1>4. Grew
  BY <1>1, SameGrew
<1>5. StoreInv'
  <2>1. AgentOK(m, lines)
    <3>1. \A g \in Files : Kept(m.seen[g], lines[g])
      BY <1>1, <1>2 DEF StoreInv, AgentOK
    <3>2. m.pc = "asking" => \A g \in Files : Accepted(m.seen[g], m.base)
      BY <1>2 DEF Checked
    <3>3. m.turn \in Nat /\ m.base \in Nat
      BY <1>2 DEF StoreInv, AgentOK
    <3>4. m.pc = "refused" => ~Checked(m)
      BY <1>2 DEF Checked
    <3> HIDE DEF m
    <3>5. QED
      BY <1>2, <3>1, <3>2, <3>3, <3>4 DEF AgentOK, Begun, Places
  <2>2. QED
    BY <1>1, <1>4, <2>1, AgentKept, OneAgent DEF StoreInv
<1> HIDE DEF m
<1>6. TurnInv'
  <2>1. Continues
    BY <1>1, <1>2, <1>3 DEF Continues, Begun, Places
  <2>2. QED
    BY <1>1, <2>1, TurnKept
<1>7. DoneInv'
  BY <1>2, <1>3, <1>4, DoneKept DEF Places
<1>8. ParentsPresent' /\ TurnsComplete'
  BY <1>1, <1>4, ParentsUnchanged, CompleteKept
<1>9. QED
  BY <1>5, <1>6, <1>7, <1>8

LEMMA FailKeeps == ASSUME Inv, NEW a \in Agents, Fail(a) PROVE Inv'
<1> USE DEF Inv
<1>1. /\ agent' = [agent EXCEPT ![a] = Idle]
      /\ UNCHANGED <<inventory, lines, turns, proposed, begun>>
  BY DEF Fail
<1>2. Idle.pc = "idle" /\ \A b \in Agents : agent'[b] = IF b = a THEN Idle ELSE agent[b]
  BY <1>1 DEF StoreInv, Idle
<1>3. Grew
  BY <1>1, SameGrew
<1>4. StoreInv'
  BY <1>1, <1>3, IdleOK, AgentKept, OneAgent DEF StoreInv
<1>5. TurnInv'
  <2>1. Continues
    BY <1>2 DEF Continues, Begun, Places
  <2>2. QED
    BY <1>1, <2>1, TurnKept
<1>6. DoneInv'
  BY <1>2, <1>3, DoneKept DEF Places
<1>7. ParentsPresent' /\ TurnsComplete'
  BY <1>1, <1>3, ParentsUnchanged, CompleteKept
<1>8. QED
  BY <1>4, <1>5, <1>6, <1>7

LEMMA AnswerKeeps ==
  ASSUME Inv, NEW a \in Agents, NEW proposal \in [Files -> Changes \cup {None}],
         Answer(a, proposal)
  PROVE  Inv'
<1> DEFINE asked == [agent[a] EXCEPT !.proposal = proposal]
           m == [asked EXCEPT !.pc = Place(asked, {})]
           p == [turn |-> agent[a].turn, proposal |-> proposal]
<1> USE DEF Inv
<1>1. /\ agent' = [agent EXCEPT ![a] = m] /\ agent[a].pc = "asking"
      /\ UNCHANGED <<inventory, lines, turns, begun>>
  BY DEF Answer
<1>2. /\ asked.proposal = proposal /\ asked.turn = agent[a].turn
      /\ asked.base = agent[a].base /\ asked.seen = agent[a].seen /\ DOMAIN asked = Fields
  BY DEF StoreInv, AgentOK, Fields
<1>3. proposed' = proposed \cup {p}
  BY <1>2 DEF Answer
<1>4. /\ m.pc = Place(asked, {}) /\ m.proposal = proposal /\ m.turn = agent[a].turn
      /\ m.base = agent[a].base /\ m.seen = agent[a].seen /\ DOMAIN m = Fields
  BY <1>2 DEF Fields
<1>5. /\ m.pc \in Places
      /\ m.pc = "wiki" => proposal["inventory"] = None
      /\ m.pc = "turn" => proposal["inventory"] = None /\ proposal["wiki"] = None
  <2>1. "inventory" \in Files /\ "wiki" \in Files
    BY DEF Files
  <2>2. \A f \in Files : f \in Revised(asked) \ {} <=> proposal[f] # None
    BY <1>2 DEF Revised
  <2> HIDE DEF m, asked
  <2>3. QED
    BY <1>4, <2>1, <2>2 DEF Place, Places
<1>6. \A b \in Agents : agent'[b] = IF b = a THEN m ELSE agent[b]
  BY <1>1 DEF StoreInv
<1>7. Grew
  BY <1>1, SameGrew
<1>8. StoreInv'
  <2>1. AgentOK(m, lines)
    <3>1. AgentOK(agent[a], lines)
      BY DEF StoreInv
    <3> HIDE DEF m
    <3>2. QED
      BY <1>1, <1>4, <1>5, <3>1 DEF AgentOK, Begun, Places
  <2>2. QED
    BY <1>1, <1>7, <2>1, AgentKept, OneAgent DEF StoreInv
<1>9. TurnInv'
  <2>1. agent[a].pc \in Begun /\ agent[a].pc \notin Places
    BY <1>1 DEF Begun, Places
  <2>2. \A b \in Agents : b # a /\ agent[b].pc \in Begun => agent[b].turn # p.turn
    BY <2>1 DEF TurnInv
  <2>3. \A q \in proposed : q.turn # p.turn
    BY <2>1 DEF TurnInv
  <2>4. p.turn = agent[a].turn /\ p.proposal = proposal /\ p.turn \in (1..begun) \ turns
    BY <2>1 DEF TurnInv
  <2>5. turns' = turns /\ begun' = begun
    BY <1>1
  <2>6. m.pc \in Begun
    BY <1>5 DEF Begun
  <2> HIDE DEF m, p
  <2>7. \A b \in Agents : b # a => agent'[b] = agent[b]
    BY <1>6
  <2>8. agent'[a] = m
    BY <1>6
  <2>9. QED
    BY <1>3, <1>4, <1>5, <2>1, <2>2, <2>3, <2>4, <2>5, <2>6, <2>7, <2>8 DEF TurnInv
<1>10. DoneInv'
  <2>1. \A f \in Files :
          ~ /\ agent'[a].proposal[f] # None
            /\ agent'[a].pc = "turn" \/ (agent'[a].pc = "wiki" /\ f = "inventory")
    BY <1>4, <1>5, <1>6 DEF Files
  <2>2. \A b \in Agents \ {a} : agent'[b] = agent[b]
    BY <1>6
  <2>3. QED
    BY <1>7, <2>1, <2>2, DoneExcept
<1>11. ParentsPresent'
  BY <1>1, ParentsUnchanged
<1>12. TurnsComplete'
  <2>1. p.turn \notin turns
    BY <1>1 DEF TurnInv, Begun
  <2>2. lines' = lines /\ turns' = turns
    BY <1>1
  <2> HIDE DEF p
  <2>3. QED
    BY <1>3, <2>1, <2>2 DEF TurnsComplete, Written, Cut
<1>13. QED
  BY <1>8, <1>9, <1>10, <1>11, <1>12

\* Where a process goes after an append.
LEMMA AdvanceFacts ==
  ASSUME StoreInv, NEW a \in Agents, NEW done, Advance(a, done), agent[a].pc \in Places
  PROVE  \E m : /\ agent' = [agent EXCEPT ![a] = m]
                /\ \A files : AgentOK(agent[a], files) => AgentOK(m, files)
                /\ m.pc \in Begun => /\ m.pc = Place(agent[a], done)
                                     /\ m.pc \in Places
                                     /\ m.turn = agent[a].turn
                                     /\ m.proposal = agent[a].proposal
                /\ Place(agent[a], done) = "idle" => m = Idle
<1> DEFINE next == Place(agent[a], done)
           m == IF next = "idle" THEN Idle ELSE [agent[a] EXCEPT !.pc = next]
<1>1. agent' = [agent EXCEPT ![a] = m]
  BY DEF Advance
<1>2. next \in {"idle"} \cup Places
  BY DEF Place, Places
<1>3. CASE next = "idle"
  <2>1. m = Idle /\ m.pc = "idle"
    BY <1>3 DEF Idle
  <2>2. \A files : AgentOK(Idle, files)
    BY DEF AgentOK, Idle, Fields, Begun, Places
  <2>3. m.pc \notin Begun
    BY <2>1 DEF Begun, Places
  <2>4. QED
    BY <1>1, <2>1, <2>2, <2>3
<1>4. CASE next # "idle"
  <2>1. /\ m.pc = next /\ m.turn = agent[a].turn /\ m.base = agent[a].base
        /\ m.seen = agent[a].seen /\ m.proposal = agent[a].proposal /\ DOMAIN m = Fields
    BY <1>4 DEF StoreInv, AgentOK, Fields
  <2>2. next \in Places
    BY <1>2, <1>4
  <2> HIDE DEF m, next
  <2>3. ASSUME NEW files, AgentOK(agent[a], files) PROVE AgentOK(m, files)
    BY <2>1, <2>2, <2>3 DEF AgentOK, Begun, Places
  <2> USE DEF next
  <2>4. QED
    BY <1>1, <1>4, <2>1, <2>2, <2>3
<1>5. QED
  BY <1>3, <1>4

LEMMA AppendRevisionKeeps ==
  ASSUME Inv, OpenInv, NEW a \in Agents, NEW f \in Files, AppendRevision(a, f)
  PROVE  Inv'
<1> DEFINE x == Revision(f, agent[a])
<1> USE DEF Inv
<1>1. /\ agent[a].pc = f /\ f \in Places /\ AgentOK(agent[a], lines)
      /\ lines' = [lines EXCEPT ![f] = Appended(lines[f], f \in open, x)]
      /\ Advance(a, Before(f))
      /\ UNCHANGED <<inventory, turns, proposed, begun>>
  BY DEF AppendRevision, Files, Places, StoreInv
<1>2. x \in Lines /\ x.turn = agent[a].turn
  BY <1>1, RevisionIsLine
<1>3. /\ lines'[f] = Appended(lines[f], f \in open, x) /\ lines[f] \in Seq(Lines)
      /\ Kept(lines[f], lines'[f])
  <2>1. lines'[f] = Appended(lines[f], f \in open, x) /\ lines[f] \in Seq(Lines)
    BY <1>1 DEF StoreInv
  <2> HIDE DEF x
  <2>2. QED
    BY <1>2, <2>1, FileAppended
<1>4. PICK m : /\ agent' = [agent EXCEPT ![a] = m]
               /\ \A files : AgentOK(agent[a], files) => AgentOK(m, files)
               /\ m.pc \in Begun => /\ m.pc = Place(agent[a], Before(f))
                                    /\ m.pc \in Places
                                    /\ m.turn = agent[a].turn
                                    /\ m.proposal = agent[a].proposal
  BY <1>1, AdvanceFacts
<1>5. \A b \in Agents : agent'[b] = IF b = a THEN m ELSE agent[b]
  BY <1>4 DEF StoreInv
<1>6. ParentsPresent' /\ Grew
  <2>1. ASSUME lines'[f][Len(lines[f]) + 1] = x
        PROVE  ParentOf(lines'[f], Len(lines[f]) + 1)
    <3>1. Len(lines[f]) + 1 \in Nat
      BY <1>3, LenProperties
    <3>2. QED
      BY <1>1, <1>3, <2>1, <3>1, RevisionFollows
  <2> HIDE DEF x
  <2>2. QED
    BY <1>1, <1>2, <2>1, ParentsGrow
<1>7. StoreInv'
  BY <1>1, <1>4, <1>6, AgentKept, OneAgent DEF StoreInv
<1>8. TurnInv'
  <2>1. Continues
    BY <1>1, <1>4, <1>5 DEF Continues, Begun
  <2>2. QED
    BY <1>1, <2>1, TurnKept
<1>9. DoneInv'
  <2>1. Written(f, agent[a].turn)' \/ Cut(f)' \/ agent'[a].turn # agent[a].turn
    <3>1. /\ Len(lines[f]) \in Nat /\ Len(lines'[f]) \in Nat
          /\ DOMAIN lines'[f] = 1..Len(lines'[f])
      BY <1>3, LenProperties DEF Kept
    <3>2. CASE Len(lines[f]) \in DOMAIN lines'[f] /\ lines'[f][Len(lines[f])] = Torn
      BY <3>2 DEF Cut
    <3>3. CASE Len(lines'[f]) = Len(lines[f]) + 1 /\ lines'[f][Len(lines[f]) + 1] = x
      <4>1. Len(lines[f]) + 1 \in DOMAIN lines'[f]
        BY <3>1, <3>3
      <4> HIDE DEF x
      <4>2. QED
        BY <1>2, <3>3, <4>1 DEF Cut, Written
    <3> HIDE DEF x
    <3>4. QED
      BY <1>2, <1>3, <3>2, <3>3, FileAppended
  <2>2. ASSUME NEW g \in Files, agent'[a].proposal[g] # None,
               agent'[a].pc = "turn" \/ (agent'[a].pc = "wiki" /\ g = "inventory")
        PROVE  Left(g, agent[a].turn)'
    <3>1. agent'[a] = m /\ m.pc \in Begun
      BY <1>5, <2>2 DEF Begun, Places
    <3>2. /\ agent'[a].pc = Place(agent[a], Before(f)) /\ agent'[a].turn = agent[a].turn
          /\ agent'[a].proposal = agent[a].proposal
      BY <1>4, <3>1
    <3>3. g = f \/ (g = "inventory" /\ f = "wiki")
      <4>1. agent[a].proposal[g] # None
        BY <2>2, <3>2
      <4>2. g \in Revised(agent[a])
        BY <4>1 DEF Revised
      <4>3. f = "inventory" \/ f = "wiki"
        BY DEF Files
      <4>4. CASE f = "inventory"
        BY <2>2, <3>2, <4>2, <4>4 DEF Place, Before, Files
      <4>5. CASE f = "wiki"
        BY <2>2, <3>2, <4>2, <4>5 DEF Place, Before, Files
      <4>6. QED
        BY <4>3, <4>4, <4>5
    <3>4. CASE g = f
      BY <2>1, <3>2, <3>4 DEF Left
    <3>5. CASE g = "inventory" /\ f = "wiki"
      <4>1. Left(g, agent[a].turn)
        BY <1>1, <2>2, <3>2, <3>5 DEF DoneInv
      <4>2. QED
        BY <1>6, <3>2, <4>1, LeftKept DEF Left, Written, Cut
    <3>6. QED
      BY <3>3, <3>4, <3>5
  <2>3. \A b \in Agents \ {a} : agent'[b] = agent[b]
    BY <1>5
  <2>4. QED
    BY <1>6, <2>2, <2>3, DoneExcept
<1>10. TurnsComplete'
  BY <1>1, <1>6, CompleteKept
<1>11. QED
  BY <1>6, <1>7, <1>8, <1>9, <1>10

LEMMA AppendTurnKeeps == ASSUME Inv, NEW a \in Agents, AppendTurn(a) PROVE Inv'
<1> USE DEF Inv
<1>1. /\ agent[a].pc = "turn" /\ turns' = turns \cup {agent[a].turn}
      /\ agent' = [agent EXCEPT ![a] = Idle]
      /\ UNCHANGED <<inventory, lines, proposed, begun>>
  <2>1. Place(agent[a], Before("turn")) = "idle"
    BY DEF Place, Before, Revised, Files
  <2>2. QED
    BY <2>1 DEF AppendTurn, Advance
<1>2. Idle.pc = "idle" /\ \A b \in Agents : agent'[b] = IF b = a THEN Idle ELSE agent[b]
  BY <1>1 DEF StoreInv, Idle
<1>3. Grew
  BY <1>1, SameGrew
<1>4. StoreInv'
  BY <1>1, <1>3, IdleOK, AgentKept, OneAgent DEF StoreInv
<1>5. TurnInv'
  <2>1. agent[a].pc \in Begun /\ agent'[a].pc \notin Begun
    BY <1>1, <1>2 DEF Begun, Places
  <2>2. \A b \in Agents : b # a => agent'[b] = agent[b]
    BY <1>2
  <2>3. QED
    BY <1>1, <2>1, <2>2 DEF TurnInv
<1>6. DoneInv'
  BY <1>2, <1>3, DoneKept DEF Places
<1>7. ParentsPresent'
  BY <1>1, ParentsUnchanged
<1>8. TurnsComplete'
  <2>1. ASSUME NEW p \in proposed, p.turn = agent[a].turn, NEW f \in Files,
               p.proposal[f] # None
        PROVE  Left(f, p.turn)
    BY <1>1, <2>1 DEF TurnInv, DoneInv, Begun, Places
  <2>2. lines' = lines /\ proposed' = proposed
    BY <1>1
  <2>3. QED
    BY <1>1, <2>1, <2>2 DEF TurnsComplete, Left, Written, Cut
<1>9. QED
  BY <1>4, <1>5, <1>6, <1>7, <1>8

LEMMA CrashKeeps == ASSUME Inv, OpenInv, NEW a \in Agents, Crash(a) PROVE Inv'
<1> USE DEF Inv
<1>1. /\ agent' = [agent EXCEPT ![a] = Idle]
      /\ UNCHANGED <<inventory, turns, proposed, begun>>
  BY DEF Crash
<1>2. Idle.pc = "idle" /\ \A b \in Agents : agent'[b] = IF b = a THEN Idle ELSE agent[b]
  BY <1>1 DEF StoreInv, Idle
<1>3. ParentsPresent' /\ Grew
  <2>1. CASE UNCHANGED lines
    BY <2>1, ParentsUnchanged, SameGrew
  <2>2. ASSUME NEW f \in Files, NEW part \in {Torn, Revision(f, agent[a])},
               agent[a].pc = f,
               lines' = [lines EXCEPT ![f] = Appended(lines[f], f \in open, part)]
        PROVE  ParentsPresent' /\ Grew
    <3>1. AgentOK(agent[a], lines) /\ agent[a].pc \in Places
      BY <2>2 DEF StoreInv, Files, Places
    <3>2. part \in Lines
      BY <3>1, RevisionIsLine DEF Lines
    <3>3. lines'[f] = Appended(lines[f], f \in open, part) /\ lines[f] \in Seq(Lines)
      BY <2>2 DEF StoreInv
    <3>4. Kept(lines[f], lines'[f])
      BY <3>2, <3>3, FileAppended
    <3>5. ASSUME lines'[f][Len(lines[f]) + 1] = part, part # Torn
          PROVE  ParentOf(lines'[f], Len(lines[f]) + 1)
      <4>1. Len(lines[f]) + 1 \in Nat
        BY <3>3, LenProperties
      <4>2. lines'[f][Len(lines[f]) + 1] = Revision(f, agent[a])
        BY <3>5
      <4>3. QED
        BY <3>1, <3>4, <4>1, <4>2, RevisionFollows
    <3>6. QED
      BY <2>2, <3>2, <3>5, ParentsGrow
  <2>3. QED
    BY <2>1, <2>2 DEF Crash
<1>4. StoreInv'
  <2>1. AgentOK(Idle, lines')
    BY <1>3, IdleOK, AgentKept
  <2>2. QED
    BY <1>1, <1>3, <2>1, OneAgent DEF StoreInv
<1>5. TurnInv'
  <2>1. Continues
    BY <1>2 DEF Continues, Begun, Places
  <2>2. QED
    BY <1>1, <2>1, TurnKept
<1>6. DoneInv'
  BY <1>2, <1>3, DoneKept DEF Places
<1>7. TurnsComplete'
  BY <1>1, <1>3, CompleteKept
<1>8. QED
  BY <1>3, <1>4, <1>5, <1>6, <1>7

\* Another inventory, or nothing.
LEMMA OthersKeep ==
  ASSUME Inv, inventory' \in Nat, UNCHANGED <<lines, turns, agent, proposed, begun>>
  PROVE  Inv'
BY DEF Inv, StoreInv, AgentOK, TurnInv, DoneInv, ParentsPresent, TurnsComplete,
       Left, Written, Cut

LEMMA NextInv == Inv /\ OpenInv /\ [Next]_vars => Inv'
<1> SUFFICES ASSUME Inv, OpenInv, [Next]_vars PROVE Inv'
  OBVIOUS
<1>1. inventory \in Nat
  BY DEF Inv, StoreInv
<1>2. CASE UNCHANGED vars
  BY <1>1, <1>2, OthersKeep DEF vars
<1>3. CASE Replace
  BY <1>1, <1>3, OthersKeep DEF Replace
<1>4. CASE Terminated
  BY <1>1, <1>4, OthersKeep DEF Terminated, vars
<1>5. ASSUME NEW a \in Agents,
             \/ Begin(a) \/ Check(a) \/ Fail(a) \/ AppendTurn(a) \/ Crash(a)
             \/ \E f \in Files : Read(a, f) \/ AppendRevision(a, f)
             \/ \E proposal \in [Files -> Changes \cup {None}] : Answer(a, proposal)
      PROVE  Inv'
  BY <1>5, BeginKeeps, CheckKeeps, FailKeeps, AppendTurnKeeps, CrashKeeps, ReadKeeps,
     AppendRevisionKeeps, AnswerKeeps
<1>6. QED
  BY <1>2, <1>3, <1>4, <1>5 DEF Next

LEMMA NextOpen == Inv /\ OpenInv /\ [Next]_vars => OpenInv'
<1> SUFFICES ASSUME Inv, OpenInv, [Next]_vars PROVE OpenInv'
  OBVIOUS
<1> USE DEF Inv
<1>1. CASE UNCHANGED <<lines, open>>
  BY <1>1 DEF OpenInv
<1>2. ASSUME NEW a \in Agents, NEW f \in Files, AppendRevision(a, f) PROVE OpenInv'
  BY <1>2 DEF AppendRevision, OpenInv, StoreInv
<1>3. ASSUME NEW a \in Agents, NEW f \in Files, NEW part \in {Torn, Revision(f, agent[a])},
             agent[a].pc = f, open' = open \cup {f},
             lines' = [lines EXCEPT ![f] = Appended(lines[f], f \in open, part)]
      PROVE  OpenInv'
  <2>1. AgentOK(agent[a], lines) /\ agent[a].pc \in Places
    BY <1>3 DEF StoreInv, Files, Places
  <2>2. part \in Lines
    BY <2>1, RevisionIsLine DEF Lines
  <2>3. lines'[f] = Appended(lines[f], f \in open, part)
    BY <1>3 DEF StoreInv
  <2>4. lines'[f] # << >>
    BY <2>2, <2>3, FileAppended
  <2>5. \A g \in Files \ {f} : lines'[g] = lines[g]
    BY <1>3 DEF StoreInv
  <2>6. QED
    BY <1>3, <2>4, <2>5 DEF OpenInv
<1>4. ASSUME NEW a \in Agents, Crash(a) PROVE OpenInv'
  BY <1>1, <1>3, <1>4 DEF Crash
<1>5. QED
  BY <1>1, <1>2, <1>4 DEF Next, vars, Begin, Read, Check, Answer, Fail, AppendTurn,
     Replace, Terminated

-----------------------------------------------------------------------------
(* A file that is not damaged. *)

Less == {p \in Nat \X Nat : p[1] < p[2]}

LEMMA FirstOf ==
  ASSUME NEW T \in SUBSET Nat, T # {}
  PROVE  \E x \in T : \A y \in T : x <= y
<1>1. IsWellFoundedOn(Less, Nat)
  BY NatLessThanWellFounded DEF OpToRel, Less
<1>2. \E x \in T : \A y \in T : ~(<<y, x>> \in Less)
  BY <1>1, WFMin, Zenon
<1>3. PICK x \in T : \A y \in T : <<y, x>> \notin Less
  BY <1>2
<1>4. ASSUME NEW y \in T PROVE x <= y
  <2>1. ~(y < x)
    BY <1>3 DEF Less
  <2>2. QED
    BY <2>1
<1>5. QED
  BY <1>4

\* Lines of one inventory, each with its parent before it and no two with one
\* sequence number, are a chain: the first line that is out of place would follow
\* a line whose successor stands before it.
LEMMA UndamagedChain ==
  ASSUME StoreInv, ParentsPresent, NEW f \in Files, NEW base,
         ~Cut(f), ~Forked(f), ~Foreign(f, base)
  PROVE  Accepted(lines[f], base)
<1> DEFINE s == lines[f]
           Sound(i) == /\ s[i].sequence = i
                       /\ s[i].parent = IF i = 1 THEN None ELSE s[i - 1].id
           Wrong == {i \in DOMAIN s : ~Sound(i)}
<1>1. s \in Seq(Lines) /\ Len(s) \in Nat /\ DOMAIN s = 1..Len(s)
  BY LenProperties DEF StoreInv
<1>2. \A i \in DOMAIN s : s[i] # Torn /\ s[i].inventory = base /\ s[i].sequence \in Nat
  <2>1. \A i \in DOMAIN s : s[i] \in Lines
    BY <1>1
  <2>2. QED
    BY <2>1 DEF Cut, Foreign, Lines
<1>3. \A i, j \in DOMAIN s : s[i].sequence = s[j].sequence => i = j
  BY <1>2 DEF Forked
<1>4. Wrong = {}
  <2> SUFFICES ASSUME Wrong # {} PROVE FALSE
    OBVIOUS
  <2>1. Wrong \in SUBSET Nat
    BY <1>1
  <2>2. PICK i \in Wrong : \A j \in Wrong : i <= j
    BY <2>1, FirstOf
  <2>3. i \in DOMAIN s /\ i \in 1..Len(s) /\ ~Sound(i)
    BY <1>1
  <2>4. \A j \in 1..i - 1 : j \in DOMAIN s /\ s[j].sequence = j
    <3>1. ASSUME NEW j \in 1..i - 1 PROVE j \in DOMAIN s /\ s[j].sequence = j
      <4>1. j \in DOMAIN s
        BY <1>1, <2>3
      <4>2. j \notin Wrong
        BY SMTT(30), <2>2, <2>3, <1>1
      <4>3. QED
        BY <4>1, <4>2
    <3>2. QED
      BY <3>1
  <2>5. \/ s[i].parent = None /\ s[i].sequence = 1
        \/ LET place == s[i].sequence - 1
           IN /\ place \in 1..i - 1
              /\ s[place] = Torn \/ s[place].id = s[i].parent
    BY <1>2, <2>3 DEF ParentsPresent
  <2> HIDE DEF s
  <2>6. CASE s[i].parent = None /\ s[i].sequence = 1
    <3>1. i # 1
      BY <2>3, <2>6
    <3>2. 1 \in 1..i - 1
      BY <2>3, <3>1
    <3>3. 1 \in DOMAIN s /\ s[1].sequence = 1
      BY <2>4, <3>2
    <3>4. QED
      BY <1>3, <2>3, <2>6, <3>1, <3>3
  <2>7. ASSUME NEW j \in 1..i - 1, j = s[i].sequence - 1,
               s[j] = Torn \/ s[j].id = s[i].parent
        PROVE  FALSE
    <3>1. s[j].id = s[i].parent /\ s[i].sequence \in Nat
      BY <1>2, <2>3, <2>4, <2>7
    <3>2. s[i].sequence = j + 1 /\ j \in Nat /\ i \in Nat
      BY <2>3, <2>7, <3>1
    <3>3. CASE j = i - 1
      BY <2>3, <3>1, <3>2, <3>3
    <3>4. CASE j # i - 1
      <4>1. j + 1 \in 1..i - 1
        BY <2>3, <3>2, <3>4
      <4>2. j + 1 \in DOMAIN s /\ s[j + 1].sequence = j + 1
        BY <2>4, <4>1
      <4>3. j + 1 = i
        BY <1>3, <2>3, <3>2, <4>2
      <4>4. QED
        BY <3>2, <3>4, <4>3
    <3>5. QED
      BY <3>3, <3>4
  <2>8. QED
    BY <2>5, <2>6, <2>7
<1>5. \A i \in DOMAIN s : Sound(i)
  BY <1>4
<1>6. QED
  BY <1>2, <1>5 DEF Accepted, Chain

\* So is what was read of it before.
LEMMA KeptAccepted ==
  ASSUME NEW s, NEW t, Kept(s, t), NEW base, Accepted(t, base)
  PROVE  Accepted(s, base)
<1>1. /\ Len(s) \in Nat /\ Len(t) \in Nat /\ DOMAIN s = 1..Len(s)
      /\ DOMAIN t = 1..Len(t)
  BY LenProperties DEF Kept
<1>2. \A i \in DOMAIN s : i \in DOMAIN t /\ t[i] = s[i]
  <2>1. \A i \in DOMAIN s : i \in DOMAIN t /\ (t[i] = s[i] \/ t[i] = Torn)
    BY <1>1 DEF Kept
  <2>2. QED
    BY <2>1 DEF Accepted
<1>3. \A i \in DOMAIN s : i # 1 => i - 1 \in DOMAIN s
  BY <1>1
<1>4. QED
  BY <1>2, <1>3 DEF Accepted, Chain

-----------------------------------------------------------------------------
(* The theorems. *)

LEMMA Invariance == Spec => []Inv
<1>1. Init => OpenInv
  BY DEF Init, OpenInv
<1>2. QED
  BY <1>1, InitInv, NextInv, NextOpen, PTL DEF Spec

\* However many agents append to a file nothing locks, and wherever they die,
\* a revision follows the line at the place of its sequence number, which is its
\* parent or was destroyed with a later append (buildInventoryRevision,
\* buildWikiRevision, appendJsonLines).
THEOREM Parents == Spec => []ParentsPresent
<1>1. Inv => ParentsPresent
  BY DEF Inv
<1>2. QED
  BY <1>1, Invariance, PTL

\* A turn that is in the turns file has left every revision its proposal asked
\* for, or the file has a line that cannot be parsed (appendAgentTurn comes last).
THEOREM Turns == Spec => []TurnsComplete
<1>1. Inv => TurnsComplete
  BY DEF Inv
<1>2. QED
  BY <1>1, Invariance, PTL

\* An agent is refused only for a damaged line, for two agents that continued one
\* revision, or for revisions of another inventory (assertRevisionChain): whoever
\* died between its appends, and however many turns followed, blocks nobody.
THEOREM Refusal == Spec => []RefusedOnlyDamaged
<1>1. Inv => RefusedOnlyDamaged
  <2> SUFFICES ASSUME Inv, NEW a \in Agents, agent[a].pc = "refused",
                      \A f \in Files : ~(Cut(f) \/ Forked(f) \/ Foreign(f, agent[a].base))
               PROVE  FALSE
    BY DEF RefusedOnlyDamaged
  <2>1. /\ \A f \in Files : Kept(agent[a].seen[f], lines[f])
        /\ ~Checked(agent[a])
    BY DEF Inv, StoreInv, AgentOK
  <2>2. \A f \in Files : Accepted(lines[f], agent[a].base)
    BY UndamagedChain DEF Inv
  <2>3. \A f \in Files : Accepted(agent[a].seen[f], agent[a].base)
    BY <2>1, <2>2, KeptAccepted
  <2>4. QED
    BY <2>1, <2>3 DEF Checked
<1>2. QED
  BY <1>1, Invariance, PTL
=============================================================================
