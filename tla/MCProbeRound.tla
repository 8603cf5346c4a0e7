----------------------------- MODULE MCProbeRound -----------------------------
(***************************************************************************)
(* Decisions of three requests out of all kinds, of four about one path, and *)
(* of two about what a scan does not enter, for two services that own a     *)
(* directory in common.  Below it another file system, a pruned directory   *)
(* and a link have one path each.                                           *)
(***************************************************************************)
EXTENDS ProbeRound

a == <<"a">>
ab == <<"a", "b">>
abc == <<"a", "b", "c">>
abm == <<"a", "b", "m">>
abv == <<"a", "b", "v">>
abl == <<"a", "b", "l">>
Below(p) == Append(p, "x")
MCPaths == {a, ab, abc, <<"d">>, abm, abv, abl} \cup {Below(p) : p \in {abm, abv, abl}}
MCMounts == {abm}
MCPruned == {abv}
MCLinks == {abl}
MCMatching == {abc, Below(abm), Below(abv), Below(abl)}
MCRoots == {<<"d">>}
MCKnownOf == [s1 |-> {a, <<"p1">>}, s2 |-> {a}]

Request(kind, service, object, depth, bytes) ==
  [kind |-> kind, service |-> service, object |-> object, depth |-> depth,
   bytes |-> bytes]

Requests ==
  {Request("listing", "s1", a, 1, 1), Request("listing", "s1", a, 2, 1),
   Request("listing", "s1", ab, 1, 1), Request("listing", "s2", a, 1, 2),
   Request("listing", "s1", a, 3, 1),
   Request("search", "s1", a, 2, 1), Request("search", "s1", ab, 1, 1),
   Request("search", "s2", <<"d">>, 1, 1),
   Request("log", "s1", a, 0, 1), Request("log", "s1", ab, 0, 1),
   Request("stat", "s1", ab, 0, 1), Request("stat", "s1", a, 0, 2),
   Request("stat", "s2", ab, 0, 1),
   Request("process", "s1", <<"p1">>, 0, 1), Request("process", "s2", <<"p1">>, 0, 1)}

\* ab has five entries down to depth 1, itself included.
Identified(r, id) ==
  [id |-> id, kind |-> r.kind, service |-> r.service, object |-> r.object,
   depth |-> r.depth, bytes |-> r.bytes, most |-> IF r.bytes = 3 THEN 3 ELSE 7]

Walks ==
  {Request(kind, "s1", p, depth, bytes) :
     kind \in {"listing", "search"}, depth \in 1..2, bytes \in {1, 3},
     p \in {ab, abm, abv, abl} \cup {Below(q) : q \in {abm, abv, abl}}}

\* The ids are the model's; nothing checks that they differ.
MCDecisions ==
  {[i \in 1..3 |-> Identified(s[i], i)] : s \in [1..3 -> Requests]} \cup
  {[i \in 1..3 |-> Identified(s[i], (i + 1) \div 2)] :
     s \in [1..3 -> {r \in Requests : r.service = "s1" /\ r.object = ab}]} \cup
  {[i \in 1..4 |-> Identified(s[i], i)] :
     s \in [1..4 -> {r \in Requests : r.kind = "process" \/ r.object = ab}]} \cup
  {[i \in 1..2 |-> Identified(s[i], i)] : s \in [1..2 -> Walks]}
=============================================================================
