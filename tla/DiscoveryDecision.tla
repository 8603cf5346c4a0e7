--------------------------- MODULE DiscoveryDecision ---------------------------
(***************************************************************************)
(* What a model answers about the candidates is validated before anything  *)
(* uses it, an answer that never becomes valid is replaced by one that     *)
(* decides nothing, and the inventory is built from the decision and from  *)
(* the facts of the candidates.                                            *)
(*                                                                         *)
(* An answer has sequences of services, of filtered and of retained        *)
(* candidates: a candidate may be in several, and several times in one.    *)
(***************************************************************************)
EXTENDS CandidateSelection

CONSTANTS
  Unreadable,  \* an answer that is not the JSON of a decision
  ProbeKinds   \* ALLOWED_PROBE_KINDS

Elements(s) == Range(s)
IdsOf(records) == {r.id : r \in records}

\* Mutation: several outcomes of a candidate go unnoticed.
CompletionOnce(input, refs) ==
  [missing |-> IdsOf(input.candidates) \ IdsOf(refs), duplicate |-> {}]

\* completion: which candidates have no outcome, and which have several.
CompletionOf(input, refs) ==
  [missing |-> IdsOf(input.candidates) \ IdsOf(refs),
   duplicate |-> {id \in IdsOf(input.candidates) :
                    \E r, t \in refs : r # t /\ r.id = id /\ t.id = id}]

\* Mutation: a service may mention any candidate's evidence and objects.
ReferencesAnywhere(draft, input) ==
  \/ Elements(draft.candidates) \ IdsOf(input.candidates) # {}
  \/ draft.confidence = "confirmed"
  \/ draft.ev \ input.evidence # {}

\* validateReferences finds something wrong.
WrongReferences(draft, input) ==
  LET sources == {c \in input.candidates : c.id \in Elements(draft.candidates)}
  IN \/ Elements(draft.candidates) \ IdsOf(input.candidates) # {}
     \/ draft.objects \ UNION {c.objects : c \in sources} # {}
     \/ draft.ev \ UNION {c.ev : c \in sources} # {}
     \/ draft.confidence = "confirmed"
     \/ draft.ev \ input.evidence # {}

\* The schemas of an answer ask for at least one candidate and one object of a draft,
\* and for some evidence of a probe.
Shaped(draft) == Elements(draft.candidates) # {} /\ draft.objects # {}

Proper(draft, input) == Shaped(draft) /\ ~WrongReferences(draft, input)

\* The services of an answer that pass, each with an id of its own, by their places.
Accepted(answer, input) ==
  {k \in DOMAIN answer.services :
     /\ Proper(answer.services[k], input)
     /\ \A j \in 1..k - 1 :
          Proper(answer.services[j], input) => answer.services[j].id # answer.services[k].id}

\* candidateReferences: every place where an answer gives a candidate an outcome.
References(answer, accepted) ==
  LET at(list, k, ids) ==
        {[place |-> <<list, k, i>>, id |-> ids[i]] : i \in DOMAIN ids}
  IN at("filtered", 0, answer.filtered) \cup at("retained", 0, answer.retained)
       \cup UNION {at("services", k, answer.services[k].candidates) : k \in accepted}

\* validateBatchDiscoveryDecision and validationForResult
Valid(answer, input, allowProbes) ==
  /\ answer # Unreadable
  /\ answer.hash = input.hash
  /\ LET accepted == Accepted(answer, input)
         refs == References(answer, accepted)
         completion == CompletionOf(input, refs)
     IN /\ accepted = DOMAIN answer.services
        /\ IdsOf(refs) \subseteq IdsOf(input.candidates)
        /\ allowProbes \/ answer.probes = {}
        /\ Cardinality(answer.probes) <= input.maxRequests
        /\ \A q \in answer.probes :
             /\ q.kind \in ProbeKinds
             /\ q.service \in {answer.services[k].id : k \in accepted}
             /\ q.ev # {} /\ q.ev \subseteq input.evidence
        /\ completion.missing = {} /\ completion.duplicate = {}

Completed(answer) == [status |-> "completed", decision |-> answer]

\* createDegradedBatchDiscoveryArtifact; it is also what the provider `noop` answers.
Degraded(input, error) ==
  [status |-> "degraded",
   decision |-> [services |-> <<>>, filtered |-> <<>>, probes |-> {}, questions |-> {<<{}, error>>},
                 retained |-> SetToSeq(IdsOf(input.candidates)), hash |-> input.hash]]

-----------------------------------------------------------------------------
(* buildFinalDeploymentInventory *)

\* A service named by the objects of its candidates, with all that is known of them.
ServiceOf(sources, role, unknown, said) ==
  LET objects == UNION {c.objects : c \in sources}
  IN [id |-> objects, objects |-> objects, paths |-> UNION {c.paths : c \in sources},
      ports |-> UNION {c.ports : c \in sources},
      ev |-> said \cup UNION {c.ev : c \in sources},
      role |-> role, unknown |-> unknown, candidates |-> IdsOf(sources)]

\* serviceFromUnknownCandidate
Retained(candidate) == ServiceOf({candidate}, "needs_review", candidate.unknown, {})

Questions(selection, decision, services) ==
  decision.questions
    \cup {<<c.id, "exposed">> : c \in {d \in selection.candidates :
            d.id \in Elements(decision.filtered) /\ \E p \in d.ports : p.exposed}}
    \cup UNION {{<<s.id, field>> : field \in s.unknown} : s \in services}

SemanticStatus(artifact, services, questions) ==
  CASE artifact.status = "degraded" -> "unverified"
    [] artifact.status # "degraded" /\ (\/ artifact.decision.retained # <<>>
                                        \/ questions # {}
                                        \/ \E s \in services : s.role = "needs_review") ->
         "partially_verified"
    [] OTHER -> "verified"

FinalInventory(selection, artifact) ==
  LET decision == artifact.decision
      chosen(ids) == {c \in selection.candidates : c.id \in ids}
      services == {ServiceOf(chosen(Elements(d.candidates)), d.role, d.unknown, d.ev) :
                     d \in Elements(decision.services)}
                    \cup {Retained(c) : c \in chosen(Elements(decision.retained))}
      questions == Questions(selection, decision, services)
  IN [services |-> services,
      ports |-> UNION {s.ports : s \in services},
      filtered |-> Elements(decision.filtered),
      groups |-> selection.groups,
      questions |-> questions,
      status |-> SemanticStatus(artifact, services, questions)]

\* buildLocalDeploymentInventory: before a model was asked.
LocalInventory(selection) ==
  LET services == {Retained(c) : c \in selection.candidates}
  IN [services |-> services,
      ports |-> UNION {s.ports : s \in services},
      filtered |-> {},
      groups |-> selection.groups,
      questions |-> UNION {{<<s.id, field>> : field \in s.unknown} : s \in services},
      status |-> "unverified"]
=============================================================================
