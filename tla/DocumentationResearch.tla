------------------------ MODULE DocumentationResearch ------------------------
(***************************************************************************)
(* The node documentation_research and its agent                           *)
(* (agents/documentation_research.py): the rules of the findings, their    *)
(* trusted sources, the retrieval of each source with retries and a cached *)
(* snapshot to fall back on (tools/trusted_docs.py), the search for        *)
(* sections, the one call of the LLM and the check of what it selected.    *)
(*                                                                         *)
(* A document is the sequence of its sections; a section is a record of    *)
(* its heading, whether its text is longer than an excerpt may be, and its *)
(* score for each rule.                                                    *)
(***************************************************************************)
EXTENDS LlmClient, Collections, SequencesExt

CONSTANTS
    Findings,
    RuleOf,        \* RuleOf[f]: the rule_id of finding f
    FindingLists,  \* the findings of an analysis, as sequences
    Catalog,       \* the rules of the pack
    Sources,
    Trusted,       \* sources that validate_source accepts
    Cites,         \* Cites[r]: the source_ids of rule r, which its findings carry
    Snapshot,      \* Snapshot[s]: the snapshot in the directory of the agent
    Live,          \* Live[s]: the document at the source's URL
    MaxRetries,    \* max_retries of the fetcher
    TokenBudget,   \* what a prompt may quote
    Selections     \* lists of selections that an LLM may answer

(* A score is the number of a rule's terms in a section and some points.   *)
IsDocument(document) ==
    /\ IsSequence(document)
    /\ \A i \in DOMAIN document : \A r \in Catalog : document[i].score[r] \in Nat

ASSUME ResearchAssumption ==
    /\ FindingLists \subseteq Seq(Findings)
    /\ Trusted \subseteq Sources
    /\ DOMAIN RuleOf = Findings
    /\ \A f \in Findings : RuleOf[f] \in DOMAIN Cites
    /\ Catalog \subseteq DOMAIN Cites
    /\ \A r \in DOMAIN Cites : Cites[r] \in Seq(Sources)
    /\ DOMAIN Snapshot = Sources /\ DOMAIN Live = Sources
    /\ \A s \in Sources : IsDocument(Snapshot[s]) /\ IsDocument(Live[s])
    /\ MaxRetries \in Nat /\ TokenBudget \in Nat

VARIABLES
    found,         \* findings of the state
    client,        \* "static" unless the agent was built with a client
    prefer_live,   \* FALSE in the agent of the graph
    stage,         \* where the node is
    rules,         \* the known rules of the findings, in their order
    queue,         \* sources still to be retrieved, in order
    tries,         \* failed requests for the first of them
    all_sections,  \* sections retrieved
    unavailable,   \* sources without any
    sections,      \* what the search selected of them
    result,        \* status of the agent's result, "" before
    calls,         \* llm_calls
    documentation, \* documentation_evidence of the state
    warned,        \* whether the node returned a warning
    docError       \* the code of the node's error

inputVars == <<found, client, prefer_live>>
retrievalVars == <<queue, tries, all_sections, unavailable>>
resultVars == <<result, calls, documentation, warned, docError>>
researchVars == <<inputVars, stage, rules, retrievalVars, sections, resultVars>>

ResearchInit ==
    /\ found \in FindingLists
    /\ client \in Clients
    /\ prefer_live \in BOOLEAN
    /\ stage = "rules"
    /\ rules = <<>>
    /\ queue = <<>>
    /\ tries = 0
    /\ all_sections = <<>>
    /\ unavailable = {}
    /\ sections = <<>>
    /\ result = ""
    /\ calls = 0
    /\ documentation = {}
    /\ warned = FALSE
    /\ docError = "none"

-----------------------------------------------------------------------------
(* How the node returns.                                                   *)

Return(status, evidence, told, error) ==
    /\ stage' = "done"
    /\ result' = status
    /\ documentation' = evidence
    /\ warned' = told
    /\ docError' = error

(* Every exception ends here.                                              *)
Raise == Return("", {}, FALSE, "DOCUMENTATION_ERROR")

-----------------------------------------------------------------------------
(* The rules of the findings.                                              *)

NoFindings ==
    /\ stage = "rules"
    /\ found = <<>>
    /\ Return("", {}, TRUE, "none")
    /\ UNCHANGED <<inputVars, rules, retrievalVars, sections, calls>>

(* The packs, or the prompt of this one, cannot be loaded.  Findings come  *)
(* of a pack, so that its pack_id is known here.                           *)
NoAgent ==
    /\ stage = "rules"
    /\ found # <<>>
    /\ Raise
    /\ UNCHANGED <<inputVars, rules, retrievalVars, sections, calls>>

Known ==
    LET places == {i \in DOMAIN found : RuleOf[found[i]] \in Catalog}
    IN  FirstValues([i \in places |-> RuleOf[found[i]]], Ascending(places))

Ignored == \E i \in DOMAIN found : RuleOf[found[i]] \notin Catalog

SourcesFor(rs) ==
    LET places == UNION {{i} \X DOMAIN Cites[rs[i]] : i \in DOMAIN rs}
    IN  FirstValues([p \in places |-> Cites[rs[p[1]]][p[2]]], Nested(places))

(* _rules_from_findings and sources_for_rules, which raises for a source   *)
(* that is not trusted.                                                    *)
FindRules ==
    /\ stage = "rules"
    /\ found # <<>>
    /\ rules' = Known
    /\ IF Known = <<>>
       THEN /\ Return("unavailable", {}, TRUE, "DOCUMENTATION_UNAVAILABLE")
            /\ UNCHANGED queue
       ELSE IF ToSet(SourcesFor(Known)) \subseteq Trusted
       THEN /\ stage' = "fetch"
            /\ queue' = SourcesFor(Known)
            /\ warned' = Ignored
            /\ UNCHANGED <<result, documentation, docError>>
       ELSE Raise /\ UNCHANGED queue
    /\ UNCHANGED <<inputVars, tries, all_sections, unavailable, sections, calls>>

-----------------------------------------------------------------------------
(* retrieve, source by source.                                             *)

Fetching == stage = "fetch" /\ queue # <<>>

SectionsOf(source, document) ==
    [i \in DOMAIN document |->
        [source |-> source, heading |-> document[i].heading,
         long |-> document[i].long, score |-> document[i].score]]

(* Variant: a source without sections stays the first one.                 *)
RetrievedOrAgain(document) ==
    /\ all_sections' = all_sections \o SectionsOf(Head(queue), document)
    /\ unavailable' = IF document = <<>> THEN unavailable \cup {Head(queue)} ELSE unavailable
    /\ queue' = IF document = <<>> THEN queue ELSE Tail(queue)
    /\ tries' = 0

(* A document without sections leaves its source unavailable.              *)
Retrieved(document) ==
    /\ all_sections' = all_sections \o SectionsOf(Head(queue), document)
    /\ unavailable' = IF document = <<>> THEN unavailable \cup {Head(queue)} ELSE unavailable
    /\ queue' = Tail(queue)
    /\ tries' = 0

(* Variant: one request more.                                              *)
GivenUpLater == tries = MaxRetries + 2

(* Requests are sent max_retries + 1 times, and a redirect that leaves the *)
(* allowlist is the last one.                                              *)
GivenUp == tries = MaxRetries + 1

LiveAnswers ==
    /\ Fetching /\ prefer_live /\ ~GivenUp
    /\ Retrieved(Live[Head(queue)])
    /\ UNCHANGED <<inputVars, stage, rules, sections, resultVars>>

LiveFails ==
    /\ Fetching /\ prefer_live /\ ~GivenUp
    /\ tries' \in {tries + 1, MaxRetries + 1}
    /\ UNCHANGED <<inputVars, stage, rules, queue, all_sections, unavailable, sections, resultVars>>

(* Variant: the snapshot is for agents that do not prefer live documents.  *)
ReadSnapshotUnlessLive ==
    /\ Fetching /\ (prefer_live => GivenUp)
    /\ Retrieved(IF prefer_live THEN <<>> ELSE Snapshot[Head(queue)])
    /\ UNCHANGED <<inputVars, stage, rules, sections, resultVars>>

(* The snapshot, or nothing.                                               *)
ReadSnapshot ==
    /\ Fetching /\ (prefer_live => GivenUp)
    /\ Retrieved(Snapshot[Head(queue)])
    /\ UNCHANGED <<inputVars, stage, rules, sections, resultVars>>

-----------------------------------------------------------------------------
(* The search: for each rule the two best sections of its own sources.     *)

Hits(rule) ==
    {i \in DOMAIN all_sections :
        all_sections[i].source \in ToSet(Cites[rule]) /\ all_sections[i].score[rule] > 0}

(* The sort by score is stable.                                            *)
Better(rule, i, k) ==
    LET score(n) == all_sections[n].score[rule]
    IN  \/ score(i) > score(k)
        \/ score(i) = score(k) /\ i < k

(* At most two, by their place in all_sections.                            *)
Best(rule) == {i \in Hits(rule) : Cardinality({k \in Hits(rule) : Better(rule, k, i)}) < 2}

Key(section) == <<section.source, section.heading>>

(* Rule by rule, best first; the first section of a source and heading     *)
(* stands for all of them.                                                 *)
Selected ==
    LET places == UNION {{n} \X Best(rules[n]) : n \in DOMAIN rules}
        order == {p \in places \X places :
                     \/ p[1][1] < p[2][1]
                     \/ p[1][1] = p[2][1] /\ Better(rules[p[1][1]], p[1][2], p[2][2])}
        first == Firsts([p \in places |-> Key(all_sections[p[2]])], order)
    IN  [n \in DOMAIN first |-> all_sections[first[n][2]]]

Search ==
    /\ stage = "fetch"
    /\ queue = <<>>
    /\ sections' = Selected
    /\ IF sections' = <<>>
       THEN Return("unavailable", {}, TRUE, "DOCUMENTATION_UNAVAILABLE")
       ELSE /\ stage' = "ask"
            /\ UNCHANGED <<result, documentation, warned, docError>>
    /\ UNCHANGED <<inputVars, rules, retrievalVars, calls>>

-----------------------------------------------------------------------------
(* The call of the LLM and what becomes of its answer.                     *)

(* _default_selections: for each rule the first section of its sources.    *)
FirstFor(rule) ==
    {i \in DOMAIN sections :
        /\ sections[i].source \in ToSet(Cites[rule])
        /\ \A k \in 1 .. i - 1 : sections[k].source \notin ToSet(Cites[rule])}

DefaultSelections ==
    FlattenSeq([n \in DOMAIN rules |->
        SetToSeq({[key |-> Key(sections[i]), rules |-> {rules[n]}] : i \in FirstFor(rules[n])})])

(* _evidence_from_selections.                                              *)
Section(key) == sections[CHOOSE i \in DOMAIN sections : Key(sections[i]) = key]

HasSection(key) == \E i \in DOMAIN sections : Key(sections[i]) = key

(* Variant: a selection is taken if any of its rules is known.             *)
AcceptedLoosely(selection) ==
    /\ selection.rules \cap ToSet(rules) # {}
    /\ HasSection(selection.key)

Accepted(selection) ==
    /\ selection.rules \subseteq ToSet(rules)
    /\ HasSection(selection.key)

AcceptedOf(selections) == {s \in ToSet(selections) : Accepted(s)}

EvidenceOf(selections) ==
    {[source |-> s.key[1], heading |-> s.key[2], rules |-> s.rules] : s \in AcceptedOf(selections)}

(* A section may have 4000 characters and an excerpt 3000; building the    *)
(* evidence is outside the try.                                            *)
TooLong(selections) == \E s \in AcceptedOf(selections) : Section(s.key).long

(* A provider may add warnings of its own.                                 *)
Judge(selections) ==
    LET rejected == AcceptedOf(selections) # ToSet(selections)
        evidence == EvidenceOf(selections)
    IN  IF TooLong(selections) THEN Raise
        ELSE \E remarks \in BOOLEAN :
                /\ remarks => client = "provider"
                /\ Return(IF evidence # {} /\ unavailable = {} /\ ~rejected
                          THEN "completed" ELSE "partial",
                          evidence, warned \/ rejected \/ remarks, "none")

Ask ==
    /\ stage = "ask"
    /\ \E reply \in Replies(client, Len(found) + Len(sections), TokenBudget,
                            DefaultSelections, Selections) :
          CASE reply.kind = "output" -> Judge(reply.data)
            [] reply.kind \in {"timeout", "budget", "schema"} ->
                  Return("partial", {}, TRUE, "none")
            [] OTHER -> Raise
    /\ calls' = calls + 1
    /\ UNCHANGED <<inputVars, rules, retrievalVars, sections>>

Research ==
    \/ NoFindings \/ NoAgent \/ FindRules
    \/ LiveAnswers \/ LiveFails \/ ReadSnapshot
    \/ Search \/ Ask

=============================================================================
