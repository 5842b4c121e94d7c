------------------------------- MODULE Agents -------------------------------
(***************************************************************************)
(* The two agents of the graph that produce evidence for a plan: the       *)
(* documentation research and, on its evidence, the compatibility          *)
(* interpretation (agents/compatibility_interpretation.py and its node in  *)
(* graph/nodes/agents.py).                                                 *)
(***************************************************************************)
EXTENDS DocumentationResearch

CONSTANTS
    Interpretations  \* sets of entries that an LLM may answer

VARIABLES
    interpretation,  \* status and entries of the result
    interpError      \* the code of the node's error

agentVars == <<researchVars, interpretation, interpError>>

AgentsInit ==
    /\ ResearchInit
    /\ interpretation = [status |-> "", entries |-> {}]
    /\ interpError = "none"

SourcesOf(evidence) == {ev.source : ev \in evidence}

(* _default_output: every entry names every source of the evidence, or the *)
(* sources of its own finding where there is no evidence.                  *)
Entry(finding) ==
    [finding |-> finding,
     docs    |-> IF documentation # {} THEN SourcesOf(documentation)
                 ELSE ToSet(Cites[RuleOf[finding]])]

DefaultEntries == {Entry(finding) : finding \in ToSet(found)}

(* Variant: only the findings are looked up.                               *)
ValidEntriesLoosely(entries) == {e.finding : e \in entries} \subseteq ToSet(found)

(* _validate_interpretation_refs.                                          *)
ValidEntries(entries) ==
    \A e \in entries :
        /\ e.finding \in ToSet(found)
        /\ e.docs \subseteq SourcesOf(documentation)

Interpreted(status, entries, error) ==
    /\ interpretation' = [status |-> status, entries |-> entries]
    /\ interpError' = error

Quiet == stage = "done" /\ interpretation.status = "" /\ interpError = "none"

(* A pack that cannot be loaded, or without the prompt.                    *)
NoInterpreter ==
    /\ Quiet
    /\ Interpreted("", {}, "LLM_UNAVAILABLE")
    /\ UNCHANGED researchVars

NothingToInterpret ==
    /\ Quiet
    /\ found = <<>>
    /\ Interpreted("unavailable", {}, "none")
    /\ UNCHANGED researchVars

(* An answer without entries or with unknown references is as malformed as *)
(* one of another shape.  An LLMError is left to the node.                 *)
Interpret ==
    /\ Quiet
    /\ found # <<>>
    /\ \E reply \in Replies(client, Len(found) + Cardinality(documentation), TokenBudget,
                            DefaultEntries, Interpretations) :
          IF reply.kind = "error" THEN Interpreted("", {}, "LLM_UNAVAILABLE")
          ELSE IF reply.kind = "output" /\ reply.data # {} /\ ValidEntries(reply.data)
          THEN Interpreted("completed", reply.data, "none")
          ELSE Interpreted("partial", {}, "none")
    /\ UNCHANGED researchVars

AgentsNext ==
    \/ Research /\ UNCHANGED <<interpretation, interpError>>
    \/ NoInterpreter
    \/ NothingToInterpret
    \/ Interpret

AgentsSpec == AgentsInit /\ [][AgentsNext]_agentVars

(* Every request has a timeout and every step follows the one before it in *)
(* one coroutine.                                                          *)
FairAgentsSpec == AgentsSpec /\ WF_agentVars(AgentsNext)

-----------------------------------------------------------------------------

(* The evidence that documentation_research puts into the state quotes     *)
(* sections that were retrieved from trusted sources, and names rules that *)
(* findings of this analysis matched, whatever the LLM answered.           *)
EvidenceIsGrounded ==
    \A ev \in documentation :
        /\ ev.source \in Trusted
        /\ \E i \in DOMAIN all_sections : Key(all_sections[i]) = <<ev.source, ev.heading>>
        /\ ev.rules \subseteq {RuleOf[f] : f \in ToSet(found)} \cap Catalog

(* A snapshot stands in for a source that cannot be read: retrieve leaves  *)
(* no source without sections that has a snapshot, unless the live page    *)
(* was read and has no sections.                                           *)
SnapshotsSuffice ==
    \A s \in unavailable : Snapshot[s] # <<>> => prefer_live /\ Live[s] = <<>>

(* An agent that says it is completed tells the whole of it: the research  *)
(* has read every source of the rules and the interpretation cites only    *)
(* sources that are in the evidence for findings of this analysis.         *)
ResearchIsWhole ==
    result = "completed" =>
        /\ \A f \in ToSet(found) : RuleOf[f] \in Catalog =>
              ToSet(Cites[RuleOf[f]]) \subseteq
                  {all_sections[i].source : i \in DOMAIN all_sections}
        /\ documentation # {}

InterpretationIsWhole ==
    interpretation.status = "completed" =>
        \A e \in interpretation.entries :
            /\ e.finding \in ToSet(found)
            /\ \A s \in e.docs : \E ev \in documentation : ev.source = s

CompletedIsWhole == ResearchIsWhole /\ InterpretationIsWhole

(* What is left: stages of the research, sources, requests for the first   *)
(* of them, and the interpretation.                                        *)
Left ==
    <<CASE stage = "rules" -> 3 [] stage = "fetch" -> 2 [] stage = "ask" -> 1 [] OTHER -> 0,
      Len(queue),
      MaxRetries + 1 - tries,
      IF interpretation.status = "" /\ interpError = "none" THEN 1 ELSE 0>>

(* No failure leads the agents back to where they were: retrieve goes on   *)
(* to the next source after max_retries + 1 requests at the latest, and    *)
(* nothing is asked or interpreted twice.                                  *)
AgentsAdvance == [][LessLeft(Left', Left)]_agentVars

(* Both agents go on and end, with a result or an error, whatever the      *)
(* requests for the sources come to and whatever the LLM answers.          *)
AgentsEnd ==
    /\ AgentsAdvance
    /\ <>(stage = "done" /\ (interpretation.status # "" \/ interpError # "none"))

=============================================================================
