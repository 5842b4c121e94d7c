---------------------------- MODULE AgentsProofs ----------------------------
(***************************************************************************)
(* Proofs about Agents, for any findings, rules, sources, documents and    *)
(* answers of an LLM.                                                      *)
(***************************************************************************)
EXTENDS Agents, CollectionLemmas

(* Where nothing of a source was read there is no snapshot of it either,   *)
(* or its live page has nothing to read.                                   *)
LEMMA SnapshotsStep ==
    ASSUME SnapshotsSuffice, [AgentsNext]_agentVars
    PROVE  SnapshotsSuffice'
  <1>1. CASE UNCHANGED <<prefer_live, unavailable>>
    BY <1>1 DEF SnapshotsSuffice
  <1>2. CASE NoFindings \/ NoAgent \/ FindRules \/ LiveFails \/ Search \/ Ask
    <2>1. UNCHANGED <<prefer_live, unavailable>>
      BY <1>2
      DEF NoFindings, NoAgent, FindRules, LiveFails, Search, Ask, inputVars, retrievalVars
    <2>2. QED
      BY <1>1, <2>1
  <1>3. ASSUME NEW document, Retrieved(document), UNCHANGED prefer_live,
               document = <<>> =>
                   LET s == Head(queue)
                   IN  Snapshot[s] # <<>> => prefer_live /\ Live[s] = <<>>
        PROVE  SnapshotsSuffice'
    <2>1. unavailable' = IF document = <<>> THEN unavailable \cup {Head(queue)} ELSE unavailable
      BY <1>3 DEF Retrieved
    <2>2. QED
      BY <1>3, <2>1 DEF SnapshotsSuffice
  <1>4. CASE LiveAnswers
    <2>1. prefer_live /\ Retrieved(Live[Head(queue)]) /\ UNCHANGED prefer_live
      BY <1>4 DEF LiveAnswers, inputVars
    <2>2. QED
      BY <1>3, <2>1
  <1>5. CASE ReadSnapshot
    <2>1. Retrieved(Snapshot[Head(queue)]) /\ UNCHANGED prefer_live
      BY <1>5 DEF ReadSnapshot, inputVars
    <2>2. QED
      BY <1>3, <2>1
  <1>6. CASE NoInterpreter \/ NothingToInterpret \/ Interpret \/ UNCHANGED agentVars
    <2>1. UNCHANGED researchVars
      BY <1>6 DEF NoInterpreter, NothingToInterpret, Interpret, agentVars
    <2>2. QED
      BY <1>1, <2>1 DEF researchVars, inputVars, retrievalVars
  <1>7. QED
    BY <1>2, <1>4, <1>5, <1>6 DEF AgentsNext, Research

(* TrustedDocumentFetcher falls back on a snapshot whenever there is one:  *)
(* for any documents, number of retries and order of failures.             *)
THEOREM SnapshotsAlwaysSuffice == AgentsSpec => []SnapshotsSuffice
  <1>1. AgentsInit => SnapshotsSuffice
    BY DEF AgentsInit, ResearchInit, SnapshotsSuffice
  <1>2. QED
    BY <1>1, SnapshotsStep, PTL DEF AgentsSpec

-----------------------------------------------------------------------------
(* The record that an Interpreted step leaves.                             *)
LEMMA InterpretedFields ==
    ASSUME NEW status, NEW entries, NEW error, Interpreted(status, entries, error)
    PROVE  interpretation'.status = status /\ interpretation'.entries = entries
  BY DEF Interpreted

(* The evidence does not change once the interpretation has begun.         *)
InterpretedLast ==
    /\ interpretation.status # "" => stage = "done"
    /\ InterpretationIsWhole

LEMMA InterpretedLastStep ==
    ASSUME InterpretedLast, [AgentsNext]_agentVars
    PROVE  InterpretedLast'
  <1>1. CASE Research /\ UNCHANGED <<interpretation, interpError>>
    <2>1. stage # "done"
      BY <1>1 DEF Research, NoFindings, NoAgent, FindRules, LiveAnswers, LiveFails,
                  ReadSnapshot, Search, Ask, Fetching
    <2>2. interpretation'.status = ""
      BY <1>1, <2>1 DEF InterpretedLast
    <2>3. QED
      BY <2>2 DEF InterpretedLast, InterpretationIsWhole
  <1>2. CASE NoInterpreter \/ NothingToInterpret
    <2>1. stage' = "done" /\ interpretation'.status # "completed"
      <3>1. stage' = "done"
        BY <1>2 DEF NoInterpreter, NothingToInterpret, Quiet, researchVars
      <3>2. CASE NoInterpreter
        <4>1. interpretation'.status = ""
          BY <3>2, InterpretedFields, Zenon DEF NoInterpreter
        <4>2. QED
          BY <3>1, <4>1
      <3>3. CASE NothingToInterpret
        <4>1. interpretation'.status = "unavailable"
          BY <3>3, InterpretedFields, Zenon DEF NothingToInterpret
        <4>2. QED
          BY <3>1, <4>1
      <3>4. QED
        BY <1>2, <3>2, <3>3
    <2>2. QED
      BY <2>1 DEF InterpretedLast, InterpretationIsWhole
  <1>3. CASE Interpret
    <2>1. stage' = "done" /\ found' = found /\ documentation' = documentation
      BY <1>3 DEF Interpret, Quiet, researchVars, inputVars, resultVars
    <2>2. PICK entries : \/ Interpreted("", {}, "LLM_UNAVAILABLE")
                         \/ ValidEntries(entries) /\ Interpreted("completed", entries, "none")
                         \/ Interpreted("partial", {}, "none")
      BY <1>3, Zenon DEF Interpret
    <2>3. interpretation'.status = "completed" =>
              ValidEntries(entries) /\ interpretation'.entries = entries
      <3>1. CASE Interpreted("", {}, "LLM_UNAVAILABLE")
        <4>1. interpretation'.status = ""
          BY <3>1, InterpretedFields, Zenon
        <4>2. QED
          BY <4>1
      <3>2. CASE ValidEntries(entries) /\ Interpreted("completed", entries, "none")
        BY <3>2, InterpretedFields, Zenon
      <3>3. CASE Interpreted("partial", {}, "none")
        <4>1. interpretation'.status = "partial"
          BY <3>3, InterpretedFields, Zenon
        <4>2. QED
          BY <4>1
      <3>4. QED
        BY <2>2, <3>1, <3>2, <3>3
    <2>4. QED
      BY <2>1, <2>3 DEF InterpretedLast, InterpretationIsWhole, ValidEntries, SourcesOf
  <1>4. CASE UNCHANGED agentVars
    BY <1>4 DEF agentVars, researchVars, inputVars, resultVars, InterpretedLast,
                InterpretationIsWhole
  <1>5. QED
    BY <1>1, <1>2, <1>3, <1>4 DEF AgentsNext

(* _validate_interpretation_refs lets no reference through that the        *)
(* evidence does not support, whatever the LLM answers.                    *)
THEOREM InterpretationAlwaysWhole == AgentsSpec => []InterpretationIsWhole
  <1>1. AgentsInit => InterpretedLast
    <2>1. ASSUME AgentsInit PROVE interpretation.status = ""
      BY <2>1, Zenon DEF AgentsInit
    <2>2. QED
      BY <2>1 DEF InterpretedLast, InterpretationIsWhole
  <1>2. InterpretedLast => InterpretationIsWhole
    BY DEF InterpretedLast
  <1>3. QED
    BY <1>1, <1>2, InterpretedLastStep, PTL DEF AgentsSpec

-----------------------------------------------------------------------------
(* The research.                                                           *)

(* Rules of findings that the catalog knows, in a list.                    *)
AreKnown(rs) ==
    /\ IsSequence(rs)
    /\ \A n \in DOMAIN rs : rs[n] \in {RuleOf[f] : f \in ToSet(found)} \cap Catalog

(* Every source that a known rule of a finding cites is in S.              *)
AllCited(S) ==
    \A f \in ToSet(found) : RuleOf[f] \in Catalog => ToSet(Cites[RuleOf[f]]) \subseteq S

SourcesRead == {all_sections[i].source : i \in DOMAIN all_sections}

(* What is retrieved comes from trusted sources.                           *)
SectionsTrusted ==
    /\ IsSequence(all_sections)
    /\ \A i \in DOMAIN all_sections :
          /\ all_sections[i].source \in Trusted
          /\ \A r \in Catalog : all_sections[i].score[r] \in Nat

(* What the search keeps was retrieved.                                    *)
SectionsRetrieved ==
    \A n \in DOMAIN sections : \E i \in DOMAIN all_sections : sections[n] = all_sections[i]

(* No source that was cited is lost on the way.                            *)
NoneLost ==
    /\ stage = "fetch" => AllCited(SourcesRead \cup unavailable \cup ToSet(queue))
    /\ stage = "ask" => AllCited(SourcesRead \cup unavailable)

Retrieving ==
    /\ found \in Seq(Findings)
    /\ AreKnown(rules)
    /\ queue \in Seq(Trusted)
    /\ SectionsTrusted
    /\ SectionsRetrieved
    /\ NoneLost
    /\ stage # "done" => documentation = {} /\ result = ""

RInv == Retrieving /\ EvidenceIsGrounded /\ ResearchIsWhole

LEMMA KnownType ==
    ASSUME found \in Seq(Findings)
    PROVE  /\ AreKnown(Known)
           /\ \A f \in ToSet(found) : RuleOf[f] \in Catalog =>
                 \E n \in DOMAIN Known : Known[n] = RuleOf[f]
  <1> DEFINE places == {i \in DOMAIN found : RuleOf[found[i]] \in Catalog}
             v == [i \in places |-> RuleOf[found[i]]]
             T == {RuleOf[f] : f \in ToSet(found)} \cap Catalog
  <1>1. DOMAIN found = 1 .. Len(found) /\ Len(found) \in Nat
        /\ IsFiniteSet(DOMAIN found) /\ DOMAIN found \subseteq Nat
    BY SequenceOf, SequenceDomain
  <1>2. places \in SUBSET DOMAIN found
    OBVIOUS
  <1>3. IsFiniteSet(places) /\ StrictOrder(places, Ascending(places))
    BY <1>1, <1>2, FS_Subset, AscendingOrder
  <1>4. DOMAIN v = places /\ \A i \in places : v[i] = RuleOf[found[i]] /\ v[i] \in T
    BY DEF ToSet
  <1>5. Known = FirstValues(v, Ascending(places))
    BY DEF Known
  <1> HIDE DEF v, T
  <1>6. /\ Known \in Seq(T)
        /\ \A n \in DOMAIN Known : \E i \in DOMAIN v : Known[n] = v[i]
        /\ \A i \in DOMAIN v : \E n \in DOMAIN Known : Known[n] = v[i]
    <2>1. /\ IsFiniteSet(DOMAIN v) /\ StrictOrder(DOMAIN v, Ascending(places))
          /\ \A i \in DOMAIN v : v[i] \in T
      BY <1>3, <1>4
    <2> HIDE DEF places
    <2>2. QED
      BY <1>5, <2>1, FirstValuesType
  <1>7. AreKnown(Known)
    BY <1>4, <1>6, SequenceOf DEF AreKnown, T
  <1>8. ASSUME NEW f \in ToSet(found), RuleOf[f] \in Catalog
        PROVE  \E n \in DOMAIN Known : Known[n] = RuleOf[f]
    <2>1. PICK i \in DOMAIN found : found[i] = f
      BY DEF ToSet
    <2>2. i \in DOMAIN v /\ v[i] = RuleOf[f]
      BY <1>4, <1>8, <2>1
    <2>3. QED
      BY <1>6, <2>2
  <1>9. QED
    BY <1>7, <1>8

LEMMA CitesType ==
    ASSUME NEW r \in Catalog
    PROVE  /\ Cites[r] \in Seq(Sources)
           /\ DOMAIN Cites[r] = 1 .. Len(Cites[r]) /\ Len(Cites[r]) \in Nat
           /\ IsFiniteSet(DOMAIN Cites[r]) /\ DOMAIN Cites[r] \subseteq Nat
  <1>1. Cites[r] \in Seq(Sources)
    BY ResearchAssumption
  <1>2. QED
    BY <1>1, SequenceOf, SequenceDomain

(* Pairs of a place in one list and a place in a list that belongs to it.  *)
LEMMA PairsFinite ==
    ASSUME NEW S, IsFiniteSet(S), S \subseteq Nat,
           NEW f, DOMAIN f = S, \A i \in S : f[i] \in Nat
    PROVE  LET pairs == UNION {{i} \X (1 .. f[i]) : i \in S}
           IN  IsFiniteSet(pairs) /\ pairs \in SUBSET (Nat \X Nat)
  <1>1. UNION {{i} \X (1 .. f[i]) : i \in S} = Units(f, S)
    BY DEF Units
  <1>2. IsFiniteSet(Units(f, S))
    BY UnitsFinite
  <1>3. QED
    BY <1>1, <1>2

LEMMA SourcesForType ==
    ASSUME NEW rs, IsSequence(rs), \A n \in DOMAIN rs : rs[n] \in Catalog
    PROVE  /\ SourcesFor(rs) \in Seq(Sources)
           /\ \A n \in DOMAIN rs : ToSet(Cites[rs[n]]) \subseteq ToSet(SourcesFor(rs))
  <1> DEFINE places == UNION {{i} \X DOMAIN Cites[rs[i]] : i \in DOMAIN rs}
             size == [i \in DOMAIN rs |-> Len(Cites[rs[i]])]
             v == [p \in places |-> Cites[rs[p[1]]][p[2]]]
  <1>1. IsFiniteSet(DOMAIN rs) /\ DOMAIN rs \subseteq Nat
    BY SequenceDomain
  <1>2. \A i \in DOMAIN rs : DOMAIN Cites[rs[i]] = 1 .. size[i] /\ size[i] \in Nat
    BY CitesType
  <1>3. places = UNION {{i} \X (1 .. size[i]) : i \in DOMAIN rs}
    BY <1>2
  <1>4. IsFiniteSet(places) /\ places \in SUBSET (Nat \X Nat)
    <2>1. DOMAIN size = DOMAIN rs /\ \A i \in DOMAIN rs : size[i] \in Nat
      BY <1>2
    <2> HIDE DEF size
    <2>2. QED
      BY <1>1, <1>3, <2>1, PairsFinite
  <1>5. \A p : p \in places <=>
            \E i \in DOMAIN rs : \E k \in DOMAIN Cites[rs[i]] : p = <<i, k>>
    OBVIOUS
  <1>6. DOMAIN v = places /\ \A p \in places : v[p] = Cites[rs[p[1]]][p[2]] /\ v[p] \in Sources
    <2>1. ASSUME NEW p \in places PROVE Cites[rs[p[1]]][p[2]] \in Sources
      <3>1. PICK i \in DOMAIN rs : \E k \in DOMAIN Cites[rs[i]] : p = <<i, k>>
        BY <1>5
      <3>2. PICK k \in DOMAIN Cites[rs[i]] : p = <<i, k>>
        BY <3>1
      <3>3. Cites[rs[i]] \in Seq(Sources)
        BY CitesType
      <3>4. Cites[rs[i]][k] \in Sources
        BY <3>3
      <3>5. QED
        BY <3>2, <3>4
    <2>2. QED
      BY <2>1
  <1>7. SourcesFor(rs) = FirstValues(v, Nested(places))
    BY DEF SourcesFor
  <1> HIDE DEF v, places
  <1>8. StrictOrder(places, Nested(places))
    BY <1>4, NestedOrder
  <1>9. /\ SourcesFor(rs) \in Seq(Sources)
        /\ \A p \in DOMAIN v : \E n \in DOMAIN SourcesFor(rs) : SourcesFor(rs)[n] = v[p]
    BY <1>4, <1>6, <1>7, <1>8, FirstValuesType
  <1>10. ASSUME NEW i \in DOMAIN rs, NEW s \in ToSet(Cites[rs[i]])
         PROVE  s \in ToSet(SourcesFor(rs))
    <2>1. PICK k \in DOMAIN Cites[rs[i]] : Cites[rs[i]][k] = s
      BY DEF ToSet
    <2>2. <<i, k>> \in DOMAIN v /\ v[<<i, k>>] = s
      BY <1>5, <1>6, <2>1
    <2>3. QED
      BY <1>9, <2>2 DEF ToSet
  <1>11. QED
    BY <1>9, <1>10

(* The search keeps sections that are there.                               *)
LEMMA SelectedType ==
    ASSUME Retrieving
    PROVE  \A n \in DOMAIN Selected : \E i \in DOMAIN all_sections : Selected[n] = all_sections[i]
  <1> DEFINE places == UNION {{n} \X Best(rules[n]) : n \in DOMAIN rules}
             order == {p \in places \X places :
                          \/ p[1][1] < p[2][1]
                          \/ p[1][1] = p[2][1] /\ Better(rules[p[1][1]], p[1][2], p[2][2])}
             keys == [p \in places |-> Key(all_sections[p[2]])]
             first == Firsts(keys, order)
  <1>1. /\ IsFiniteSet(DOMAIN rules) /\ DOMAIN rules \subseteq Nat
        /\ IsFiniteSet(DOMAIN all_sections) /\ DOMAIN all_sections \subseteq Nat
        /\ \A n \in DOMAIN rules : rules[n] \in Catalog
    BY SequenceDomain DEF Retrieving, AreKnown, SectionsTrusted
  <1>2. \A r : Best(r) \subseteq DOMAIN all_sections
    BY DEF Best, Hits
  <1>3. \A p \in places : /\ p = <<p[1], p[2]>>
                          /\ p[1] \in DOMAIN rules /\ p[2] \in DOMAIN all_sections
    BY <1>2
  <1>4. IsFiniteSet(places)
    <2> DEFINE D == DOMAIN rules
               E == DOMAIN all_sections
    <2>1. IsFiniteSet(D) /\ IsFiniteSet(E)
      BY <1>1
    <2>2. \A p \in places : p = <<p[1], p[2]>> /\ p[1] \in D /\ p[2] \in E
      BY <1>3
    <2> HIDE DEF D, E, places
    <2>3. places \in SUBSET (D \X E)
      BY <2>2
    <2>4. IsFiniteSet(D \X E)
      BY <2>1, ProductFinite
    <2>5. QED
      BY <2>3, <2>4, FS_Subset
  <1> HIDE DEF places
  <1>5. StrictOrder(places, order)
    <2> DEFINE score(p) == all_sections[p[2]].score[rules[p[1]]]
    <2>1. \A p \in places : p[1] \in Nat /\ p[2] \in Nat /\ score(p) \in Nat
      BY <1>1, <1>3 DEF Retrieving, SectionsTrusted
    <2>2. \A p, q \in places : p[1] = q[1] /\ p[2] = q[2] => p = q
      BY <1>3
    <2>3. \A p, q \in places : <<p, q>> \in order <=>
              \/ p[1] < q[1]
              \/ p[1] = q[1] /\ score(p) > score(q)
              \/ p[1] = q[1] /\ score(p) = score(q) /\ p[2] < q[2]
      BY DEF Better
    <2> HIDE DEF order, score
    <2>4. Transitive(places, order)
      BY <2>1, <2>3 DEF Transitive
    <2>5. Total(places, order)
      <3>1. ASSUME NEW p \in places, NEW q \in places, p # q
            PROVE  <<p, q>> \in order \/ <<q, p>> \in order
        <4>1. p[1] # q[1] \/ p[2] # q[2]
          BY <2>2, <3>1
        <4>2. /\ p[1] \in Nat /\ p[2] \in Nat /\ score(p) \in Nat
              /\ q[1] \in Nat /\ q[2] \in Nat /\ score(q) \in Nat
          BY <2>1
        <4>3. QED
          BY <2>3, <4>1, <4>2
      <3>2. QED
        BY <3>1 DEF Total
    <2>6. Irreflexive(places, order)
      BY <2>1, <2>3 DEF Irreflexive
    <2>7. QED
      BY <2>4, <2>5, <2>6 DEF StrictOrder
  <1>6. first \in Seq(places)
    <2>1. DOMAIN keys = places
      OBVIOUS
    <2> HIDE DEF keys, order
    <2>2. QED
      BY <1>4, <1>5, <2>1, FirstsType
  <1>7. Selected = [n \in DOMAIN first |-> all_sections[first[n][2]]]
    BY DEF Selected, places
  <1> HIDE DEF first
  <1>8. \A n \in DOMAIN first : first[n] \in places
    BY <1>6
  <1>9. QED
    BY <1>3, <1>7, <1>8

-----------------------------------------------------------------------------
(* The steps of the research.                                              *)

LEMMA RulesStep ==
    ASSUME RInv, FindRules
    PROVE  RInv'
  <1>1. /\ stage = "rules" /\ rules' = Known
        /\ UNCHANGED <<found, all_sections, unavailable, sections>>
        /\ documentation = {} /\ result = ""
    BY DEF FindRules, inputVars, RInv, Retrieving
  <1>2. /\ found \in Seq(Findings) /\ AreKnown(Known)
        /\ queue \in Seq(Trusted) /\ SectionsTrusted /\ SectionsRetrieved
    BY KnownType DEF RInv, Retrieving
  <1> AreKnown(rules)' /\ SectionsTrusted' /\ SectionsRetrieved'
    BY <1>1, <1>2 DEF AreKnown, SectionsTrusted, SectionsRetrieved
  <1>3. CASE Known = <<>>
    <2>1. queue' = queue /\ stage' = "done" /\ documentation' = {} /\ result' = "unavailable"
      BY <1>3 DEF FindRules, Return
    <2>2. QED
      BY <1>1, <1>2, <2>1
      DEF RInv, Retrieving, NoneLost, EvidenceIsGrounded, ResearchIsWhole
  <1>4. CASE Known # <<>> /\ ToSet(SourcesFor(Known)) \subseteq Trusted
    <2>1. /\ stage' = "fetch" /\ queue' = SourcesFor(Known)
          /\ UNCHANGED <<result, documentation>>
      BY <1>4 DEF FindRules
    <2>2. IsSequence(Known) /\ \A n \in DOMAIN Known : Known[n] \in Catalog
      BY <1>2 DEF AreKnown
    <2>3. /\ SourcesFor(Known) \in Seq(Sources)
          /\ \A n \in DOMAIN Known : ToSet(Cites[Known[n]]) \subseteq ToSet(SourcesFor(Known))
      BY <2>2, SourcesForType
    <2>4. queue' \in Seq(Trusted)
      <3>1. /\ Len(queue') \in Nat /\ DOMAIN queue' = 1 .. Len(queue')
            /\ queue' \in [1 .. Len(queue') -> Sources]
        BY <2>1, <2>3
      <3>2. queue' \in [1 .. Len(queue') -> Trusted]
        BY <1>4, <2>1, <3>1 DEF ToSet
      <3>3. QED
        BY <3>1, <3>2, SeqDef
    <2>5. AllCited(ToSet(queue'))
      <3>1. ASSUME NEW f \in ToSet(found), RuleOf[f] \in Catalog
            PROVE  ToSet(Cites[RuleOf[f]]) \subseteq ToSet(queue')
        <4>1. PICK n \in DOMAIN Known : Known[n] = RuleOf[f]
          BY <1>2, <3>1, KnownType
        <4>2. QED
          BY <2>1, <2>3, <4>1
      <3>2. QED
        BY <3>1 DEF AllCited
    <2>6. AllCited(SourcesRead \cup unavailable \cup ToSet(queue'))
      BY <2>5 DEF AllCited
    <2>7. NoneLost'
      BY <1>1, <2>1, <2>6 DEF NoneLost, AllCited, SourcesRead
    <2> Retrieving'
      BY <1>1, <1>2, <2>1, <2>4, <2>7 DEF Retrieving
    <2>8. QED
      BY <1>1, <2>1 DEF RInv, EvidenceIsGrounded, ResearchIsWhole
  <1>5. CASE Known # <<>> /\ ~(ToSet(SourcesFor(Known)) \subseteq Trusted)
    <2>1. queue' = queue /\ stage' = "done" /\ documentation' = {} /\ result' = ""
      BY <1>5 DEF FindRules, Raise, Return
    <2>2. QED
      BY <1>1, <1>2, <2>1
      DEF RInv, Retrieving, NoneLost, EvidenceIsGrounded, ResearchIsWhole
  <1>6. QED
    BY <1>3, <1>4, <1>5

(* What a source has is added behind what was there, or the source is      *)
(* noted as unavailable; either way it was the next one.                   *)
LEMMA RetrievedStep ==
    ASSUME RInv, stage = "fetch", queue # <<>>, NEW document, IsDocument(document),
           Retrieved(document), UNCHANGED <<inputVars, stage, rules, sections, resultVars>>
    PROVE  RInv'
  <1> DEFINE source == Head(queue)
             added == SectionsOf(source, document)
  <1>1. /\ UNCHANGED <<found, stage, rules, sections, documentation, result>>
        /\ all_sections' = all_sections \o added
        /\ unavailable' = IF document = <<>> THEN unavailable \cup {source} ELSE unavailable
        /\ queue' = Tail(queue)
    BY DEF Retrieved, inputVars, resultVars
  <1>2. /\ source \in Trusted /\ queue' \in Seq(Trusted)
        /\ ToSet(queue) \subseteq {source} \cup ToSet(queue')
    <2>1. queue \in Seq(Trusted)
      BY DEF RInv, Retrieving
    <2> /\ Len(queue) \in Nat \ {0}
        /\ DOMAIN queue = 1 .. Len(queue)
      BY <2>1, EmptySeq
    <2>2. source \in Trusted /\ queue' \in Seq(Trusted)
      BY <1>1, <2>1, HeadTailProperties
    <2>3. ASSUME NEW i \in DOMAIN queue, i # 1
          PROVE  i - 1 \in DOMAIN queue' /\ queue'[i - 1] = queue[i]
      BY <1>1, <2>1, <2>3
    <2>4. source = queue[1]
      BY <2>1
    <2>5. QED
      BY <2>2, <2>3, <2>4 DEF ToSet
  <1>3. /\ IsSequence(document) /\ DOMAIN document = 1 .. Len(document)
        /\ Len(document) \in Nat
        /\ \A i \in DOMAIN document : \A r \in Catalog : document[i].score[r] \in Nat
    BY SequenceDomain DEF IsDocument
  <1>4. /\ DOMAIN added = 1 .. Len(document)
        /\ \A i \in DOMAIN added :
              added[i].source = source /\ \A r \in Catalog : added[i].score[r] \in Nat
    BY <1>3 DEF SectionsOf
  <1>5. added \in Seq({added[i] : i \in DOMAIN added}) /\ Len(added) = Len(document)
    <2> DEFINE S == {added[i] : i \in DOMAIN added}
    <2>1. added \in [1 .. Len(document) -> S]
      BY <1>4 DEF SectionsOf
    <2> HIDE DEF S, added
    <2>2. added \in Seq(S)
      BY <1>3, <2>1, SeqDef
    <2>3. Len(added) = Len(document)
      BY <1>3, <1>4, <2>2
    <2>4. QED
      BY <2>2, <2>3 DEF S
  <1>6. /\ all_sections \in Seq({all_sections[i] : i \in DOMAIN all_sections})
        /\ DOMAIN all_sections = 1 .. Len(all_sections) /\ Len(all_sections) \in Nat
    BY SequenceDomain DEF RInv, Retrieving, SectionsTrusted, IsSequence
  <1> HIDE DEF source, added
  <1>7. /\ IsSequence(all_sections')
        /\ DOMAIN all_sections' = 1 .. Len(all_sections) + Len(document)
        /\ \A i \in DOMAIN all_sections : all_sections'[i] = all_sections[i]
        /\ \A i \in DOMAIN added : all_sections'[Len(all_sections) + i] = added[i]
        /\ \A i \in DOMAIN all_sections' \ DOMAIN all_sections :
              all_sections'[i] = added[i - Len(all_sections)]
    <2> DEFINE A == {all_sections[i] : i \in DOMAIN all_sections}
               B == {added[i] : i \in DOMAIN added}
    <2>1. all_sections \in Seq(A \cup B) /\ added \in Seq(A \cup B)
      <3>1. all_sections \in Seq(A) /\ added \in Seq(B)
        BY <1>5, <1>6
      <3> HIDE DEF A, B
      <3>2. QED
        BY <3>1
    <2> HIDE DEF A, B
    <2>2. all_sections' \in Seq(A \cup B)
      BY <1>1, <2>1
    <2>3. IsSequence(all_sections')
      BY <2>2, SequenceOf
    <2>4. DOMAIN all_sections' = 1 .. Len(all_sections) + Len(document)
      <3>1. Len(all_sections \o added) = Len(all_sections) + Len(added)
        BY <2>1, ConcatProperties
      <3> Len(all_sections') = Len(all_sections) + Len(document)
        BY <1>1, <1>5, <3>1, Zenon
      <3>2. QED
        BY <2>2, <3>1
    <2>5. \A i \in DOMAIN all_sections : all_sections'[i] = all_sections[i]
      BY <1>1, <1>3, <1>5, <1>6, <2>1
    <2>6. ASSUME NEW i \in 1 .. Len(added)
          PROVE  all_sections'[Len(all_sections) + i] = added[i]
      <3>1. /\ Len(all_sections) + i \in 1 .. Len(all_sections) + Len(added)
            /\ ~(Len(all_sections) + i <= Len(all_sections))
            /\ Len(all_sections) + i - Len(all_sections) = i
        BY <1>3, <1>5, <1>6
      <3>2. QED
        BY <1>1, <2>1, <3>1, ConcatProperties
    <2>7. \A i \in DOMAIN added : all_sections'[Len(all_sections) + i] = added[i]
      BY <1>4, <1>5, <2>6
    <2>8. ASSUME NEW i \in DOMAIN all_sections' \ DOMAIN all_sections
          PROVE  all_sections'[i] = added[i - Len(all_sections)]
      <3>1. i - Len(all_sections) \in 1 .. Len(added)
            /\ Len(all_sections) + (i - Len(all_sections)) = i
        BY <1>3, <1>5, <1>6, <2>4
      <3>2. QED
        BY <2>6, <3>1
    <2>9. QED
      BY <2>3, <2>4, <2>5, <2>7, <2>8
  <1>8. ASSUME NEW i \in DOMAIN all_sections'
        PROVE  /\ all_sections'[i].source \in Trusted
               /\ \A r \in Catalog : all_sections'[i].score[r] \in Nat
    <2>1. CASE i \in DOMAIN all_sections
      BY <1>7, <2>1 DEF RInv, Retrieving, SectionsTrusted
    <2>2. CASE i \notin DOMAIN all_sections
      <3>1. i - Len(all_sections) \in DOMAIN added
        BY <1>3, <1>4, <1>6, <1>7, <2>2
      <3>2. QED
        BY <1>2, <1>4, <1>7, <2>2, <3>1
    <2>3. QED
      BY <2>1, <2>2
  <1>9. DOMAIN all_sections \subseteq DOMAIN all_sections'
    BY <1>3, <1>6, <1>7
  <1>10. \A n \in DOMAIN sections : \E i \in DOMAIN all_sections' : sections[n] = all_sections'[i]
    BY <1>7, <1>9 DEF RInv, Retrieving, SectionsRetrieved
  <1>11. SourcesRead \subseteq SourcesRead'
    BY <1>7, <1>9 DEF SourcesRead
  <1>12. source \in SourcesRead' \cup unavailable'
    <2>1. CASE document = <<>>
      BY <1>1, <2>1
    <2>2. CASE document # <<>>
      <3>1. 1 \in DOMAIN document
        <4>1. document \in Seq({document[i] : i \in DOMAIN document})
          BY <1>3 DEF IsSequence
        <4>2. Len(document) # 0
          BY <2>2, <4>1
        <4>3. QED
          BY <1>3, <4>2
      <3>2. 1 \in DOMAIN added /\ Len(all_sections) + 1 \in DOMAIN all_sections'
        BY <1>3, <1>4, <1>6, <1>7, <3>1
      <3>3. all_sections'[Len(all_sections) + 1].source = source
        BY <1>4, <1>7, <3>2
      <3>4. QED
        BY <3>2, <3>3 DEF SourcesRead
    <2>3. QED
      BY <2>1, <2>2
  <1>13. AllCited(SourcesRead \cup unavailable \cup ToSet(queue))
    BY DEF RInv, Retrieving, NoneLost
  <1>14. SourcesRead \cup unavailable \cup ToSet(queue)
            \subseteq SourcesRead' \cup unavailable' \cup ToSet(queue')
    BY <1>1, <1>2, <1>11, <1>12
  <1>15. AllCited(SourcesRead' \cup unavailable' \cup ToSet(queue'))
    BY <1>13, <1>14 DEF AllCited
  <1>16. Retrieving'
    <2>1. SectionsTrusted'
      BY <1>7, <1>8 DEF SectionsTrusted
    <2>2. SectionsRetrieved'
      BY <1>1, <1>10 DEF SectionsRetrieved
    <2>3. NoneLost'
      BY <1>1, <1>15 DEF NoneLost, AllCited
    <2>4. found' \in Seq(Findings) /\ AreKnown(rules)'
      BY <1>1 DEF RInv, Retrieving, AreKnown
    <2>5. QED
      BY <1>1, <1>2, <2>1, <2>2, <2>3, <2>4 DEF RInv, Retrieving
  <1>17. documentation' = {} /\ result' = ""
    BY <1>1 DEF RInv, Retrieving
  <1>18. QED
    BY <1>16, <1>17 DEF RInv, EvidenceIsGrounded, ResearchIsWhole

LEMMA SearchStep ==
    ASSUME RInv, Search
    PROVE  RInv'
  <1>1. /\ stage = "fetch" /\ queue = <<>> /\ sections' = Selected
        /\ UNCHANGED <<found, rules, queue, all_sections, unavailable>>
        /\ documentation = {} /\ result = ""
    BY DEF Search, inputVars, retrievalVars, RInv, Retrieving
  <1>2. \A n \in DOMAIN sections' : \E i \in DOMAIN all_sections : sections'[n] = all_sections[i]
    BY <1>1, SelectedType DEF RInv
  <1>3. AllCited(SourcesRead \cup unavailable)
    <2>1. AllCited(SourcesRead \cup unavailable \cup ToSet(queue))
      BY <1>1 DEF RInv, Retrieving, NoneLost
    <2>2. ToSet(queue) = {}
      <3>1. queue \in Seq(Trusted) /\ Len(queue) = 0
        BY <1>1, EmptySeq DEF RInv, Retrieving
      <3>2. QED
        BY <3>1 DEF ToSet
    <2>3. QED
      BY <2>1, <2>2 DEF AllCited
  <1>4. \/ stage' = "done" /\ documentation' = {} /\ result' = "unavailable"
        \/ stage' = "ask" /\ UNCHANGED <<documentation, result>>
    BY DEF Search, Return
  <1>5. Retrieving'
    <2>1. SectionsTrusted' /\ AreKnown(rules)' /\ found' \in Seq(Findings)
      BY <1>1 DEF RInv, Retrieving, SectionsTrusted, AreKnown
    <2>2. SectionsRetrieved'
      BY <1>1, <1>2 DEF SectionsRetrieved
    <2>3. NoneLost'
      BY <1>1, <1>3, <1>4 DEF NoneLost, AllCited, SourcesRead
    <2>4. QED
      BY <1>1, <1>4, <2>1, <2>2, <2>3 DEF RInv, Retrieving
  <1>6. QED
    BY <1>1, <1>4, <1>5 DEF RInv, EvidenceIsGrounded, ResearchIsWhole

(* _evidence_from_selections rejects what it cannot find again.            *)
LEMMA EvidenceGrounded ==
    ASSUME Retrieving, NEW selections, NEW ev \in EvidenceOf(selections)
    PROVE  /\ ev.source \in Trusted
           /\ \E i \in DOMAIN all_sections : Key(all_sections[i]) = <<ev.source, ev.heading>>
           /\ ev.rules \subseteq {RuleOf[f] : f \in ToSet(found)} \cap Catalog
  <1>1. PICK s : /\ Accepted(s)
                 /\ ev = [source |-> s.key[1], heading |-> s.key[2], rules |-> s.rules]
    BY DEF EvidenceOf, AcceptedOf
  <1>2. PICK n \in DOMAIN sections : Key(sections[n]) = s.key
    BY <1>1 DEF Accepted, HasSection
  <1>3. PICK i \in DOMAIN all_sections : sections[n] = all_sections[i]
    BY DEF Retrieving, SectionsRetrieved
  <1>4. s.key = <<all_sections[i].source, all_sections[i].heading>>
    BY <1>2, <1>3 DEF Key
  <1>5. ev.source = all_sections[i].source /\ ev.heading = all_sections[i].heading
    BY <1>1, <1>4
  <1>6. ev.rules \subseteq ToSet(rules)
    BY <1>1 DEF Accepted
  <1>7. ToSet(rules) \subseteq {RuleOf[f] : f \in ToSet(found)} \cap Catalog
    BY DEF Retrieving, AreKnown, ToSet
  <1>8. QED
    BY <1>5, <1>6, <1>7 DEF Retrieving, SectionsTrusted, Key

LEMMA AskStep ==
    ASSUME RInv, Ask
    PROVE  RInv'
  <1>1. /\ stage = "ask"
        /\ UNCHANGED <<found, rules, queue, all_sections, unavailable, sections>>
    BY DEF Ask, inputVars, retrievalVars
  <1>2. PICK reply : CASE reply.kind = "output" -> Judge(reply.data)
                       [] reply.kind \in {"timeout", "budget", "schema"} ->
                             Return("partial", {}, TRUE, "none")
                       [] OTHER -> Raise
    BY Zenon DEF Ask
  <1>3. \/ stage' = "done" /\ documentation' = {} /\ result' \in {"", "partial"}
        \/ \E selections :
              /\ stage' = "done" /\ documentation' = EvidenceOf(selections)
              /\ result' = "completed" => unavailable = {} /\ documentation' # {}
    <2>1. CASE reply.kind = "output" /\ TooLong(reply.data)
      BY <1>2, <2>1 DEF Judge, Raise, Return
    <2>2. CASE reply.kind = "output" /\ ~TooLong(reply.data)
      BY <1>2, <2>2 DEF Judge, Return
    <2>3. CASE reply.kind # "output"
      BY <1>2, <2>3 DEF Raise, Return
    <2>4. QED
      BY <2>1, <2>2, <2>3
  <1>4. Retrieving'
    <2>1. SectionsTrusted' /\ SectionsRetrieved' /\ AreKnown(rules)'
      BY <1>1 DEF RInv, Retrieving, SectionsTrusted, SectionsRetrieved, AreKnown
    <2>2. QED
      BY <1>1, <1>3, <2>1 DEF RInv, Retrieving, NoneLost
  <1>5. EvidenceIsGrounded'
    <2>1. ASSUME NEW ev \in documentation'
          PROVE  /\ ev.source \in Trusted
                 /\ \E i \in DOMAIN all_sections :
                       Key(all_sections[i]) = <<ev.source, ev.heading>>
                 /\ ev.rules \subseteq {RuleOf[f] : f \in ToSet(found)} \cap Catalog
      BY <1>3, <2>1, EvidenceGrounded DEF RInv
    <2>2. QED
      BY <1>1, <2>1 DEF EvidenceIsGrounded, Key
  <1>6. ResearchIsWhole'
    <2>1. SUFFICES ASSUME result' = "completed" PROVE ResearchIsWhole'
      BY DEF ResearchIsWhole
    <2>2. unavailable = {} /\ documentation' # {}
      BY <1>3, <2>1
    <2>3. AllCited(SourcesRead)
      BY <1>1, <2>2 DEF RInv, Retrieving, NoneLost, AllCited
    <2>4. QED
      BY <1>1, <2>2, <2>3 DEF ResearchIsWhole, AllCited, SourcesRead
  <1>7. QED
    BY <1>4, <1>5, <1>6 DEF RInv

(* The node returns before it has read anything, or by an exception.       *)
LEMMA NothingReturned ==
    ASSUME RInv, NEW status, status # "completed", NEW told, NEW error,
           Return(status, {}, told, error),
           UNCHANGED <<inputVars, rules, retrievalVars, sections, calls>>
    PROVE  RInv'
  <1>1. /\ stage' = "done" /\ result' = status /\ documentation' = {}
        /\ UNCHANGED <<found, rules, queue, all_sections, unavailable, sections>>
    BY DEF Return, inputVars, retrievalVars
  <1>2. SectionsTrusted' /\ SectionsRetrieved' /\ AreKnown(rules)'
    BY <1>1 DEF RInv, Retrieving, SectionsTrusted, SectionsRetrieved, AreKnown
  <1>3. Retrieving'
    BY <1>1, <1>2 DEF RInv, Retrieving, NoneLost
  <1>4. QED
    BY <1>1, <1>3 DEF RInv, EvidenceIsGrounded, ResearchIsWhole

(* A request that fails changes nothing but the number of them.            *)
LEMMA NothingRead ==
    ASSUME RInv, UNCHANGED <<found, stage, rules, queue, all_sections, unavailable, sections,
                             result, documentation>>
    PROVE  RInv'
  <1>1. SectionsTrusted' /\ SectionsRetrieved' /\ AreKnown(rules)'
    BY DEF RInv, Retrieving, SectionsTrusted, SectionsRetrieved, AreKnown
  <1>2. NoneLost'
    BY DEF RInv, Retrieving, NoneLost, AllCited, SourcesRead
  <1>3. Retrieving'
    BY <1>1, <1>2 DEF RInv, Retrieving
  <1>4. QED
    BY <1>3 DEF RInv, EvidenceIsGrounded, ResearchIsWhole, Key

LEMMA ResearchStep ==
    ASSUME RInv, [AgentsNext]_agentVars
    PROVE  RInv'
  <1>1. CASE NoFindings \/ NoAgent
    BY <1>1, NothingReturned DEF NoFindings, NoAgent, Raise
  <1>2. CASE FindRules
    BY <1>2, RulesStep
  <1>3. ASSUME Fetching PROVE Head(queue) \in Sources
    BY <1>3, HeadTailProperties, ResearchAssumption DEF Fetching, RInv, Retrieving
  <1>4. CASE LiveAnswers
    <2>1. /\ Retrieved(Live[Head(queue)])
          /\ UNCHANGED <<inputVars, stage, rules, sections, resultVars>>
          /\ Fetching
      BY <1>4 DEF LiveAnswers
    <2>2. IsDocument(Live[Head(queue)])
      BY <1>3, <2>1, ResearchAssumption
    <2>3. QED
      BY <2>1, <2>2, RetrievedStep DEF Fetching
  <1>5. CASE ReadSnapshot
    <2>1. /\ Retrieved(Snapshot[Head(queue)])
          /\ UNCHANGED <<inputVars, stage, rules, sections, resultVars>>
          /\ Fetching
      BY <1>5 DEF ReadSnapshot
    <2>2. IsDocument(Snapshot[Head(queue)])
      BY <1>3, <2>1, ResearchAssumption
    <2>3. QED
      BY <2>1, <2>2, RetrievedStep DEF Fetching
  <1>6. CASE LiveFails
    BY <1>6, NothingRead DEF LiveFails, inputVars, resultVars
  <1>7. CASE Search
    BY <1>7, SearchStep
  <1>8. CASE Ask
    BY <1>8, AskStep
  <1>9. CASE NoInterpreter \/ NothingToInterpret \/ Interpret \/ UNCHANGED agentVars
    <2>1. UNCHANGED researchVars
      BY <1>9 DEF NoInterpreter, NothingToInterpret, Interpret, agentVars
    <2>2. QED
      BY <2>1, NothingRead DEF researchVars, inputVars, retrievalVars, resultVars
  <1>10. QED
    BY <1>1, <1>2, <1>4, <1>5, <1>6, <1>7, <1>8, <1>9 DEF AgentsNext, Research

LEMMA ResearchStarts ==
    ASSUME AgentsInit
    PROVE  RInv
  <1>1. /\ found \in FindingLists /\ stage = "rules" /\ rules = <<>> /\ queue = <<>>
        /\ all_sections = <<>> /\ sections = <<>> /\ documentation = {} /\ result = ""
    BY DEF AgentsInit, ResearchInit
  <1>2. found \in Seq(Findings) /\ queue \in Seq(Trusted)
    BY <1>1, ResearchAssumption, EmptySeq
  <1>3. IsSequence(<<>>) /\ DOMAIN <<>> = {}
    <2>1. <<>> \in Seq(Trusted) /\ Len(<<>>) = 0
      BY EmptySeq
    <2>2. DOMAIN <<>> = 1 .. 0 /\ IsSequence(<<>>)
      BY <2>1, SequenceOf, SequenceDomain
    <2>3. QED
      BY <2>2
  <1>4. AreKnown(rules) /\ SectionsTrusted /\ SectionsRetrieved /\ NoneLost
    BY <1>1, <1>3 DEF AreKnown, SectionsTrusted, SectionsRetrieved, NoneLost
  <1>5. QED
    BY <1>1, <1>2, <1>4 DEF RInv, Retrieving, EvidenceIsGrounded, ResearchIsWhole

(* _evidence_from_selections and validate_source: whatever the LLM selects *)
(* and whatever the sources answer, the evidence in the state quotes what  *)
(* was retrieved from trusted sources and names rules of the findings.     *)
THEOREM EvidenceAlwaysGrounded == AgentsSpec => []EvidenceIsGrounded
  <1>1. RInv => EvidenceIsGrounded
    BY DEF RInv
  <1>2. QED
    BY <1>1, ResearchStarts, ResearchStep, PTL DEF AgentsSpec

(* sources_for_rules, retrieve and the status that the two agents return:  *)
(* a completed research has read every source that a rule of the findings  *)
(* cites, and a completed interpretation cites evidence that is there.     *)
THEOREM CompletedAlwaysWhole == AgentsSpec => []CompletedIsWhole
  <1>1. RInv /\ InterpretationIsWhole => CompletedIsWhole
    BY DEF RInv, CompletedIsWhole
  <1>2. QED
    BY <1>1, ResearchStarts, ResearchStep, InterpretationAlwaysWhole, PTL DEF AgentsSpec

-----------------------------------------------------------------------------
(* Both agents go on.                                                      *)

StagesLeft(at) ==
    CASE at = "rules" -> 3 [] at = "fetch" -> 2 [] at = "ask" -> 1 [] OTHER -> 0

ToInterpret(status, error) == IF status = "" /\ error = "none" THEN 1 ELSE 0

LEMMA LeftAt ==
    /\ Left = <<Left[1], Left[2], Left[3], Left[4]>>
    /\ Left' = <<Left'[1], Left'[2], Left'[3], Left'[4]>>
    /\ Left[1] = StagesLeft(stage) /\ Left'[1] = StagesLeft(stage')
    /\ Left[2] = Len(queue) /\ Left'[2] = Len(queue')
    /\ Left[3] = MaxRetries + 1 - tries /\ Left'[3] = MaxRetries + 1 - tries'
    /\ Left[4] = ToInterpret(interpretation.status, interpError)
    /\ Left'[4] = ToInterpret(interpretation'.status, interpError')
  BY DEF Left, StagesLeft, ToInterpret

LEMMA StageEnds ==
    ASSUME StagesLeft(stage') \in Nat, StagesLeft(stage') < StagesLeft(stage)
    PROVE  LessLeft(Left', Left)
  <1>1. Left'[1] \in Nat /\ Left'[1] < Left[1] /\ \A k \in 1 .. 1 - 1 : Left'[k] = Left[k]
    BY LeftAt
  <1>2. QED
    BY <1>1, LeftAt, LessLeftFour

(* retrieve has taken the next source.                                     *)
LEMMA SourceEnds ==
    ASSUME queue \in Seq(Trusted), queue # <<>>, queue' = Tail(queue), UNCHANGED stage
    PROVE  LessLeft(Left', Left)
  <1>1. Len(queue) \in Nat /\ Len(queue') \in Nat /\ Len(queue') < Len(queue)
    BY HeadTailProperties, EmptySeq
  <1>2. Left'[2] \in Nat /\ Left'[2] < Left[2]
    BY <1>1, LeftAt
  <1>3. \A k \in 1 .. 2 - 1 : Left'[k] = Left[k]
    BY LeftAt
  <1>4. QED
    BY <1>2, <1>3, LeftAt, LessLeftFour

LEMMA RequestEnds ==
    ASSUME tries \in 0 .. MaxRetries, tries' \in {tries + 1, MaxRetries + 1},
           UNCHANGED <<stage, queue>>
    PROVE  LessLeft(Left', Left)
  <1>1. Left'[3] \in Nat /\ Left'[3] < Left[3]
    BY LeftAt, ResearchAssumption
  <1>2. \A k \in 1 .. 3 - 1 : Left'[k] = Left[k]
    <2>1. \A k \in 1 .. 3 - 1 : k = 1 \/ k = 2
      OBVIOUS
    <2>2. QED
      BY <2>1, LeftAt
  <1>3. QED
    BY <1>1, <1>2, LeftAt, LessLeftFour

LEMMA InterpretationEnds ==
    ASSUME ToInterpret(interpretation.status, interpError) = 1,
           ToInterpret(interpretation'.status, interpError') = 0,
           UNCHANGED <<stage, queue, tries>>
    PROVE  LessLeft(Left', Left)
  <1>1. Left'[4] \in Nat /\ Left'[4] < Left[4]
    BY LeftAt
  <1>2. \A k \in 1 .. 4 - 1 : Left'[k] = Left[k]
    <2>1. \A k \in 1 .. 4 - 1 : k = 1 \/ k = 2 \/ k = 3
      OBVIOUS
    <2>2. QED
      BY <2>1, LeftAt
  <1>3. QED
    BY <1>1, <1>2, LeftAt, LessLeftFour

(* _default_output, the fallback, the refusal: each leaves a mark.         *)
LEMMA InterpretationMarked ==
    ASSUME NEW status, NEW entries, NEW error, Interpreted(status, entries, error),
           status # "" \/ error # "none"
    PROVE  ToInterpret(interpretation'.status, interpError') = 0
  <1>1. interpretation'.status = status /\ interpError' = error
    BY InterpretedFields DEF Interpreted
  <1>2. ~(interpretation'.status = "" /\ interpError' = "none")
    BY <1>1, Zenon
  <1>3. QED
    BY <1>2 DEF ToInterpret

LEMMA InterpretationStep ==
    ASSUME NoInterpreter \/ NothingToInterpret \/ Interpret
    PROVE  LessLeft(Left', Left)
  <1>1. Quiet /\ UNCHANGED <<stage, queue, tries>>
    BY DEF NoInterpreter, NothingToInterpret, Interpret, researchVars, retrievalVars
  <1>2. ToInterpret(interpretation.status, interpError) = 1
    BY <1>1 DEF Quiet, ToInterpret
  <1>3. /\ "LLM_UNAVAILABLE" # "none" /\ "unavailable" # ""
        /\ "completed" # "" /\ "partial" # ""
    OBVIOUS
  <1>4. ToInterpret(interpretation'.status, interpError') = 0
    <2>1. CASE NoInterpreter
      BY <1>3, <2>1, InterpretationMarked, Zenon DEF NoInterpreter
    <2>2. CASE NothingToInterpret
      BY <1>3, <2>2, InterpretationMarked, Zenon DEF NothingToInterpret
    <2>3. CASE Interpret
      <3>1. PICK entries : \/ Interpreted("", {}, "LLM_UNAVAILABLE")
                           \/ Interpreted("completed", entries, "none")
                           \/ Interpreted("partial", {}, "none")
        BY <2>3, Zenon DEF Interpret
      <3>2. CASE Interpreted("", {}, "LLM_UNAVAILABLE")
        BY <1>3, <3>2, InterpretationMarked, Zenon
      <3>3. CASE Interpreted("completed", entries, "none")
        BY <1>3, <3>3, InterpretationMarked, Zenon
      <3>4. CASE Interpreted("partial", {}, "none")
        BY <1>3, <3>4, InterpretationMarked, Zenon
      <3>5. QED
        BY <3>1, <3>2, <3>3, <3>4
    <2>4. QED
      BY <2>1, <2>2, <2>3
  <1>5. QED
    BY <1>1, <1>2, <1>4, InterpretationEnds

(* retrieve counts the requests for one source.                            *)
Counted == tries \in 0 .. MaxRetries + 1

LEMMA CountedStep ==
    ASSUME Counted, [AgentsNext]_agentVars
    PROVE  Counted'
  <1>1. CASE UNCHANGED tries
    BY <1>1 DEF Counted
  <1>2. CASE LiveAnswers \/ ReadSnapshot
    <2>1. tries' = 0
      BY <1>2 DEF LiveAnswers, ReadSnapshot, Retrieved
    <2>2. QED
      BY <2>1, ResearchAssumption DEF Counted
  <1>3. CASE LiveFails
    BY <1>3, ResearchAssumption DEF LiveFails, GivenUp, Counted
  <1>4. CASE NoFindings \/ NoAgent \/ FindRules \/ Search \/ Ask
    BY <1>1, <1>4 DEF NoFindings, NoAgent, FindRules, Search, Ask, retrievalVars
  <1>5. CASE NoInterpreter \/ NothingToInterpret \/ Interpret \/ UNCHANGED agentVars
    BY <1>1, <1>5
    DEF NoInterpreter, NothingToInterpret, Interpret, agentVars, researchVars, retrievalVars
  <1>6. QED
    BY <1>2, <1>3, <1>4, <1>5 DEF AgentsNext, Research

LEMMA AgentStepAdvances ==
    ASSUME RInv, Counted, AgentsNext
    PROVE  LessLeft(Left', Left)
  <1>1. CASE NoFindings \/ NoAgent
    <2>1. stage = "rules" /\ stage' = "done"
      BY <1>1 DEF NoFindings, NoAgent, Raise, Return
    <2>2. QED
      BY <2>1, StageEnds DEF StagesLeft
  <1>2. CASE FindRules
    <2>1. stage = "rules" /\ stage' \in {"done", "fetch"}
      BY <1>2 DEF FindRules, Raise, Return
    <2>2. QED
      BY <2>1, StageEnds DEF StagesLeft
  <1>3. CASE LiveAnswers \/ ReadSnapshot
    <2>1. queue # <<>> /\ queue' = Tail(queue) /\ stage' = stage
      BY <1>3 DEF LiveAnswers, ReadSnapshot, Retrieved, Fetching
    <2>2. QED
      BY <2>1, SourceEnds DEF RInv, Retrieving
  <1>4. CASE LiveFails
    <2>1. tries \in 0 .. MaxRetries
      BY <1>4, ResearchAssumption DEF LiveFails, GivenUp, Counted
    <2>2. QED
      BY <1>4, <2>1, RequestEnds DEF LiveFails
  <1>5. CASE Search
    <2>1. stage = "fetch" /\ stage' \in {"done", "ask"}
      BY <1>5 DEF Search, Return
    <2>2. QED
      BY <2>1, StageEnds DEF StagesLeft
  <1>6. CASE Ask
    <2>1. stage = "ask" /\ stage' = "done"
      BY <1>6, Zenon DEF Ask, Judge, Raise, Return
    <2>2. QED
      BY <2>1, StageEnds DEF StagesLeft
  <1>7. CASE NoInterpreter \/ NothingToInterpret \/ Interpret
    BY <1>7, InterpretationStep
  <1>8. QED
    BY <1>1, <1>2, <1>3, <1>4, <1>5, <1>6, <1>7 DEF AgentsNext, Research

(* retrieve and the two nodes: no failure of a source or of the LLM takes  *)
(* the agents back, and a source is asked max_retries + 1 times at most.   *)
THEOREM AgentsAlwaysAdvance == AgentsSpec => AgentsAdvance
  <1>1. AgentsInit => Counted
    <2>1. AgentsInit => tries = 0
      BY Zenon DEF AgentsInit, ResearchInit
    <2>2. QED
      BY <2>1, ResearchAssumption DEF Counted
  <1>2. RInv /\ Counted /\ [AgentsNext]_agentVars => [LessLeft(Left', Left)]_agentVars
    BY AgentStepAdvances
  <1>3. QED
    BY <1>1, <1>2, ResearchStarts, ResearchStep, CountedStep, PTL
    DEF AgentsSpec, AgentsAdvance

=============================================================================
