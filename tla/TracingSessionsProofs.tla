----------------------- MODULE TracingSessionsProofs -----------------------
(***************************************************************************)
(* Proofs about TracingSessions, for any finite set of analyses, any nodes *)
(* and any number of attempts: the gauge counts the graphs that run or     *)
(* raised, and a report tells what happened to its own trace.              *)
(***************************************************************************)
EXTENDS TracingSessions, FiniteSetTheorems, TLAPS

Counted == {a \in Analyses : phase[a] \in {"running", "raised"}}

(* A session is there from the start of a graph to its report.             *)
Lives(a) == session[a] # NoSession <=> phase[a] \in {"running", "raised"}

(* What the status of an open session says; the status of the process does *)
(* not matter to it.                                                       *)
Told(a) == IF ~enabled THEN "disabled" ELSE IF missed[a] THEN "degraded" ELSE "configured"

Tells(a) == session[a] # NoSession =>
    session[a].status = Told(a) /\ (session[a].posted => enabled)

(* As long as nothing about a trace has failed, LangSmith knows its root   *)
(* and every open handle, and nothing is unended but what is open or was   *)
(* abandoned.                                                              *)
Whole(a) == session[a] # NoSession /\ session[a].status = "configured" =>
    /\ session[a].posted
    /\ root[a] = "posted"
    /\ \A h \in open[a] : h.posted
    /\ unended[a] \subseteq {h.run : h \in open[a]} \cup abandoned[a]

(* Handles belong to a running graph, posted ones to a posted session, and *)
(* that of the report node is alone.                                       *)
Handles(a) ==
    /\ open[a] # {} => phase[a] = "running"
    /\ \A h \in open[a] : h.posted => session[a].posted
    /\ \A h, k \in open[a] : h.run[1] = Reporter => h = k

(* The two properties of a report, of one analysis.                        *)
ReportTells(a) == phase[a] = "reported" => report[a].status = Told(a)

ReportIsWhole(a) == phase[a] = "reported" /\ report[a].submitted =>
    root[a] = "ended" /\ unended[a] \subseteq abandoned[a]

Local(a) ==
    /\ Lives(a) /\ Tells(a) /\ Whole(a) /\ Handles(a)
    /\ ReportTells(a) /\ ReportIsWhole(a)

ProcessTells == ~enabled => runtime = "disabled"

IInv ==
    /\ TracingTypeOK
    /\ GaugeCountsRuns
    /\ ProcessTells
    /\ \A a \in Analyses : Local(a)

-----------------------------------------------------------------------------
LEMMA CountInRange ==
    ASSUME NEW S \in SUBSET Analyses
    PROVE  Cardinality(S) \in 0 .. Cardinality(Analyses)
  <1>1. IsFiniteSet(Analyses)
    BY TracingAssumption
  <1>2. /\ IsFiniteSet(S)
        /\ Cardinality(S) <= Cardinality(Analyses)
    BY <1>1, FS_Subset, Zenon
  <1>3. Cardinality(S) \in Nat /\ Cardinality(Analyses) \in Nat
    BY <1>1, <1>2, FS_CardinalityType, Zenon
  <1>4. QED
    BY <1>2, <1>3

(* Nothing of an analysis changes by what is done for another.             *)
LEMMA Frame ==
    ASSUME NEW b \in Analyses, Local(b),
           UNCHANGED <<enabled, session[b], phase[b], open[b], root[b],
                       unended[b], abandoned[b], missed[b], report[b]>>
    PROVE  Local(b)'
  <1>1. Lives(b)' /\ Tells(b)'
    BY DEF Local, Lives, Tells, Told
  <1>2. Whole(b)'
    BY DEF Local, Whole
  <1>3. Handles(b)'
    BY DEF Local, Handles
  <1>4. ReportTells(b)' /\ ReportIsWhole(b)'
    BY DEF Local, ReportTells, ReportIsWhole, Told
  <1>5. QED
    BY <1>1, <1>2, <1>3, <1>4 DEF Local

(* configure_langsmith has run and no analysis has started.                *)
LEMMA Initially == Init => IInv
  <1> SUFFICES ASSUME Init PROVE IInv
    OBVIOUS
  <1>1. Counted = {}
    BY DEF Init, Counted
  <1>2. GaugeCountsRuns
    BY <1>1, FS_EmptySet DEF Init, GaugeCountsRuns, Counted
  <1>3. gauge \in 0 .. Cardinality(Analyses)
    BY CountInRange, FS_EmptySet DEF Init
  <1>4. TracingTypeOK
    BY <1>3, TracingAssumption DEF Init, TracingTypeOK, Statuses, Runs
  <1>5. ProcessTells
    BY DEF Init, ProcessTells
  <1>6. ASSUME NEW a \in Analyses PROVE Local(a)
    BY DEF Init, Local, Lives, Tells, Whole, Handles, ReportTells, ReportIsWhole
  <1>7. QED
    BY <1>2, <1>4, <1>5, <1>6 DEF IInv

-----------------------------------------------------------------------------
(* _mark_degraded of a posted session, and a call that worked out.         *)

LEMMA DegradedTells ==
    ASSUME IInv, NEW a \in Analyses, Degraded(a), session[a] # NoSession, session[a].posted,
           UNCHANGED enabled
    PROVE  /\ session' \in [Analyses -> Sessions \cup {NoSession}]
           /\ runtime' \in Statuses
           /\ missed' \in [Analyses -> BOOLEAN]
           /\ session'[a] # NoSession
           /\ session'[a].posted
           /\ session'[a].status = "degraded"
           /\ missed'[a]
           /\ enabled
           /\ \A b \in Analyses \ {a} : session'[b] = session[b] /\ missed'[b] = missed[b]
           /\ ProcessTells'
  <1>1. enabled
    BY DEF IInv, Local, Tells
  <1>2. session[a] \in Sessions
    BY DEF IInv, TracingTypeOK
  <1>3. session' = [session EXCEPT ![a] = [session[a] EXCEPT !.status = "degraded"]]
    BY DEF Degraded
  <1>4. [session[a] EXCEPT !.status = "degraded"] \in Sessions
    BY <1>2 DEF Sessions, Statuses
  <1>5. session'[a] = [session[a] EXCEPT !.status = "degraded"]
    BY <1>3 DEF IInv, TracingTypeOK
  <1>6. session'[a] # NoSession /\ session'[a].posted /\ session'[a].status = "degraded"
    BY <1>2, <1>4, <1>5, TracingAssumption DEF Sessions
  <1>7. QED
    BY <1>1, <1>3, <1>4, <1>6 DEF Degraded, IInv, TracingTypeOK, Statuses, ProcessTells

LEMMA FineTells ==
    ASSUME IInv, Fine, UNCHANGED enabled
    PROVE  /\ session' \in [Analyses -> Sessions \cup {NoSession}]
           /\ runtime' \in Statuses
           /\ missed' \in [Analyses -> BOOLEAN]
           /\ ProcessTells'
  BY DEF Fine, IInv, TracingTypeOK, ProcessTells

(* The gauge, when the phase of no analysis changes its count.             *)
LEMMA SameCount ==
    ASSUME IInv, UNCHANGED gauge, phase' \in [Analyses -> {"idle", "running", "raised", "reported"}],
           \A a \in Analyses : phase'[a] \in {"running", "raised"} <=> phase[a] \in {"running", "raised"}
    PROVE  GaugeCountsRuns' /\ gauge' \in 0 .. Cardinality(Analyses)
  <1>1. {a \in Analyses : phase'[a] \in {"running", "raised"}}
            = {a \in Analyses : phase[a] \in {"running", "raised"}}
    OBVIOUS
  <1>2. GaugeCountsRuns'
    BY <1>1 DEF IInv, GaugeCountsRuns
  <1>3. QED
    BY <1>2 DEF IInv, TracingTypeOK

(* begin_child_run, for a node or for a tool of documentation_research.    *)
LEMMA BeginChildStep ==
    ASSUME IInv, NEW a \in Analyses, NEW name \in Nodes \cup {Reporter, Tool},
           phase[a] = "running", ~Under(a, Reporter),
           name = Reporter => open[a] = {},
           BeginChild(a, name)
    PROVE  IInv'
  <1> DEFINE run == Run(a, name)
  <1>0. run \in Runs
    BY DEF Run, Runs, IInv, TracingTypeOK
  <1>1. PICK posted \in BOOLEAN :
            /\ Begin(a, name, posted)
            /\ \/ posted = Posted(a) /\ Fine
               \/ Posted(a) /\ ~posted /\ Degraded(a)
    BY DEF BeginChild, Posted, IInv, TracingTypeOK, Sessions
  <1>2. UNCHANGED <<enabled, gauge, phase, attempt, abandoned, root, report>>
    BY DEF BeginChild
  <1>3. GaugeCountsRuns' /\ gauge' \in 0 .. Cardinality(Analyses)
    BY <1>2, SameCount DEF IInv, TracingTypeOK
  <1> DEFINE h == Handle(run, posted)
  <1>4. h \in [run : Runs, posted : BOOLEAN]
    BY <1>0 DEF Handle
  <1>5. /\ open' = [open EXCEPT ![a] = @ \cup {h}]
        /\ open'[a] = open[a] \cup {h}
        /\ open' \in [Analyses -> SUBSET [run : Runs, posted : BOOLEAN]]
    BY <1>1, <1>4 DEF Begin, IInv, TracingTypeOK
  <1>6. /\ unended' \in [Analyses -> SUBSET Runs]
        /\ unended'[a] = IF posted THEN unended[a] \cup {run} ELSE unended[a]
        /\ \A b \in Analyses \ {a} : unended'[b] = unended[b]
    BY <1>0, <1>1 DEF Begin, IInv, TracingTypeOK
  <1>7. /\ session' \in [Analyses -> Sessions \cup {NoSession}]
        /\ runtime' \in Statuses
        /\ missed' \in [Analyses -> BOOLEAN]
        /\ ProcessTells'
    BY <1>1, <1>2, DegradedTells, FineTells DEF Posted
  <1>8. TracingTypeOK'
    BY <1>2, <1>3, <1>5, <1>6, <1>7 DEF IInv, TracingTypeOK
  <1>9. ASSUME NEW b \in Analyses \ {a} PROVE Local(b)'
    <2>1. session'[b] = session[b] /\ missed'[b] = missed[b]
      BY <1>1, <1>2, DegradedTells DEF Fine, Posted
    <2>2. Local(b)
      BY DEF IInv
    <2>3. QED
      BY <1>2, <1>5, <1>6, <2>1, <2>2, Frame DEF IInv, TracingTypeOK
  <1>10. Local(a)'
    <2>1. /\ Local(a) /\ phase[a] = "running"
          /\ \A k \in open[a] : k.run[1] # Reporter
          /\ run[1] = Reporter => open[a] = {}
          /\ h.run = run
      BY DEF IInv, Under, Run, Handle
    <2>2. CASE posted = Posted(a) /\ Fine
      <3>1. session' = session /\ missed' = missed
        BY <2>2 DEF Fine
      <3>2. Lives(a)' /\ Tells(a)' /\ ReportTells(a)' /\ ReportIsWhole(a)'
        BY <1>2, <2>1, <3>1 DEF Local, Lives, Tells, Told, ReportTells, ReportIsWhole
      <3>3. Whole(a)'
        <4>1. SUFFICES ASSUME session[a] # NoSession, session[a].status = "configured"
              PROVE  /\ session[a].posted
                     /\ root[a] = "posted"
                     /\ \A k \in open'[a] : k.posted
                     /\ unended'[a] \subseteq {k.run : k \in open'[a]} \cup abandoned[a]
          BY <1>2, <3>1 DEF Whole
        <4>2. Whole(a) /\ h.run = run /\ h.posted = posted
          BY <2>1 DEF Local, Handle
        <4>3. session[a].posted /\ root[a] = "posted" /\ \A k \in open[a] : k.posted
          BY <4>1, <4>2 DEF Whole
        <4>4. \A k \in open'[a] : k.posted
          BY <1>5, <2>2, <4>1, <4>2, <4>3 DEF Posted
        <4>5. unended[a] \subseteq {k.run : k \in open[a]} \cup abandoned[a]
          BY <4>1, <4>2 DEF Whole
        <4>6. {k.run : k \in open'[a]} = {k.run : k \in open[a]} \cup {run}
          BY <1>5, <4>2
        <4>7. QED
          BY <1>6, <4>3, <4>4, <4>5, <4>6
      <3>4. Handles(a)'
        BY <1>2, <1>5, <2>1, <2>2, <3>1 DEF Local, Handles, Posted, Handle
      <3>5. QED
        BY <3>2, <3>3, <3>4 DEF Local
    <2>3. CASE Posted(a) /\ ~posted /\ Degraded(a)
      <3>1. /\ session'[a] # NoSession /\ session'[a].posted
            /\ session'[a].status = "degraded" /\ missed'[a] /\ enabled
        BY <1>2, <2>3, DegradedTells DEF Posted
      <3>2. Lives(a)' /\ Tells(a)' /\ Whole(a)' /\ ReportTells(a)' /\ ReportIsWhole(a)'
        BY <1>2, <2>1, <3>1 DEF Lives, Tells, Told, Whole, ReportTells, ReportIsWhole
      <3>3. Handles(a)'
        BY <1>2, <1>5, <2>1, <2>3, <3>1 DEF Local, Handles, Posted, Handle
      <3>4. QED
        BY <3>2, <3>3 DEF Local
    <2>4. QED
      BY <1>1, <2>2, <2>3
  <1>11. QED
    BY <1>3, <1>7, <1>8, <1>9, <1>10 DEF IInv

(* A call about the trace of a that fails while nothing else changes: a    *)
(* brief run, as that of an LLM call, or the feedback of a user.           *)
LEMMA CallFailsStep ==
    ASSUME IInv, NEW a \in Analyses, Posted(a), Degraded(a),
           UNCHANGED <<enabled, gauge, runVars, root, unended, report>>
    PROVE  IInv'
  <1>1. UNCHANGED <<enabled, gauge, phase, attempt, open, abandoned, root, unended, report>>
    BY DEF runVars
  <1>2. /\ session' \in [Analyses -> Sessions \cup {NoSession}]
        /\ runtime' \in Statuses
        /\ missed' \in [Analyses -> BOOLEAN]
        /\ session'[a] # NoSession /\ session'[a].posted
        /\ session'[a].status = "degraded" /\ missed'[a] /\ enabled
        /\ \A b \in Analyses \ {a} : session'[b] = session[b] /\ missed'[b] = missed[b]
        /\ ProcessTells'
    BY <1>1, DegradedTells DEF Posted
  <1>3. GaugeCountsRuns' /\ gauge' \in 0 .. Cardinality(Analyses)
    BY <1>1, SameCount DEF IInv, TracingTypeOK
  <1>4. TracingTypeOK'
    BY <1>1, <1>2, <1>3 DEF IInv, TracingTypeOK
  <1>5. ASSUME NEW b \in Analyses \ {a} PROVE Local(b)'
    BY <1>1, <1>2, Frame DEF IInv
  <1>6. Local(a)'
    <2>1. Local(a) /\ session[a] # NoSession /\ session[a].posted
      BY DEF IInv, Posted
    <2>2. Lives(a)' /\ Handles(a)'
      BY <1>1, <1>2, <2>1 DEF Local, Lives, Handles
    <2>3. Tells(a)' /\ Whole(a)' /\ ReportTells(a)' /\ ReportIsWhole(a)'
      BY <1>1, <1>2, <2>1, <2>2 DEF Local, Lives, Tells, Told, Whole, ReportTells, ReportIsWhole
    <2>4. QED
      BY <2>2, <2>3 DEF Local
  <1>7. QED
    BY <1>2, <1>3, <1>4, <1>5, <1>6 DEF IInv

(* The end of the child run of handle h.  The handles kept stay open, and  *)
(* the nodes of the others are given up: those cancelled by a node that    *)
(* raises; a node that returns keeps all but its own.                      *)
LEMMA EndStep ==
    ASSUME IInv, NEW a \in Analyses, NEW h \in open[a], End(a, h),
           NEW kept \in SUBSET open[a], NEW given \in SUBSET Runs, h \notin kept,
           \A k \in open[a] \ {h} : k \in kept \/ k.run \in given,
           NEW after \in {"running", "raised"}, kept # {} => after = "running",
           phase' = [phase EXCEPT ![a] = after],
           open' = [open EXCEPT ![a] = kept],
           abandoned' = [abandoned EXCEPT ![a] = @ \cup given],
           UNCHANGED <<enabled, gauge, attempt, root, report>>
    PROVE  IInv'
  <1>1. /\ Local(a) /\ phase[a] = "running" /\ session[a] # NoSession
        /\ h.posted => session[a].posted
    BY DEF IInv, Local, Handles, Lives
  <1>2. /\ phase' \in [Analyses -> {"idle", "running", "raised", "reported"}]
        /\ phase'[a] = after
        /\ open' \in [Analyses -> SUBSET [run : Runs, posted : BOOLEAN]]
        /\ open'[a] = kept
        /\ abandoned' \in [Analyses -> SUBSET Runs]
        /\ abandoned'[a] = abandoned[a] \cup given
        /\ \A b \in Analyses \ {a} : /\ phase'[b] = phase[b]
                                     /\ open'[b] = open[b]
                                     /\ abandoned'[b] = abandoned[b]
    BY DEF IInv, TracingTypeOK
  <1>3. GaugeCountsRuns' /\ gauge' \in 0 .. Cardinality(Analyses)
    <2>1. \A b \in Analyses :
              phase'[b] \in {"running", "raised"} <=> phase[b] \in {"running", "raised"}
      BY <1>1, <1>2
    <2>2. QED
      BY <1>2, <2>1, SameCount
  <1>4. h.posted \in BOOLEAN
    BY DEF IInv, TracingTypeOK
  <1>5. \/ Fine /\ unended' = IF h.posted THEN [unended EXCEPT ![a] = @ \ {h.run}] ELSE unended
        \/ h.posted /\ Degraded(a) /\ UNCHANGED unended
    BY DEF End
  <1>6. /\ unended' \in [Analyses -> SUBSET Runs]
        /\ \A b \in Analyses \ {a} : unended'[b] = unended[b]
    BY <1>5 DEF IInv, TracingTypeOK
  <1>7. /\ session' \in [Analyses -> Sessions \cup {NoSession}]
        /\ runtime' \in Statuses
        /\ missed' \in [Analyses -> BOOLEAN]
        /\ ProcessTells'
        /\ \A b \in Analyses \ {a} : session'[b] = session[b] /\ missed'[b] = missed[b]
    BY <1>1, <1>5, DegradedTells, FineTells DEF Fine
  <1>8. TracingTypeOK'
    BY <1>2, <1>3, <1>6, <1>7 DEF IInv, TracingTypeOK
  <1>9. ASSUME NEW b \in Analyses \ {a} PROVE Local(b)'
    <2>1. Local(b)
      BY DEF IInv
    <2>2. QED
      BY <1>2, <1>6, <1>7, <2>1, Frame
  <1>10. Local(a)'
    <2>1. ReportTells(a)' /\ ReportIsWhole(a)'
      BY <1>2 DEF ReportTells, ReportIsWhole
    <2>2. CASE Fine /\ unended' = IF h.posted THEN [unended EXCEPT ![a] = @ \ {h.run}]
                                  ELSE unended
      <3>1. session' = session /\ missed' = missed
        BY <2>2 DEF Fine
      <3>2. Lives(a)' /\ Tells(a)' /\ Handles(a)'
        BY <1>1, <1>2, <3>1 DEF Local, Lives, Tells, Told, Handles
      <3>3. Whole(a)'
        <4>1. SUFFICES ASSUME session[a] # NoSession, session[a].status = "configured"
              PROVE  /\ session[a].posted
                     /\ root[a] = "posted"
                     /\ \A k \in kept : k.posted
                     /\ unended'[a] \subseteq {k.run : k \in kept} \cup abandoned'[a]
          BY <1>2, <3>1 DEF Whole
        <4>2. /\ session[a].posted /\ root[a] = "posted"
              /\ \A k \in open[a] : k.posted
              /\ unended[a] \subseteq {k.run : k \in open[a]} \cup abandoned[a]
          BY <1>1, <4>1 DEF Local, Whole
        <4>3. unended'[a] = unended[a] \ {h.run}
          BY <2>2, <4>2 DEF IInv, TracingTypeOK
        <4>4. {k.run : k \in open[a]} \ {h.run} \subseteq {k.run : k \in kept} \cup given
          OBVIOUS
        <4>5. QED
          BY <1>2, <4>2, <4>3, <4>4
      <3>4. QED
        BY <2>1, <3>2, <3>3 DEF Local
    <2>3. CASE h.posted /\ Degraded(a)
      <3>1. /\ session'[a] # NoSession /\ session'[a].posted
            /\ session'[a].status = "degraded" /\ missed'[a] /\ enabled
        BY <1>1, <2>3, DegradedTells
      <3>2. Lives(a)' /\ Tells(a)' /\ Whole(a)' /\ Handles(a)'
        BY <1>1, <1>2, <3>1 DEF Local, Lives, Tells, Told, Whole, Handles
      <3>3. QED
        BY <2>1, <3>2 DEF Local
    <2>4. QED
      BY <1>5, <2>2, <2>3
  <1>11. QED
    BY <1>3, <1>7, <1>8, <1>9, <1>10 DEF IInv

(* A child run that is ended: of a node that returns or of a tool.         *)
LEMMA EndChildStep ==
    ASSUME IInv, NEW a \in Analyses, NEW h \in open[a], phase[a] = "running", EndChild(a, h)
    PROVE  IInv'
  <1> DEFINE kept == open[a] \ {h}
             given == {}
  <1>1. /\ End(a, h)
        /\ UNCHANGED <<enabled, gauge, phase, attempt, abandoned, root, report>>
        /\ open' = [open EXCEPT ![a] = kept]
    BY DEF EndChild
  <1>2. /\ phase' = [phase EXCEPT ![a] = "running"]
        /\ abandoned' = [abandoned EXCEPT ![a] = @ \cup given]
    BY <1>1 DEF IInv, TracingTypeOK
  <1>3. /\ kept \in SUBSET open[a] /\ h \notin kept
        /\ given \in SUBSET Runs
        /\ \A k \in open[a] \ {h} : k \in kept \/ k.run \in given
        /\ "running" \in {"running", "raised"}
        /\ kept # {} => "running" = "running"
    OBVIOUS
  <1> HIDE DEF kept, given
  <1>4. QED
    BY <1>1, <1>2, <1>3, EndStep

(* A tool of documentation_research whose work raises: its handle is       *)
(* dropped and its run abandoned.                                          *)
LEMMA ToolRaisesStep ==
    ASSUME IInv, NEW a \in Analyses, ToolWorkRaises(a)
    PROVE  IInv'
  <1>1. PICK h \in open[a] :
            /\ open' = [open EXCEPT ![a] = @ \ {h}]
            /\ abandoned' = [abandoned EXCEPT ![a] = @ \cup {h.run}]
    BY DEF ToolWorkRaises
  <1>2. /\ phase[a] = "running"
        /\ UNCHANGED <<enabled, runtime, session, gauge, phase, attempt, root, unended,
                       missed, report>>
    BY DEF ToolWorkRaises, Running, remoteVars
  <1>3. h.run \in Runs
    BY DEF IInv, TracingTypeOK
  <1>4. /\ open' \in [Analyses -> SUBSET [run : Runs, posted : BOOLEAN]]
        /\ open'[a] = open[a] \ {h}
        /\ abandoned' \in [Analyses -> SUBSET Runs]
        /\ abandoned'[a] = abandoned[a] \cup {h.run}
        /\ \A b \in Analyses \ {a} : open'[b] = open[b] /\ abandoned'[b] = abandoned[b]
    BY <1>1, <1>3 DEF IInv, TracingTypeOK
  <1>5. GaugeCountsRuns' /\ gauge' \in 0 .. Cardinality(Analyses)
    BY <1>2, SameCount DEF IInv, TracingTypeOK
  <1>6. TracingTypeOK' /\ ProcessTells'
    BY <1>2, <1>4, <1>5 DEF IInv, TracingTypeOK, ProcessTells
  <1>7. ASSUME NEW b \in Analyses \ {a} PROVE Local(b)'
    BY <1>2, <1>4, Frame DEF IInv
  <1>8. Local(a)'
    <2>1. Local(a)
      BY DEF IInv
    <2>2. Lives(a)' /\ Tells(a)' /\ Handles(a)' /\ ReportTells(a)' /\ ReportIsWhole(a)'
      BY <1>2, <1>4, <2>1 DEF Local, Lives, Tells, Told, Handles, ReportTells, ReportIsWhole
    <2>3. {k.run : k \in open[a]} \cup abandoned[a]
              \subseteq {k.run : k \in open'[a]} \cup abandoned'[a]
      BY <1>4
    <2>4. Whole(a)'
      BY <1>2, <1>4, <2>1, <2>3 DEF Local, Whole
    <2>5. QED
      BY <2>2, <2>4 DEF Local
  <1>9. QED
    BY <1>5, <1>6, <1>7, <1>8 DEF IInv

LEMMA NodeRaisesStep ==
    ASSUME IInv, NEW a \in Analyses, NodeRaises(a)
    PROVE  IInv'
  <1>1. PICK h \in open[a] :
            /\ End(a, h)
            /\ abandoned' = [abandoned EXCEPT ![a] = @ \cup {k.run : k \in open[a] \ {h}}]
    BY DEF NodeRaises
  <1> DEFINE given == {k.run : k \in open[a] \ {h}}
  <1>2. /\ phase' = [phase EXCEPT ![a] = "raised"]
        /\ open' = [open EXCEPT ![a] = {}]
        /\ UNCHANGED <<enabled, gauge, attempt, root, report>>
    BY DEF NodeRaises
  <1>3. given \in SUBSET Runs
    BY DEF IInv, TracingTypeOK
  <1>4. {} \in SUBSET open[a] /\ \A k \in open[a] \ {h} : k \in {} \/ k.run \in given
    OBVIOUS
  <1>5. abandoned' = [abandoned EXCEPT ![a] = @ \cup given]
    BY <1>1
  <1> HIDE DEF given
  <1>6. QED
    <2>1. "raised" \in {"running", "raised"} /\ h \notin {}
      OBVIOUS
    <2>2. QED
      BY <1>1, <1>2, <1>3, <1>4, <1>5, <2>1, EndStep

(* The report node returns: its handle is the only one open, the session   *)
(* is closed and leaves the gauge.                                         *)
LEMMA ReportStep ==
    ASSUME IInv, NEW a \in Analyses, ReportNodeReturns(a)
    PROVE  IInv'
  <1>1. PICK h \in open[a] : \E childFails, rootFails \in BOOLEAN :
            /\ h.run[1] = Reporter
            /\ childFails => h.posted
            /\ rootFails => Posted(a)
            /\ unended' = IF h.posted /\ ~childFails
                          THEN [unended EXCEPT ![a] = @ \ {h.run}] ELSE unended
            /\ EndRoot(a, rootFails)
            /\ Finish(a, childFails \/ rootFails)
            /\ IF childFails \/ rootFails
               THEN runtime' = "degraded" /\ missed' = [missed EXCEPT ![a] = TRUE]
               ELSE UNCHANGED <<runtime, missed>>
    BY DEF ReportNodeReturns
  <1>2. PICK childFails \in BOOLEAN, rootFails \in BOOLEAN :
            /\ h.run[1] = Reporter
            /\ childFails => h.posted
            /\ rootFails => Posted(a)
            /\ unended' = IF h.posted /\ ~childFails
                          THEN [unended EXCEPT ![a] = @ \ {h.run}] ELSE unended
            /\ EndRoot(a, rootFails)
            /\ Finish(a, childFails \/ rootFails)
            /\ IF childFails \/ rootFails
               THEN runtime' = "degraded" /\ missed' = [missed EXCEPT ![a] = TRUE]
               ELSE UNCHANGED <<runtime, missed>>
    BY <1>1
  <1> DEFINE failed == childFails \/ rootFails
  <1>3. /\ Local(a) /\ phase[a] = "running" /\ session[a] # NoSession
        /\ open[a] = {h} /\ h.posted \in BOOLEAN
        /\ h.posted => session[a].posted
        /\ session[a] \in Sessions
    BY <1>2 DEF IInv, Local, Handles, Lives, TracingTypeOK
  <1>4. failed => session[a].posted /\ enabled
    BY <1>2, <1>3 DEF Posted, Local, Tells
  <1>5. /\ enabled' = enabled /\ attempt' = attempt /\ abandoned' = abandoned
        /\ open' = [open EXCEPT ![a] = {}]
        /\ phase' = [phase EXCEPT ![a] = "reported"]
    BY DEF ReportNodeReturns
  <1>6. /\ open' \in [Analyses -> SUBSET [run : Runs, posted : BOOLEAN]]
        /\ open'[a] = {}
        /\ phase' \in [Analyses -> {"idle", "running", "raised", "reported"}]
        /\ phase'[a] = "reported"
        /\ \A b \in Analyses \ {a} : open'[b] = open[b] /\ phase'[b] = phase[b]
    BY <1>5 DEF IInv, TracingTypeOK
  <1>7. /\ session' \in [Analyses -> Sessions \cup {NoSession}]
        /\ session'[a] = NoSession
        /\ \A b \in Analyses \ {a} : session'[b] = session[b]
    BY <1>2 DEF Finish, IInv, TracingTypeOK
  <1>8. /\ missed' \in [Analyses -> BOOLEAN]
        /\ missed'[a] = (failed \/ missed[a])
        /\ \A b \in Analyses \ {a} : missed'[b] = missed[b]
        /\ runtime' \in Statuses
        /\ ProcessTells'
    BY <1>2, <1>4, <1>5 DEF IInv, TracingTypeOK, ProcessTells, Statuses
  <1>9. /\ unended' \in [Analyses -> SUBSET Runs]
        /\ unended'[a] = IF h.posted /\ ~childFails THEN unended[a] \ {h.run} ELSE unended[a]
        /\ \A b \in Analyses \ {a} : unended'[b] = unended[b]
    BY <1>2 DEF IInv, TracingTypeOK
  <1>10. /\ root' \in [Analyses -> {"none", "posted", "ended"}]
         /\ Posted(a) /\ ~rootFails => root'[a] = "ended"
         /\ \A b \in Analyses \ {a} : root'[b] = root[b]
    BY <1>2 DEF EndRoot, IInv, TracingTypeOK
  <1>11. ReportOf(session[a], IF failed THEN "degraded" ELSE session[a].status)
             \in [submitted : BOOLEAN, status : Statuses]
    BY <1>3 DEF ReportOf, Sessions, Statuses
  <1>12. /\ report' \in [Analyses -> [submitted : BOOLEAN, status : Statuses] \cup {NoReport}]
         /\ report'[a] = ReportOf(session[a], IF failed THEN "degraded" ELSE session[a].status)
         /\ \A b \in Analyses \ {a} : report'[b] = report[b]
    BY <1>2, <1>11 DEF Finish, IInv, TracingTypeOK
  <1>13. GaugeCountsRuns' /\ gauge' \in 0 .. Cardinality(Analyses)
    <2> DEFINE after == {b \in Analyses : phase'[b] \in {"running", "raised"}}
    <2>1. after = Counted \ {a} /\ a \in Counted
      BY <1>3, <1>6 DEF Counted
    <2>2. IsFiniteSet(Counted)
      BY TracingAssumption, FS_Subset DEF Counted
    <2>3. Cardinality(after) = Cardinality(Counted) - 1
      BY <2>1, <2>2, FS_RemoveElement
    <2>4. gauge' = Cardinality(after)
      BY <1>2, <2>3 DEF Finish, IInv, GaugeCountsRuns, Counted
    <2>5. Cardinality(after) \in 0 .. Cardinality(Analyses)
      BY CountInRange
    <2>6. QED
      BY <2>4, <2>5 DEF GaugeCountsRuns
  <1>14. TracingTypeOK'
    BY <1>5, <1>6, <1>7, <1>8, <1>9, <1>10, <1>12, <1>13 DEF IInv, TracingTypeOK
  <1>15. ASSUME NEW b \in Analyses \ {a} PROVE Local(b)'
    BY <1>5, <1>6, <1>7, <1>8, <1>9, <1>10, <1>12, Frame DEF IInv
  <1>16. Local(a)'
    <2>1. Lives(a)' /\ Tells(a)' /\ Whole(a)' /\ Handles(a)'
      BY <1>6, <1>7 DEF Lives, Tells, Whole, Handles
    <2>2. ReportTells(a)'
      <3>1. report'[a].status = IF failed THEN "degraded" ELSE session[a].status
        BY <1>12 DEF ReportOf
      <3>2. session[a].status = Told(a)
        BY <1>3 DEF Local, Tells
      <3>3. QED
        BY <1>4, <1>5, <1>8, <3>1, <3>2 DEF ReportTells, Told
    <2>3. ReportIsWhole(a)'
      <3>1. SUFFICES ASSUME report'[a].submitted
            PROVE  root'[a] = "ended" /\ unended'[a] \subseteq abandoned[a]
        BY <1>5 DEF ReportIsWhole
      <3>2. session[a].posted /\ ~failed /\ session[a].status = "configured"
        <4> DEFINE status == IF failed THEN "degraded" ELSE session[a].status
        <4>1. report'[a].submitted <=> session[a].posted /\ status = "configured"
          <5>1. ReportOf(session[a], status).submitted
                    = (session[a].posted /\ status = "configured")
            BY Zenon DEF ReportOf
          <5>2. QED
            BY <1>12, <5>1, Zenon
        <4>2. status = "configured" => ~failed /\ session[a].status = "configured"
          OBVIOUS
        <4>3. QED
          BY <3>1, <4>1, <4>2, Zenon
      <3>3. /\ \A k \in open[a] : k.posted
            /\ unended[a] \subseteq {k.run : k \in open[a]} \cup abandoned[a]
        BY <1>3, <3>2 DEF Local, Whole
      <3>4. h.posted /\ {k.run : k \in open[a]} = {h.run}
        BY <1>2, <1>3, <3>3
      <3>5. QED
        BY <1>3, <1>9, <1>10, <3>2, <3>3, <3>4 DEF Posted
    <2>4. QED
      BY <2>1, <2>2, <2>3 DEF Local
  <1>17. QED
    BY <1>8, <1>13, <1>14, <1>15, <1>16 DEF IInv

(* The start of a graph, on a session of an attempt before or on a new one.*)
LEMMA StartStep ==
    ASSUME IInv, NEW a \in Analyses, Start(a)
    PROVE  IInv'
  <1>1. /\ phase[a] # "running" /\ attempt[a] < Attempts
        /\ enabled' = enabled /\ open' = open /\ report' = report
        /\ phase' = [phase EXCEPT ![a] = "running"]
        /\ attempt' = [attempt EXCEPT ![a] = @ + 1]
    BY DEF Start
  <1>2. /\ phase' \in [Analyses -> {"idle", "running", "raised", "reported"}]
        /\ phase'[a] = "running"
        /\ \A b \in Analyses \ {a} : phase'[b] = phase[b]
    BY <1>1 DEF IInv, TracingTypeOK
  <1>3. attempt' \in [Analyses -> 0 .. Attempts]
    BY <1>1, TracingAssumption DEF IInv, TracingTypeOK
  <1>4. Local(a) /\ open[a] = {}
    BY <1>1 DEF IInv, Local, Handles
  <1>5. ReportTells(a)' /\ ReportIsWhole(a)'
    BY <1>2 DEF ReportTells, ReportIsWhole
  <1>6. CASE Resume(a)
    <2>1. /\ session[a] # NoSession
          /\ UNCHANGED <<runtime, session, gauge, root, unended, abandoned, missed>>
      BY <1>6 DEF Resume
    <2>2. phase[a] = "raised"
      BY <1>1, <1>4, <2>1 DEF Local, Lives
    <2>3. GaugeCountsRuns' /\ gauge' \in 0 .. Cardinality(Analyses)
      <3>1. \A b \in Analyses :
                phase'[b] \in {"running", "raised"} <=> phase[b] \in {"running", "raised"}
        BY <1>2, <2>2
      <3>2. QED
        BY <1>2, <2>1, <3>1, SameCount
    <2>4. TracingTypeOK' /\ ProcessTells'
      BY <1>1, <1>2, <1>3, <2>1, <2>3 DEF IInv, TracingTypeOK, ProcessTells
    <2>5. ASSUME NEW b \in Analyses \ {a} PROVE Local(b)'
      BY <1>1, <1>2, <2>1, Frame DEF IInv
    <2>6. Local(a)'
      BY <1>1, <1>2, <1>4, <1>5, <2>1 DEF Local, Lives, Tells, Told, Whole, Handles
    <2>7. QED
      BY <2>3, <2>4, <2>5, <2>6 DEF IInv
  <1>7. CASE session[a] = NoSession /\ NewSession(a)
    <2>1. /\ gauge' = gauge + 1
          /\ unended' = [unended EXCEPT ![a] = {}]
          /\ abandoned' = [abandoned EXCEPT ![a] = {}]
      BY <1>7 DEF NewSession
    <2>2. /\ unended' \in [Analyses -> SUBSET Runs] /\ unended'[a] = {}
          /\ abandoned' \in [Analyses -> SUBSET Runs]
          /\ \A b \in Analyses \ {a} : unended'[b] = unended[b] /\ abandoned'[b] = abandoned[b]
      BY <2>1 DEF IInv, TracingTypeOK
    <2> DEFINE Opens == /\ session' \in [Analyses -> Sessions \cup {NoSession}]
                        /\ session'[a] # NoSession
                        /\ session'[a].status = Told(a)'
                        /\ session'[a].posted => enabled
                        /\ session'[a].status = "configured" => session'[a].posted /\ root'[a] = "posted"
                        /\ runtime' \in Statuses
                        /\ ProcessTells'
                        /\ root' \in [Analyses -> {"none", "posted", "ended"}]
                        /\ missed' \in [Analyses -> BOOLEAN]
                        /\ \A b \in Analyses \ {a} : /\ session'[b] = session[b]
                                                     /\ root'[b] = root[b]
                                                     /\ missed'[b] = missed[b]
    <2>3. Opens
      <3>1. ASSUME NEW status \in Statuses, NEW posted \in BOOLEAN, Opened(a, status, posted)
            PROVE  /\ session' \in [Analyses -> Sessions \cup {NoSession}]
                   /\ session'[a] # NoSession
                   /\ session'[a].status = status /\ session'[a].posted = posted
                   /\ \A b \in Analyses \ {a} : session'[b] = session[b]
        <4>1. [status |-> status, posted |-> posted] \in Sessions
          BY DEF Sessions
        <4>2. QED
          BY <3>1, <4>1, TracingAssumption DEF Opened, IInv, TracingTypeOK
      <3>2. {"configured", "degraded"} \subseteq Statuses /\ runtime \in Statuses
        BY DEF Statuses, IInv, TracingTypeOK
      <3>3. CASE ~enabled
        <4>1. Opened(a, runtime, FALSE) /\ UNCHANGED <<runtime, root, missed>>
          BY <1>7, <3>3 DEF NewSession
        <4>2. runtime = "disabled"
          BY <3>3 DEF IInv, ProcessTells
        <4>3. QED
          BY <1>1, <3>1, <3>2, <3>3, <4>1, <4>2 DEF Told, IInv, TracingTypeOK, ProcessTells
      <3>4. CASE enabled /\ /\ Opened(a, "configured", TRUE)
                            /\ root' = [root EXCEPT ![a] = "posted"]
                            /\ missed' = [missed EXCEPT ![a] = FALSE]
                            /\ UNCHANGED runtime
        BY <1>1, <3>1, <3>2, <3>4 DEF Told, IInv, TracingTypeOK, ProcessTells
      <3>5. ASSUME enabled, NEW posted \in BOOLEAN, Opened(a, "degraded", posted),
                   root' = [root EXCEPT ![a] = IF posted THEN "posted" ELSE "none"],
                   missed' = [missed EXCEPT ![a] = TRUE],
                   runtime' = "degraded"
            PROVE  Opens
        BY <1>1, <3>1, <3>2, <3>5 DEF Told, IInv, TracingTypeOK, ProcessTells
      <3>6. QED
        BY <1>7, <3>3, <3>4, <3>5 DEF NewSession, PostRoot
    <2>4. GaugeCountsRuns' /\ gauge' \in 0 .. Cardinality(Analyses)
      <3> DEFINE after == {b \in Analyses : phase'[b] \in {"running", "raised"}}
      <3>1. after = Counted \cup {a} /\ a \notin Counted
        BY <1>2, <1>4, <1>7 DEF Counted, Local, Lives
      <3>2. IsFiniteSet(Counted)
        BY TracingAssumption, FS_Subset DEF Counted
      <3>3. Cardinality(after) = Cardinality(Counted) + 1
        BY <3>1, <3>2, FS_AddElement
      <3>4. gauge' = Cardinality(after)
        BY <2>1, <3>3 DEF IInv, GaugeCountsRuns, Counted
      <3>5. Cardinality(after) \in 0 .. Cardinality(Analyses)
        BY CountInRange
      <3>6. QED
        BY <3>4, <3>5 DEF GaugeCountsRuns
    <2>5. TracingTypeOK'
      BY <1>1, <1>2, <1>3, <2>2, <2>3, <2>4 DEF IInv, TracingTypeOK
    <2>6. ASSUME NEW b \in Analyses \ {a} PROVE Local(b)'
      BY <1>1, <1>2, <2>2, <2>3, Frame DEF IInv
    <2>7. Lives(a)' /\ Tells(a)' /\ Whole(a)' /\ Handles(a)'
      BY <1>1, <1>2, <1>4, <2>2, <2>3 DEF Lives, Tells, Whole, Handles
    <2>8. QED
      BY <1>5, <2>3, <2>4, <2>5, <2>6, <2>7 DEF IInv, Local
  <1>8. QED
    BY <1>6, <1>7 DEF Start, StartSession

-----------------------------------------------------------------------------
(* IInv is inductive.                                                      *)
THEOREM Invariance == IInv /\ [Next]_vars => IInv'
  <1> SUFFICES ASSUME IInv, [Next]_vars PROVE IInv'
    OBVIOUS
  <1>1. ASSUME NEW a \in Analyses, Start(a) PROVE IInv'
    BY <1>1, StartStep
  <1>2. ASSUME NEW a \in Analyses, NEW node \in Nodes \cup {Reporter}, BeginNode(a, node)
        PROVE  IInv'
    BY <1>2, BeginChildStep DEF BeginNode, Running, MayBegin
  <1>3. ASSUME NEW a \in Analyses, NodeReturns(a) \/ ToolReturns(a) PROVE IInv'
    BY <1>3, EndChildStep DEF NodeReturns, ToolReturns, Running
  <1>4. ASSUME NEW a \in Analyses, NodeRaises(a) PROVE IInv'
    BY <1>4, NodeRaisesStep
  <1>5. ASSUME NEW a \in Analyses, BriefRunFails(a) \/ FeedbackFails(a) PROVE IInv'
    <2>1. /\ Posted(a) /\ Degraded(a)
          /\ UNCHANGED <<enabled, gauge, runVars, root, unended, report>>
      BY <1>5 DEF BriefRunFails, FeedbackFails
    <2>2. QED
      BY <2>1, CallFailsStep
  <1>6. ASSUME NEW a \in Analyses, BeginTool(a) PROVE IInv'
    <2>1. Running(a) /\ Under(a, Researcher) /\ BeginChild(a, Tool) /\ Tool # Reporter
      BY <1>6, TracingAssumption DEF BeginTool
    <2>2. ~Under(a, Reporter)
      <3>1. Researcher # Reporter /\ Handles(a)
        BY TracingAssumption DEF IInv, Local
      <3>2. QED
        BY <2>1, <3>1 DEF Under, Handles
    <2>3. QED
      BY <2>1, <2>2, BeginChildStep DEF Running
  <1>7. ASSUME NEW a \in Analyses, ToolWorkRaises(a) PROVE IInv'
    BY <1>7, ToolRaisesStep
  <1>8. ASSUME NEW a \in Analyses, ReportNodeReturns(a) PROVE IInv'
    BY <1>8, ReportStep
  <1>9. CASE UNCHANGED vars
    <2>1. UNCHANGED <<enabled, runtime, session, gauge, phase, attempt, open, abandoned,
                      root, unended, missed, report>>
      BY <1>9 DEF vars, runVars, remoteVars
    <2>2. TracingTypeOK' /\ GaugeCountsRuns' /\ ProcessTells'
      BY <2>1 DEF IInv, TracingTypeOK, GaugeCountsRuns, ProcessTells
    <2>3. ASSUME NEW b \in Analyses PROVE Local(b)'
      BY <2>1, Frame DEF IInv
    <2>4. QED
      BY <2>2, <2>3 DEF IInv
  <1>10. QED
    BY <1>1, <1>2, <1>3, <1>4, <1>5, <1>6, <1>7, <1>8, <1>9 DEF Next

(* start_analysis_trace, the wrapper of instrument_graph_node and          *)
(* finish_analysis_trace keep every variable within its type; the gauge    *)
(* analyses_active never falls below zero.                                 *)
THEOREM TypeCorrect == Spec => []TracingTypeOK
  <1>1. IInv => TracingTypeOK
    BY DEF IInv
  <1>2. QED
    BY Initially, Invariance, <1>1, PTL DEF Spec

(* The gauge of start_analysis_trace and finish_analysis_trace counts the  *)
(* graphs that run or raised, whatever calls to LangSmith fail.            *)
THEOREM GaugeCounts == Spec => []GaugeCountsRuns
  <1>1. IInv => GaugeCountsRuns
    BY DEF IInv
  <1>2. QED
    BY Initially, Invariance, <1>1, PTL DEF Spec

(* What _observability_report says of LangSmith is what happened to the    *)
(* run of its own analysis, whatever becomes of the others.                *)
THEOREM ReportAlwaysTells == Spec => []ReportTellsOutage
  <1>1. IInv => ReportTellsOutage
    BY DEF IInv, Local, ReportTells, Told, ReportTellsOutage
  <1>2. QED
    BY Initially, Invariance, <1>1, PTL DEF Spec

(* A trace that _observability_report calls submitted is complete at       *)
(* LangSmith, but for nodes that were cancelled while they ran and tools   *)
(* of documentation_research whose work raised or was cancelled.           *)
THEOREM SubmittedAlwaysWhole == Spec => []SubmittedIsWhole
  <1>1. IInv => SubmittedIsWhole
    BY DEF IInv, Local, ReportIsWhole, SubmittedIsWhole
  <1>2. QED
    BY Initially, Invariance, <1>1, PTL DEF Spec

=============================================================================
