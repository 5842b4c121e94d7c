--------------------------- MODULE TracingSessions ---------------------------
(***************************************************************************)
(* observability/tracing.py in one process: the sessions of                *)
(* _ACTIVE_TRACES, the runs they post to LangSmith for a graph, its nodes, *)
(* tools and LLM calls, what becomes of a session when a call to LangSmith *)
(* fails, the work of a tool raises or the graph does, and what the report *)
(* says of it.                                                             *)
(*                                                                         *)
(* The functions are synchronous, so that each is one step; the graphs of  *)
(* several analyses and the parallel nodes of one of them interleave.      *)
(* LangSmith itself is what its client was told: the root runs and the     *)
(* children that have not been ended.                                      *)
(***************************************************************************)
EXTENDS Integers, FiniteSets

CONSTANTS
    Analyses,
    Nodes,      \* the nodes before the report node
    Researcher, \* of them, documentation_research, whose tools may raise
    Tool,       \* the run of a tool of it; one at a time
    Reporter,   \* the report node
    Attempts,   \* bound: how often one process starts the graph of an analysis
    NoSession,
    NoReport

(* ObservabilityStatus, and what is kept of a _TraceSession.               *)
Statuses == {"configured", "disabled", "degraded"}

Sessions == [status : Statuses, posted : BOOLEAN]

ASSUME TracingAssumption ==
    /\ IsFiniteSet(Analyses)
    /\ NoSession \notin Sessions
    /\ Researcher \in Nodes
    /\ Tool \notin Nodes
    /\ Reporter \notin Nodes \cup {Tool}
    /\ Attempts \in Nat \ {0}

VARIABLES
    enabled,    \* what configure_langsmith made of the settings
    runtime,    \* _RUNTIME.status
    session,    \* _ACTIVE_TRACES
    gauge,      \* analyses_active
    phase,      \* of the graph of each analysis
    attempt,    \* how often it has been started
    open,       \* handles of the child runs under way
    root,       \* its root run at LangSmith
    unended,    \* children of it that are posted and not ended there
    abandoned,  \* child runs whose end_child_run is never reached
    missed,     \* whether a call about this root run has failed
    report      \* the observability entry of its report

runVars == <<phase, attempt, open, abandoned>>
remoteVars == <<root, unended, missed>>
vars == <<enabled, runtime, session, gauge, runVars, remoteVars, report>>

Init ==
    /\ enabled \in BOOLEAN
    /\ runtime = IF enabled THEN "configured" ELSE "disabled"
    /\ session = [a \in Analyses |-> NoSession]
    /\ gauge = 0
    /\ phase = [a \in Analyses |-> "idle"]
    /\ attempt = [a \in Analyses |-> 0]
    /\ open = [a \in Analyses |-> {}]
    /\ root = [a \in Analyses |-> "none"]
    /\ unended = [a \in Analyses |-> {}]
    /\ abandoned = [a \in Analyses |-> {}]
    /\ missed = [a \in Analyses |-> FALSE]
    /\ report = [a \in Analyses |-> NoReport]

Posted(a) == session[a] # NoSession /\ session[a].posted

(* Variant: only the status of the process is set.                         *)
DegradedProcess(a) ==
    /\ runtime' = "degraded"
    /\ missed' = [missed EXCEPT ![a] = TRUE]
    /\ UNCHANGED session

(* _mark_degraded, after a call about the run of a raised.                 *)
Degraded(a) ==
    /\ runtime' = "degraded"
    /\ missed' = [missed EXCEPT ![a] = TRUE]
    /\ session' = [session EXCEPT ![a].status = "degraded"]

Fine == UNCHANGED <<runtime, missed, session>>

-----------------------------------------------------------------------------
(* start_analysis_trace                                                    *)

Opened(a, status, posted) ==
    session' = [session EXCEPT ![a] = [status |-> status, posted |-> posted]]

(* Variant: a posted session keeps the status of the process.              *)
PostRootQuietly(a) ==
    \/ /\ Opened(a, runtime, TRUE)
       /\ root' = [root EXCEPT ![a] = "posted"]
       /\ missed' = [missed EXCEPT ![a] = FALSE]
       /\ UNCHANGED runtime
    \/ \E posted \in BOOLEAN :
       /\ Opened(a, "degraded", posted)
       /\ root' = [root EXCEPT ![a] = IF posted THEN "posted" ELSE "none"]
       /\ missed' = [missed EXCEPT ![a] = TRUE]
       /\ runtime' = "degraded"

(* The post of the root run, which may fail before it is sent, or after it *)
(* when the URL of the run is asked for.                                   *)
PostRoot(a) ==
    \/ /\ Opened(a, "configured", TRUE)
       /\ root' = [root EXCEPT ![a] = "posted"]
       /\ missed' = [missed EXCEPT ![a] = FALSE]
       /\ UNCHANGED runtime
    \/ \E posted \in BOOLEAN :
       /\ Opened(a, "degraded", posted)
       /\ root' = [root EXCEPT ![a] = IF posted THEN "posted" ELSE "none"]
       /\ missed' = [missed EXCEPT ![a] = TRUE]
       /\ runtime' = "degraded"

NewSession(a) ==
    /\ gauge' = gauge + 1
    /\ unended' = [unended EXCEPT ![a] = {}]
    /\ abandoned' = [abandoned EXCEPT ![a] = {}]
    /\ IF enabled THEN PostRoot(a)
       ELSE Opened(a, runtime, FALSE) /\ UNCHANGED <<runtime, root, missed>>

(* A session that an attempt before left behind is taken up again.         *)
Resume(a) ==
    /\ session[a] # NoSession
    /\ UNCHANGED <<runtime, session, gauge, root, unended, abandoned, missed>>

(* Variant: a session is opened whatever is there.                         *)
StartSessionAnew(a) == NewSession(a)

StartSession(a) ==
    \/ Resume(a)
    \/ session[a] = NoSession /\ NewSession(a)

Start(a) ==
    /\ phase[a] # "running"
    /\ attempt[a] < Attempts
    /\ StartSession(a)
    /\ phase' = [phase EXCEPT ![a] = "running"]
    /\ attempt' = [attempt EXCEPT ![a] = @ + 1]
    /\ UNCHANGED <<enabled, open, report>>

-----------------------------------------------------------------------------
(* instrument_graph_node around a node: begin_child_run before it and      *)
(* end_child_run after it.                                                 *)

Running(a) == phase[a] = "running"

(* A child run, by its name and the attempt it was begun in; its handle.   *)
Run(a, name) == <<name, attempt[a]>>

Handle(run, posted) == [run |-> run, posted |-> posted]

Under(a, name) == \E h \in open[a] : h.run[1] = name

(* The report node is alone: its predecessors are done.                    *)
MayBegin(a, node) ==
    /\ ~Under(a, node) /\ ~Under(a, Reporter)
    /\ node = Reporter => open[a] = {}

Begin(a, name, posted) ==
    /\ open' = [open EXCEPT ![a] = @ \cup {Handle(Run(a, name), posted)}]
    /\ unended' = IF posted THEN [unended EXCEPT ![a] = @ \cup {Run(a, name)}] ELSE unended

(* begin_child_run; without a session there is no handle to post.          *)
BeginChild(a, name) ==
    /\ \/ Begin(a, name, Posted(a)) /\ Fine
       \/ Posted(a) /\ Begin(a, name, FALSE) /\ Degraded(a)
    /\ UNCHANGED <<enabled, gauge, phase, attempt, abandoned, root, report>>

BeginNode(a, node) ==
    /\ Running(a) /\ MayBegin(a, node)
    /\ BeginChild(a, node)

(* end_child_run                                                           *)
End(a, h) ==
    \/ /\ unended' = IF h.posted THEN [unended EXCEPT ![a] = @ \ {h.run}] ELSE unended
       /\ Fine
    \/ h.posted /\ Degraded(a) /\ UNCHANGED unended

EndChild(a, h) ==
    /\ End(a, h)
    /\ open' = [open EXCEPT ![a] = @ \ {h}]
    /\ UNCHANGED <<enabled, gauge, phase, attempt, abandoned, root, report>>

(* A node is past its tools when it returns or raises itself.              *)
IsOver(a, h) ==
    /\ h.run[1] # Tool
    /\ h.run[1] = Researcher => ~Under(a, Tool)

NodeReturns(a) ==
    /\ Running(a)
    /\ \E h \in open[a] : h.run[1] # Reporter /\ IsOver(a, h) /\ EndChild(a, h)

(* The exception goes on to the graph, which cancels the nodes beside it:  *)
(* theirs is a CancelledError and passes the wrapper by, and so it does    *)
(* the end of a tool's run.                                                *)
NodeRaises(a) ==
    /\ Running(a)
    /\ \E h \in open[a] :
          /\ IsOver(a, h)
          /\ End(a, h)
          /\ abandoned' = [abandoned EXCEPT ![a] = @ \cup {k.run : k \in open[a] \ {h}}]
    /\ open' = [open EXCEPT ![a] = {}]
    /\ phase' = [phase EXCEPT ![a] = "raised"]
    /\ UNCHANGED <<enabled, gauge, attempt, root, report>>

-----------------------------------------------------------------------------
(* The tools of documentation_research: the catalogs, the fetcher, which   *)
(* suspends, and the search.  Their work lies between begin_child_run and  *)
(* end_child_run, with no handler around it.                               *)

(* One tool after the other, and none after one that raised.               *)
BeginTool(a) ==
    /\ Running(a)
    /\ Under(a, Researcher) /\ ~Under(a, Tool)
    /\ Run(a, Tool) \notin abandoned[a]
    /\ BeginChild(a, Tool)

ToolReturns(a) ==
    /\ Running(a)
    /\ \E h \in open[a] : h.run[1] = Tool /\ EndChild(a, h)

(* The node's own handler swallows the exception: the node will return,    *)
(* and the run of the tool is left as it is.                               *)
ToolWorkRaises(a) ==
    /\ Running(a)
    /\ \E h \in open[a] :
          /\ h.run[1] = Tool
          /\ open' = [open EXCEPT ![a] = @ \ {h}]
          /\ abandoned' = [abandoned EXCEPT ![a] = @ \cup {h.run}]
    /\ UNCHANGED <<enabled, runtime, session, gauge, phase, attempt, remoteVars, report>>

(* record_llm_trace and the tools of the other agents begin and end a run  *)
(* with nothing in between.  When both calls work out nothing is left to   *)
(* see; when one fails the session is degraded, which is all that is kept. *)
BriefRunFails(a) ==
    /\ Running(a) /\ open[a] # {} /\ Posted(a)
    /\ Degraded(a)
    /\ UNCHANGED <<enabled, gauge, runVars, root, unended, report>>

-----------------------------------------------------------------------------
(* finish_analysis_trace, in the wrapper of the report node after the end  *)
(* of its own child.                                                       *)

(* session.posted and session.status of _observability_report.  A graph    *)
(* that runs has its session: the answer for one without is never given.   *)
ReportOf(s, status) ==
    [submitted |-> s.posted /\ status = "configured", status |-> status]

(* Variant: the gauge is not decremented.                                  *)
FinishUncounted(a, failed) ==
    /\ report' = [report EXCEPT ![a] =
                     ReportOf(session[a], IF failed THEN "degraded" ELSE session[a].status)]
    /\ session' = [session EXCEPT ![a] = NoSession]
    /\ UNCHANGED gauge

Finish(a, failed) ==
    /\ report' = [report EXCEPT ![a] =
                     ReportOf(session[a], IF failed THEN "degraded" ELSE session[a].status)]
    /\ session' = [session EXCEPT ![a] = NoSession]
    /\ gauge' = gauge - 1

(* The root run is ended, unless a call before that fails; asking for the  *)
(* URL may fail after it.                                                  *)
EndRoot(a, failed) ==
    root' \in IF ~Posted(a) THEN {root}
              ELSE IF failed THEN {root, [root EXCEPT ![a] = "ended"]}
              ELSE {[root EXCEPT ![a] = "ended"]}

ReportNodeReturns(a) ==
    /\ Running(a)
    /\ \E h \in open[a], childFails, rootFails \in BOOLEAN :
          /\ h.run[1] = Reporter
          /\ childFails => h.posted
          /\ rootFails => Posted(a)
          /\ unended' = IF h.posted /\ ~childFails
                        THEN [unended EXCEPT ![a] = @ \ {h.run}] ELSE unended
          /\ EndRoot(a, rootFails)
          /\ Finish(a, childFails \/ rootFails)
          /\ IF childFails \/ rootFails
             THEN runtime' = "degraded" /\ missed' = [missed EXCEPT ![a] = TRUE]
             ELSE UNCHANGED <<runtime, missed>>
    /\ open' = [open EXCEPT ![a] = {}]
    /\ phase' = [phase EXCEPT ![a] = "reported"]
    /\ UNCHANGED <<enabled, attempt, abandoned>>

(* attach_user_feedback while the graph runs; one that works out leaves    *)
(* nothing here, and so does one after the report, which finds no session. *)
FeedbackFails(a) ==
    /\ Posted(a)
    /\ Degraded(a)
    /\ UNCHANGED <<enabled, gauge, runVars, root, unended, report>>

Next ==
    \E a \in Analyses :
        \/ Start(a)
        \/ \E node \in Nodes \cup {Reporter} : BeginNode(a, node)
        \/ NodeReturns(a)
        \/ NodeRaises(a)
        \/ BeginTool(a)
        \/ ToolReturns(a)
        \/ ToolWorkRaises(a)
        \/ BriefRunFails(a)
        \/ ReportNodeReturns(a)
        \/ FeedbackFails(a)

Spec == Init /\ [][Next]_vars

-----------------------------------------------------------------------------
(* Properties.                                                             *)

Runs == (Nodes \cup {Reporter, Tool}) \X (0 .. Attempts)

TracingTypeOK ==
    /\ enabled \in BOOLEAN
    /\ runtime \in Statuses
    /\ session \in [Analyses -> Sessions \cup {NoSession}]
    /\ gauge \in 0 .. Cardinality(Analyses)
    /\ phase \in [Analyses -> {"idle", "running", "raised", "reported"}]
    /\ attempt \in [Analyses -> 0 .. Attempts]
    /\ root \in [Analyses -> {"none", "posted", "ended"}]
    /\ open \in [Analyses -> SUBSET [run : Runs, posted : BOOLEAN]]
    /\ unended \in [Analyses -> SUBSET Runs]
    /\ abandoned \in [Analyses -> SUBSET Runs]
    /\ missed \in [Analyses -> BOOLEAN]
    /\ report \in [Analyses -> [submitted : BOOLEAN, status : Statuses] \cup {NoReport}]

(* analyses_active counts the graphs that run and those whose last attempt *)
(* raised, each once: a report is the only way off the gauge, and an       *)
(* attempt after one that raised takes up its session.                     *)
GaugeCountsRuns ==
    gauge = Cardinality({a \in Analyses : phase[a] \in {"running", "raised"}})

(* A report tells of LangSmith what happened to its own run: "disabled" if *)
(* tracing is off, "degraded" if a call about this run failed, and not for *)
(* a call that failed for another analysis, although that leaves the       *)
(* process degraded for ever.                                              *)
ReportTellsOutage ==
    \A a \in Analyses : phase[a] = "reported" =>
        report[a].status = IF ~enabled THEN "disabled"
                           ELSE IF missed[a] THEN "degraded" ELSE "configured"

(* A trace that a report calls submitted is whole but for what is known to *)
(* be abandoned: its root run is ended at LangSmith, and so is every child *)
(* but nodes that were cancelled when a node beside them raised, and tools *)
(* of documentation_research whose work raised or was cancelled.           *)
SubmittedIsWhole ==
    \A a \in Analyses : phase[a] = "reported" /\ report[a].submitted =>
        root[a] = "ended" /\ unended[a] \subseteq abandoned[a]

=============================================================================
