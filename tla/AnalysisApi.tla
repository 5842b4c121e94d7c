---------------------------- MODULE AnalysisApi ----------------------------
(***************************************************************************)
(* One analysis behind the HTTP API (api/analyses.py): the record kept by  *)
(* the in-memory store, the background task that runs the graph and merges *)
(* every update it streams, the row in user_analyses, and one client that  *)
(* follows the progress stream.  The run itself is AnalysisGraph.          *)
(*                                                                         *)
(* The store's lock is never held across a suspension, so a call of it is  *)
(* atomic for the event loop, and so are consecutive calls between which   *)
(* nothing is awaited.  Standard mode, where the run is a background task; *)
(* the end of the process, which leaves neither record nor task, is not    *)
(* modelled.                                                               *)
(***************************************************************************)
EXTENDS AnalysisGraph, Sequences

VARIABLES
    phase,      \* where create_analysis and _run_analysis are
    recorded,   \* the record's status
    shown,      \* its report_status and final_report: the report's kind
    failures,   \* nodes with an entry in the record's state["errors"]
    events,     \* its progress events: the nodes, in order
    history,    \* the user_analyses row: "none", "running" or a final status
    persisting, \* _persist_findings: "no", "scheduled", "stored" or "skipped"
    sent,       \* how many events the stream has delivered
    told        \* "absent", "open", or the status of its closing event

record == <<recorded, shown, failures, events>>
stream == <<sent, told>>
apiVars == <<vars, phase, record, history, persisting, stream>>

(* _TERMINAL_STATUSES                                                      *)
TerminalStatuses == {"completed", "partial", "terminal", "failed"}

GraphEnded == frontier = {} /\ pending = {} /\ ~raised

-----------------------------------------------------------------------------
(* create_analysis: an anonymous request has no history row; when writing  *)
(* it raises, which it may after its COMMIT took effect, the record stays  *)
(* and no run is ever scheduled for it.                                    *)
Create ==
    /\ phase = "none"
    /\ phase' \in {"created", "refused"}
    /\ history' \in {"none", "running"}
    /\ UNCHANGED <<vars, record, persisting, stream>>

(* The background task takes its copy of the state, whose status is still  *)
(* pending, and marks the record running.                                  *)
Start ==
    /\ phase = "created"
    /\ phase' = "running"
    /\ recorded' = "running"
    /\ UNCHANGED <<vars, shown, failures, events, history, persisting, stream>>

(* The node whose update a step of the graph streams.  A branch streams as *)
(* it returns, before Join merges it into the graph's own state.           *)
Streamed ==
    {n \in Nodes :
        \/ \E w \in pending' \ pending : w.node = n
        \/ pending = {} /\ executions'[n] > executions[n]}

NewFailures ==
    {w.node : w \in {v \in pending' \ pending : v.failed}}
    \cup IF pending = {} THEN errors' \ errors ELSE {}

(* Variant: "errors" is overwritten like the other fields.                 *)
MergeUpdateOver ==
    /\ recorded' = IF status' # status THEN status' ELSE recorded
    /\ shown' = report'.kind
    /\ failures' = IF NewFailures = {} THEN failures ELSE NewFailures
    /\ \/ Streamed = {} /\ UNCHANGED events
       \/ \E n \in Streamed : events' = Append(events, n)

(* STORE.update and STORE.add_event: lists are extended, other fields      *)
(* overwritten; status and report follow the merged state.                 *)
MergeUpdate ==
    /\ recorded' = IF status' # status THEN status' ELSE recorded
    /\ shown' = report'.kind
    /\ failures' = failures \cup NewFailures
    /\ \/ Streamed = {} /\ UNCHANGED events
       \/ \E n \in Streamed : events' = Append(events, n)

Forward ==
    /\ phase = "running"
    /\ Step
    /\ MergeUpdate
    /\ UNCHANGED <<phase, history, persisting, stream>>

-----------------------------------------------------------------------------
(* The end of _run_analysis.  Writing the history row may raise, before its *)
(* COMMIT takes effect or after it.                                        *)

Written(value) == IF history = "none" THEN "none" ELSE value

(* Variant: the status is derived from the report alone.                   *)
SettledAnew(value, kind) == IF kind # "none" THEN "completed" ELSE "failed"

Settled(value, kind) ==
    IF value \in TerminalStatuses THEN value
    ELSE IF kind # "none" THEN "completed" ELSE "failed"

(* Variant: the row is written before what may still raise.                *)
SettleHistoryFirst ==
    /\ phase = "running" /\ GraphEnded
    /\ recorded' \in {Settled(recorded, shown), "failed"}
    /\ history' = Written(Settled(recorded, shown))
    /\ persisting' = IF shown = "validated" THEN "scheduled" ELSE "no"
    /\ phase' = "ended"
    /\ UNCHANGED <<vars, shown, failures, events, stream>>

(* The stream is exhausted: finish, schedule the persistence of a validated *)
(* analysis when there is a findings store, and write the history row;     *)
(* nothing is awaited in between.  When writing the row raises, the handler *)
(* makes the analysis a failed one and writes again, which may raise too:  *)
(* the row then keeps what it was, or what the first write committed.      *)
Settle ==
    /\ phase = "running" /\ GraphEnded
    /\ \/ /\ recorded' = Settled(recorded, shown)
          /\ history' = Written(recorded')
       \/ /\ recorded' = "failed"
          /\ history' \in {history, Written(Settled(recorded, shown)), Written("failed")}
    /\ persisting' \in IF shown = "validated" THEN {"no", "scheduled"} ELSE {"no"}
    /\ phase' = "ended"
    /\ UNCHANGED <<vars, shown, failures, events, stream>>

(* The graph raises, or the checkpointer does as it is closed.             *)
RunFails ==
    /\ phase = "running"
    /\ \/ Raise
       \/ GraphEnded /\ UNCHANGED vars
    /\ phase' = "failing"
    /\ UNCHANGED <<record, history, persisting, stream>>

(* Variant: the handler logs, and leaves the record as it is.              *)
HandleFailureQuietly ==
    /\ phase = "failing"
    /\ history' \in {history, Written("failed")}
    /\ phase' = "ended"
    /\ UNCHANGED <<vars, record, persisting, stream>>

HandleFailure ==
    /\ phase = "failing"
    /\ recorded' = "failed"
    /\ history' \in {history, Written("failed")}
    /\ phase' = "ended"
    /\ UNCHANGED <<vars, shown, failures, events, persisting, stream>>

(* _persist_findings swallows every exception; the delta it would write    *)
(* back never is, as a snapshot has no "repository_url".                   *)
PersistFindings ==
    /\ persisting = "scheduled"
    /\ persisting' \in {"stored", "skipped"}
    /\ UNCHANGED <<vars, phase, record, history, stream>>

-----------------------------------------------------------------------------
(* GET /events.                                                            *)

OpenStream ==
    /\ told = "absent"
    /\ phase \in {"created", "running", "failing", "ended"}
    /\ told' = "open"
    /\ UNCHANGED <<vars, phase, record, history, persisting, sent>>

(* Variant: a finished analysis is announced before its events are read.   *)
PollStatusFirst ==
    /\ told = "open"
    /\ \/ /\ recorded \in TerminalStatuses
          /\ told' = recorded /\ UNCHANGED sent
       \/ /\ recorded \notin TerminalStatuses
          /\ sent' = Len(events) /\ UNCHANGED told
    /\ UNCHANGED <<vars, phase, record, history, persisting>>

(* One round of _event_stream over one copy of the record.                 *)
Poll ==
    /\ told = "open"
    /\ sent' = Len(events)
    /\ told' = IF recorded \in TerminalStatuses THEN recorded ELSE told
    /\ UNCHANGED <<vars, phase, record, history, persisting>>

-----------------------------------------------------------------------------

ApiInit ==
    /\ Init
    /\ phase = "none" /\ recorded = "pending" /\ shown = "none"
    /\ failures = {} /\ events = <<>>
    /\ history = "none" /\ persisting = "no"
    /\ sent = 0 /\ told = "absent"

Task == Start \/ Forward \/ Settle \/ HandleFailure

ApiNext ==
    \/ Create
    \/ Task
    \/ RunFails
    \/ PersistFindings
    \/ OpenStream
    \/ Poll

ApiSpec == ApiInit /\ [][ApiNext]_apiVars

(* The event loop runs the background task and the stream's rounds.        *)
FairApiSpec == ApiSpec /\ WF_apiVars(Task) /\ WF_apiVars(Poll)

-----------------------------------------------------------------------------
(* Properties.                                                             *)

(* The record's fields and the stream hold what their writers put there.   *)
ApiTypeOK ==
    /\ phase \in {"none", "refused", "created", "running", "failing", "ended"}
    /\ recorded \in {"pending", "running"} \cup TerminalStatuses
    /\ shown \in {"none", "validated", "partial", "terminal"}
    /\ failures \subseteq Nodes
    /\ events \in Seq(Nodes)
    /\ history \in {"none", "running"} \cup TerminalStatuses
    /\ persisting \in {"no", "scheduled", "stored", "skipped"}
    /\ sent \in 0 .. Len(events)
    /\ told \in {"absent", "open"} \cup TerminalStatuses

(* The store rebuilds the graph's state from its updates.  Although it     *)
(* merges each branch at once and the graph merges all three together, the *)
(* two agree: same errors, and one event per node record, branches' writes *)
(* that wait for the join included.                                        *)
EventsOf(n) == {i \in DOMAIN events : events[i] = n}

ReplicaAgrees ==
    phase = "running" =>
        /\ failures = errors \cup {w.node : w \in {v \in pending : v.failed}}
        /\ \A n \in Nodes :
              Cardinality(EventsOf(n)) =
                  executions[n] + Cardinality({w \in pending : w.node = n})

(* A status that promises a report has it: nobody who reads "completed" or *)
(* "partial" is refused the report, or given one of another kind, and      *)
(* neither is one who reads "terminal" once the task has ended.            *)
HasReport(value) ==
    /\ value = "completed" => shown = "validated"
    /\ value = "partial" => shown = "partial"
    /\ phase = "ended" /\ value = "terminal" => shown = "terminal"

StatusHasReport == HasReport(recorded)

(* What a closing stream said of the analysis remains true, or a failure   *)
(* after the last node turned it into "failed"; nothing comes back from    *)
(* "failed".                                                               *)
ToldStatusStands ==
    told \in TerminalStatuses => recorded \in {told, "failed"}

(* A stream closed by a completed, partial or failed analysis has delivered *)
(* every event there will ever be.                                         *)
ClosedStreamIsWhole ==
    told \in {"completed", "partial", "failed"} => sent = Len(events)

(* Once the task has ended, a history row that names an outcome is right   *)
(* about it.  "failed" is what the record says.  A row that promises a     *)
(* report has one of that kind, and the record says the same, or "failed"  *)
(* as the write of that very row raised after it was committed.  Or the    *)
(* row was not written again after the analysis was recorded.              *)
HistoryAgrees ==
    phase = "ended" =>
        /\ HasReport(history)
        /\ history \in {"none", "running", recorded} \/ recorded = "failed"

(* What _run_analysis and its error path make of an analysis is one story: *)
(* the record, its report, what a stream was told and the history row.     *)
EndIsConsistent == StatusHasReport /\ ToldStatusStands /\ HistoryAgrees

(* Every stream is closed, whatever the run does.                          *)
StreamCloses == told = "open" ~> told \in TerminalStatuses

=============================================================================
