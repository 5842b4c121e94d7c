# A verification project for UpgradePilot

UpgradePilot analyses a GitHub repository for a framework migration. A request
becomes one run of a LangGraph: acquire the repository, choose a migration
pack, scan it, research documentation, draft a plan, validate every claim of the
plan against evidence, repair it at most once, and write a validated, partial
or terminal report. Requests arrive through an HTTP API, or through a Redis
queue that worker processes drain under a per-user rate limit.

This directory holds TLA+ modules of that system, TLC configurations that check
them on small instances, and TLAPS proofs for every value of the constants: of
the safety of the queue and the rate limiter, of the course of the graph and
what its reports mean, of the API's copy of it, of the gates and the choice of
a pack, of the evidence, the score and the delta of a scan, of the agents'
evidence, and of the trace sessions; and that the queue, the limiter, the gates
and the agents only go on.
Paths below are relative to `src/upgradepilot/` of the repository.

## Inventory

| Component | State it keeps | Operations | What is hard about it |
|---|---|---|---|
| Job queue (`queue/jobs.py`) | per-user lists, a sorted set of active users, one envelope per job | enqueue, claim, complete, fail | each operation is several Redis commands, and workers and submitters interleave between them; a worker may die anywhere |
| Worker (`worker.py`) | the job in hand, an `analyses` row per finished job | claim, run, persist, complete or fail | order of the row and the envelope, retries, exceptions after success |
| Rate limiter (`queue/rate_limit.py`) | a token bucket per user in Redis | consume | optimistic locking with retries, the clock, expiry, and a write that is not locked |
| Graph (`graph/build.py`, `routing.py`, `nodes/`) | `UpgradePilotState` | eighteen nodes and their routes | fan-out and join, append reducers, one repair, failures that must not end the run, failures that must |
| Validator, planner, critic (`validators/`, `agents/`) | nothing of their own | draft, validate, repair | which failures a repair may fix, citations that must survive it |
| API (`api/analyses.py`) | in-memory records, a history row | create, run in background, stream progress, serve reports | a second copy of the graph's state, built from streamed updates; streams that poll it; database errors at the end |
| Findings store, delta (`services/`, `delta/`, `memory/`) | findings of every validated analysis | persist, compare, count | comparing the right two runs, concurrent runs of one repository |
| Acquisition (`tools/`, `graph/nodes/acquisition.py`) | a workspace directory that outlives an attempt | resolve, download, validate, extract | retries that turn into refusals, a branch that moves, limits counted member by member, writes that fail half-way, files of an earlier attempt |
| Profile and packs (`graph/nodes/profiling.py`, `migration/`, `analyzers/`) | loaded YAML packs | classify, assess, aggregate, rank | contradicting signals, bounds that are not read as bounds, one manifest read twice by different code |
| Scanners, parsers (`analyzers/`, `parsers/`) | none | pure functions of files | line ranges, bounds of evidence |
| Evidence agents (`agents/`, `tools/trusted_docs.py`, `llm/`) | nothing between calls | retrieve, search, ask, check | sources that do not answer, snapshots, an LLM that cites what is not there, exceptions on either side of a `try` |
| Tracing (`observability/`) | sessions of active traces, the status of the process, a gauge | start, begin, end, degrade, finish | many analyses share the process, graphs that raise, cancelled siblings, an attempt after one that raised |
| Auth, UI, metrics, configuration | tokens, pages, counters | | stateless or pure I/O |

How they interact: the API and the workers call the graph; the graph's nodes
call acquisition, packs, scanners, agents and the validator; the API's store
merges the updates the graph streams, and its progress stream polls the store;
after a validated run the API hands the findings to the findings store; workers
and submitters share only Redis and Postgres.

`PROJECT.json` lists every component with its status, and under `hazards` what
is hard to test in this code, each with the properties that cover it or the
reason none does yet.

## Modules

**JobLifecycle** states what the module docstring of `queue/jobs.py` promises
of one job: `queued -> running -> completed | failed`, with at most
`MaxAttempts` starts and failure only after the last of them. It knows no
queue, user or worker.

**JobQueue** is `queue/jobs.py` and `worker.py`. `queue`, `active`, `score`,
`state` and `attempts` are the Redis keys; `pc[w]`, `held[w]`, `todo[w]`,
`snap[w]` and `seen[w]` are the locals of a worker inside `claim_next_job`,
`process_one` and `fail_job`. Each Redis command, and each MULTI pipeline, is
one action. The analysis returns or raises; of Postgres only the set of jobs
with a row is kept. `ImplementsLifecycle` maps it to `JobLifecycle` by its own
`state` and `attempts`.

**RateLimiter** is `consume` for one user, command by command, under several
callers, with the clock and the key's expiry. Tokens are counted in parts so
that fractions exist as they do in the float arithmetic.

**AnalysisGraph** is the graph in standard mode. `frontier` is the set of nodes
of the current super-step that have not returned; the three branches after
`select_migration_pack` return in any order and their writes wait in `pending`
until `Join`, which is where LangGraph applies the reducers. The other
variables are fields of `UpgradePilotState`, abstracted to what the routes, the
validator and the reports tell apart: a finding is a name with a rule, a claim
is what it cites and what its text mentions. The answers of services (GitHub,
scanner, documentation, LLM) are choices; what the code does with an answer is
not. `Raise` is a node, its instrumentation or a checkpoint write raising.

**AnalysisApi** extends AnalysisGraph with `_run_analysis`, the in-memory
record, the history row and one progress stream. `Forward` composes a step of
the graph with `STORE.update` and `STORE.add_event`: the API's record is a
second copy of the graph's state that merges a branch when it returns, not at
the join. The store's lock is never held across an `await`, so its calls are
atomic, and so is the end of `_run_analysis` from `finish` to the history row.

**FindingEvidence** is what `analyzers/ast_scanner.py` reports of one file and
what the validator asks of a finding: `Snippet` is `_evidence`, a set of line
numbers; `FindingsOf` is `scan_file` with its import gate, exclusions and text
fallback. Where a rule matches is an input. **RiskScoring** is `score_risk` and
`_validate_risk`.

**Acquisition** is `acquire_repository` with `tools/github.py` and
`tools/safe_archive.py`. `step` and `tries` say which request is made and how
often it has failed; each answer, timeout, refusal and limit is an action, and
so are a chunk of the download and a member of each pass of the extraction.
`disk` is the workspace of the analysis; `Retry` is the next attempt, which
finds it. Archives are sequences of members with a kind, a size, a depth and
whether their path is safe.

**PackSelection** is a module of operators: `Classify` is
`_classify_constraint`, `Fired` and `Aggregate` are `ApplicabilityEngine`,
`Loads` is `load_pack`, and `Select` is `select_migration_pack`.
**RepositoryProfile** gives it a profile: which files are visited, what their
manifests declare, and how `parse_dependencies` reads them again.

**Intake** composes the three into the gates of an analysis and the branch that
reads the manifests: the workspace, its profile, the packs as they are on disk
when loaded, and the answer. `RunAgain` is the worker's retry.
**RepositoryGates** is what the gates promise the rest of the graph: the
workspace holds whole trees or the run is over; of one commit in a first
attempt, and later on also those that earlier attempts left, if no two of them
have a path in common. `ImplementsGates` maps Intake to it; `held` is what is on
disk while the gates rely on it, `retried` whether an attempt went before.

**LlmClient** is what one call of a client may come to, as sets of replies.
**DocumentationResearch** is the node and its agent, source by source, with
`LiveFails` for the requests of `_fetch_live` and `ReadSnapshot` for the
fallback; `Judge` is everything after the answer. **Agents** adds
`compatibility_interpretation`, which reads the evidence. Both are run with the
static client of the graph and with one that may answer anything.

**TracingSessions** is `observability/tracing.py` in one process: `session` is
`_ACTIVE_TRACES`, `runtime` the status of `_RUNTIME`, `gauge` the metric
`analyses_active`, and `root`, `unended` and `missed` what LangSmith was told
and whether a call about a run failed. The wrapper of a node is two actions,
before and after it, so that nodes and analyses interleave. So are the runs of
the tools of `documentation_research` (`BeginTool`, and `ToolReturns` or
`ToolWorkRaises`), whose work may raise or be cancelled in between; the runs of
the other tools and of LLM calls begin and end in one breath, and all they leave
is a failure (`BriefRunFails`). `abandoned` are the runs whose end is never
reached.

**RepositoryScan** composes the two over several runs: the files in any order
(`ScanFile`) beside `analyze_tests_and_ci`, the score, the validator's verdict
on findings and score, `compute_delta` against the latest completed run, and a
push before the next run. The findings it rejects are the `Unsound` ones of
AnalysisGraph, a score it rejects is "capped" there. A run that passes may still
not complete, as its plan decides too; a run that is rejected never does.

`MCJobQueue`, `MCRateLimiter`, `MCAnalysisGraph`, `MCAnalysisApi`,
`MCRepositoryScan`, `MCIntake`, `MCAgents` and `MCTracingSessions` hold the
instances; `MCIntake` has the signals of the two packs of `migration_packs/`.
`JobQueueProofs`, `RateLimiterProofs`, `RepositoryScanProofs`, `IntakeProofs`,
`AgentsProofs` and `TracingSessionsProofs` hold the theorems about the modules
they are named after, `AnalysisProofs` those about AnalysisGraph and
AnalysisApi. **Collections** has the orders that the code's loops and sorts
follow, `CollectionLemmas` what holds of them and of sums. Definitions marked
*Variant* are plausible bugs: each property is known to fail when the definition
below the variant is replaced by it (the `mutants` of `PROJECT.json`).

## Runs

| Run | Shows | Bounds |
|---|---|---|
| `queue_safety` | no interleaving duplicates a job, over-runs it, completes it unstored, loses one without a crash, or takes one back | 2 workers; 3 jobs, two of one user, the third submitted again after it finished; 1 crash; `complete_job` may raise |
| `queue_life` | the refinement of JobLifecycle, and that every job finishes unless its worker died or its user was dropped from `active_users` | 2 workers, 2 jobs of one user, 1 crash, fair workers |
| `queue_stranded` | *violated*: a job enqueued between `LLEN` and `ZREM` waits where no claim looks | 1 worker, 2 jobs |
| `limiter_shared` | a grant takes what it costs out of the bucket, fields stay in range, no call is taken back by another and each returns | 2 callers, capacity of 2 tokens, 5 ticks, expiry after 5, 2 tries |
| `graph_client` | the course of the graph (each node once, the validator at most twice, complete joins, terminal reports only for gates); validated reports are sound, repairs add nothing, structural failures are final | an LLM client that drafts any plan, or none, over 2 findings of 2 rules and 2 documents of which one is flawed, with 4 texts |
| `api_run` | the two copies of the state agree; streams are whole and closed; record, report and stream tell one story at the end, and the history row no other, though its writes may raise before or after their COMMIT | every course of the graph without findings, one stream |
| `scan_chain` | snippets show their match, accepted ones nothing else; more findings never lower the score; deltas claim nothing that is not so | 2 runs, 2 files: one with a match of 1, 7, 8 or 10 lines in a file of 1, 8 or 12, with blank lines around, one small; the source's bound of 8 |
| `scan_snippet` | *violated*: what the scanner reports does not stand up to the validator | as `scan_chain` |
| `intake` | no file of an archive that breaks a limit is ever on disk; a repository at the target version is not migrated, the best pack is selected, both readings of the manifests agree; the gates implement RepositoryGates; every attempt goes on, and ends | 2 attempts, 1 retry per request, 7 commits: three sound ones, of which two have a path in common and the third has none of theirs, one over the chunk limit, one over the size limit, one with a link, one corrupt; the 2 packs of the repository, one of them also broken; a request for one, for an unknown one, or for none |
| `intake_bound` | *violated*: the Pydantic pack is selected for `pydantic>=2.0` | 2 commits, 1 attempt |
| `research` | evidence is grounded in what was retrieved and found; snapshots stand in for live sources; "completed" means it; both agents go on, and end | lists of up to 3 findings over 5 rules, 3 sources, 2 retries, 2 clients, 4 answers of research and 3 of interpretation |
| `tracing` | the gauge counts runs once; a report tells of its own run's outages; what it calls submitted is whole at LangSmith but for runs that were cancelled or whose work raised | 2 analyses, 2 attempts each, 2 parallel nodes, one of them with tools, and the report node; at most 4 child runs in play at once |

Why the bounds are enough to be interesting: two workers suffice for every race
on one list, since a command of the queue reads and writes one user's keys; two
jobs of one user give a backlog, a third job a second user; `MaxAttempts` is the
source's 2. Two callers suffice for a lost `WATCH`. Two findings of two rules
give claims that cite one, both or none, documents that are related to one or
none of them. The positions of `scan_chain` are those at which a clause of
`_evidence` changes: the first line, the third, lengths just below, at and above
the bound. Archives of two to four members have one that breaks a limit after
one that does not; two attempts suffice for an attempt to meet the files of
another, with a path in common and without. A third one, as of a job that is
submitted again, is left to the proof of the refinement, which bounds neither
attempts nor commits. The repositories of `intake` have,
for one package, a pin, a list of clauses, a single clause and no version, in
manifests that are read, excluded, flawed and oddly named. Two analyses suffice
for one to be degraded by the other. Four child runs in play, that may still end
or never will, are enough for a tool and its node that were cancelled by the
node beside them, and for both again in the next attempt. Every
bound is a constant of its module. `CHECK_DEADLOCK FALSE` is used throughout, as
queues drain, clocks stop at their bound and runs end.

Fairness. `run_worker` loops for ever, so a worker that can take a step takes
one (weak fairness per worker, none for submissions and crashes). A call of
`consume`, once made, runs (weak fairness of its steps). The event loop runs the
background task and the rounds of a stream, which sleep a quarter of a second
(weak fairness of `Task` and `Poll`).
A gate and an agent are coroutines whose every request has a timeout, so they go
on (weak fairness of the three gates, and of the steps of the agents); a push or
another attempt is not owed to anybody.

## What the violations say

* `queue:active_users` and the lists are changed by separate commands; the
  docstring's "finds the next non-empty user queue" does not hold
  (`queue_stranded`).
* A finding's snippet is its match and up to seven more lines, its range is the
  match alone, and the validator compares the two (`scan_snippet`). A repository
  with a one-line match in the middle of a file gets a partial report whatever
  its plan.
* A single inequality has no bounds for the signals of a pack (`intake_bound`):
  `pydantic>=2.0` is neither "already v2" nor "still v1", and the pack's default
  decides. A list such as `>=2.0,<3` is read as meant.

## Observations

What reading and modelling showed besides, without a run of its own.

Queue and limiter:

* A denied call of the limiter gives its `WATCH` up and then writes the tokens
  and the time it has read; over a grant made meanwhile, that time is counted
  again and the token granted twice. The docstring's "so concurrent workers
  don't double-spend tokens" holds of the grants (`GrantSpendsStored`), not of
  the denials beside them: `Deny` is in the model, and a sum of all grants would
  not stay within what the bucket held and was refilled.
* Scores of users with a backlog only grow and drained users start at 0 again,
  so that one who keeps submitting single jobs is always served first; specs/19
  asks for round-robin.
* `fail_job` retries every exception, while specs/19 FR-5.4 excludes
  safety-limit errors.
* The worker calls `graph.invoke` synchronously on nodes that are coroutines,
  and enters no context manager for the Postgres checkpointer, so its analysis
  raises as wired (the tests replace `_run_analysis`); with a checkpointer and
  the per-repository thread id the append reducers would add each run's findings
  to those of the runs before. Its `_persist` passes SQL expressions
  (`sa.cast(...)`) as the values of a textual statement, which no driver can
  bind; its tests have a mock for a connection.

Graph and API:

* `assemble_validated_report` has no limitations, whatever failed: a scan that
  failed ends like one that found nothing, where FR-13 asks for a disclosed gap.
* A gate sets the status that ends a stream before the report exists, so the
  event "report assembled" of specs/04 is not sent, and a client that asks for
  the report at that point gets 409.
* Without documentation the fallback plan has no claims and passes, where
  specs/03 asks for human review. More findings than a plan may have claims make
  the default plan itself raise, outside the `try`.
* Records live in memory only; if the history row cannot be written at the
  start, the record stays pending and no run is scheduled; the row itself may be
  there, when the call raised after its COMMIT.
* When the write of an outcome raises after its COMMIT and the handler's own
  write fails as well, the row says `completed` for good and the record
  `failed`. Nothing in the repository says which of them counts.
* `FindingsStore` calls `execute` and `fetchrow` with positional parameters that
  a psycopg connection does not take, reads snapshot fields that do not exist,
  and updates rows of `analyses` that the API never inserts: as wired its every
  call raises, which `_persist_findings` swallows.

Scanning:

* `delta/detector.py` keys findings by fields that a dumped `MigrationFinding`
  does not have, so all findings of a rule share a key, against its docstring
  ("by (rule_id, file_path, start_line)"): an occurrence that is gone is fixed
  only when it was the last of its rule. `FixedIsGone` is about the other
  direction, which holds.
* The caps of the Pydantic pack's components add up to more than `max_points`.
  The total is clipped, the components are not, and the validator compares the
  two: a score above the clip is rejected.
* `scan_compatibility` calls the AST scanner for every pack, so the rules of the
  Django pack, which declares `analyzer_kind: regex`, have no handler but for
  one; its risk rules name their points `points_per_occurrence` and
  `points_if_true`, which `score_risk` does not read. A test and CI summary that
  failed scores as one without tests and without CI.
* Lines are split at form feeds, which the parser does not count; files that did
  not parse are counted in a result that the node drops.

Acquisition and packs:

* A second attempt after a successful extraction meets its own read-only files,
  fails at the first of them with INTERNAL_ERROR, and removes them; the third
  would succeed. If the branch was moved meanwhile to a commit without any path
  of the first (a history that was replaced), the second attempt extracts beside
  the first tree and the analysis reads both, under one SHA, where
  docs/architecture.md says that resolution pins it to one. RepositoryGates
  says which trees may be held together, and no more than these are.
* Nothing calls `cleanup_workspace`, although `workspace.py` says "removed after
  use".
* A corrupt archive is an INTERNAL_ERROR of the node although its exception
  carries REPOSITORY_INACCESSIBLE. GitHub's 422 for an unknown name does not
  lead to the next endpoint, an outage does: a branch may then be resolved to
  the tag of its name.
* One broken pack fails every selection, as the packs are loaded together.
  Auto-detection drops the warning about the fallback that a request by name
  gets, and its "is also applicable" looks at confidences only.
* The upper bound of `>=1.9,<2` is 2, which is not below 2: the signal for v1
  does not fire. Code patterns are searched in excluded directories too. The
  profile keeps the entries of a flawed manifest, `parse_dependencies` does not.

Agents:

* An excerpt may have 3000 characters and a section 4000, and building the
  evidence is outside the `try`: one long section costs the analysis all of its
  documentation. Errors of a provider that are no timeout end the same way.
* The node drops the status and the unavailable sources of a partial result,
  another gap that FR-13 would have disclosed. The graph's agent reads the
  snapshots of the Pydantic pack for every pack, so that Django's sources are
  always unavailable.
* A live page without sections does not fall back to the snapshot. A default
  selection may name a section that scored nothing for its rule. The default
  interpretation without documentation is rejected by the agent's own check.

Tracing:

* The tools of `documentation_research` end their runs only when their work
  returned; an exception of it is swallowed by the node, so a report may call
  submitted what specs/16 would not call complete ("Complete root and child
  traces exist."). The same happens to a node that is cancelled before a later
  attempt succeeds. `SubmittedIsWhole` names these runs, and no other is left
  open.
* Feedback after a report finds no session; without tracing it is posted to a
  run id that LangSmith never saw.
* A graph that raises for good leaves its session and its place in the gauge;
  the runs of nodes that were cancelled beside it are never ended.

## Proofs

`JobQueueProofs` proves, for any finite or infinite sets of users, jobs and
workers and any number of crashes:

* `TypeCorrect`, `SingleHolderAlways`, `AttemptsRespectedAlways` and
  `CompletedIsStoredAlways`, each `Spec => []...`;
* `QueueImplementsLifecycle`: with `~ReplyLoss` and `Recurring = {}` every
  behaviour of `Spec` is one of `Lifecycle!Spec`;
* `LossNeedsCrashAlways`: for finitely many jobs, as it counts them,
  `Spec => []LossNeedsCrash`. What a crash loses is the one job that was held;
* `JobsAlwaysAdvance`: `Spec => JobsAdvance`.

They rest on `QueueAssumption` only. None of the properties is inductive alone:
that a popped job is held by nobody else needs that it was in exactly one list
once; that a third attempt is impossible needs to know, at every program
counter, how `seen[w]`, `attempts[held[w]]` and `state[held[w]]` are related.
`IInv` is the conjunction of the type invariant, the single-holder property, a
statement per program counter about the held job, and one about the jobs
nobody holds. `Invariance` proves `Init => IInv` and its preservation, one step
per action; the theorems follow, and the refinement maps each action to
`Submit`, `Start`, `Complete`, `Retry`, `Fail` or a stutter under `IInv`.

`RateLimiterProofs` proves, for any number of callers, any capacity, cost and
refill, and any course of the clock:

* `TypeCorrect`: `Spec => []TypeOK`;
* `SpendsStored`: `Spec => GrantSpendsStored`;
* `CallsAlwaysAdvance`: `Spec => CallsAdvance`.

What makes the grant right is what a call knows at each of its steps as long as
its `WATCH` stands: after the first `HGET` that its credit is the stored field,
before `EXEC` that its credit is no more than what the bucket holds for its
clock (`ReadsStand`), and at least one token (`ExecCanPay`). Expiry may slip in
unseen by the `WATCH` and only raises what the bucket holds, so the theorem does
not need the assumption that a bucket is full before it expires.

`AnalysisProofs` proves of the graph, for any findings, documents, rules, flaws
and any texts a client may write:

* `CourseAlwaysSound`: `Spec => []CourseIsSound`, which is `VisitedOnce`,
  `JoinIsComplete` and `TerminalOnlyAtGates`;
* `ValidatedSound`: `Spec => []ValidatedIsSound`;
* `StructuralFinal`: `Spec => StructuralIsFinal`;
* `RepairsOnlyNarrow`: `Spec => RepairAddsNoEvidence`;
* `TypeCorrect`: `Spec => []TypeOK`.

What a report means rests on where the run is: several nodes are scheduled
together only while they are branches (`OneNode`), and from the moment a plan
has passed, or has failed structurally, its report is the only node left to run
(`Verdicts`). Nothing can then write to the plan, the score or the evidence
between the validator and the report.

Its course rests on `Visits`. Every node has a rank that grows along the edges
of `build_graph`, and a node that is scheduled, or whose writes wait, has one
above all that ran before it (`Fresh`); only the validator has a second place,
behind `repair_plan`, and what may then follow depends on `repair_count`
(`Validated`). That the writes that wait and the branches still to run are
together all three is `FanIn`. `Stopped` and `Destiny` say that the terminal
report is scheduled only by a failed gate or a refused pack, and that no later
failure sets the status the routes test. Repairs rest on `Drafts`: between
validator and repair the plan is one whose every claim has a finding and a
document. `PlanAssumption` says that `None` is no plan.

`AnalysisProofs` proves of the API, from the same assumptions:

* `ReplicaAlwaysAgrees`: `ApiSpec => []ReplicaAgrees`;
* `ClosedAlwaysWhole`: `ApiSpec => []ClosedStreamIsWhole`;
* `EndAlwaysConsistent`: `ApiSpec => []EndIsConsistent`;
* `ApiTypeCorrect`: `ApiSpec => []ApiTypeOK`.

Every step of the API is a step or a stutter of the graph, so the invariants of
the graph hold of it. What is added says that the record follows the status of
the graph until the task ends (`Follows`), what it and the history row can be
after that, also when a write raised after its COMMIT (`Ended`),
and what a stream was told (`Closed`). The crux is that the statuses at which a
stream stops, `completed` and `partial`, are set by the last node: no event
comes after them. `terminal` is set by a gate, whence the exceptions in the
properties.

`RepositoryScanProofs` proves, for any files, packs, contents and bound on the
evidence:

* `EvidenceShows`: `Spec => []EvidenceShowsMatch`;
* `AcceptedExact`: `Spec => []AcceptedIsExact`;
* `FixedGone`: `Spec => []FixedIsGone`;
* `UnchangedNoDelta`: `Spec => NoPushNoDelta`;
* `MoreIsNoLess`: `Spec => MoreFindingsMoreRisk`;
* `ScanTypeCorrect`: `Spec => []TypeOK`.

The first two rest on two lemmas about the operators: the window of `_evidence`
covers the match (`SnippetShows`), and a set of lines that covers a range and
has as many members is that range (`CountDecides`). The invariant is that
`findings` are those of the files scanned so far, and `previous` those of a
whole repository; the delta's theorems need that the rules found in a file do
not depend on the run (`RunDoesNotMatter`). That the score only grows follows
component by component (`PointsGrow`), through the sum (`SumsGrow`), the clip
and the levels. A component of kind `threshold_step` grows because its steps
descend: `StepsAssumption` says it of the packs, as the first step exceeded is
taken, in the order of the file.

`IntakeProofs` proves, for any commits, archives, limits, packs and attempts:

* `Refinement`: `Spec => ImplementsGates`;
* `DependenciesAlwaysAgree`: `Spec => []DependenciesAgree`;
* `TypeCorrect`: `Spec => []IntakeTypeOK`;
* `ChecksAlwaysPrecedeWrites`: `Spec => []ChecksPrecedeWrites`;
* `BestIsAlwaysSelected`: `Spec => []BestIsSelected`;
* `MigratedAlwaysStaysOut`: `Spec => []MigratedStaysOut`;
* `AttemptsAlwaysAdvance`: `Spec => IntakeAdvances`.

Between extractions the workspace holds of every commit all files or none
(`WholeTrees`); while files are written it does so of every other commit, and of
the one being written it holds the files before the current member, each on a
path of its own, or all of them from an earlier attempt, which stops the
extraction at its first file (`Partial`). The first attempt finds nothing
(`Placed`). Whole trees in one workspace have no path in common, since a path
holds the file of one commit (`WholeIsHeld`). The theorems assume that sizes and
depths are numbers, and nothing of the paths.

What is on disk has been checked because the running totals of the first pass
are the number and the sum of the members before the current one (`Checked`):
where the pass ends they are those of the archive. The choice of a pack is an
answer to the packs and the profile as they still are at the end (`Chosen`);
that it is the best needs that the packs are ranked in a strict order, by
status, confidence and place (`FirstLeads`, `AnswerIsBest`). That a migrated
repository stays out needs `InstallationsAssumption`: packs that load have ids
of their own, and signals that object to a pin of the target and to a lower
bound at or above it, with a confidence that reaches the threshold. Both packs
of the repository have them. The proof goes from the declaration to its
classification (`MajorDecides`, `RequiringMatches`) and to the aggregation,
where one objection decides (`ObjectionDecides`).

`AgentsProofs` proves, for any sources, documents, findings and clients:

* `SnapshotsAlwaysSuffice`: `AgentsSpec => []SnapshotsSuffice`;
* `EvidenceAlwaysGrounded`: `AgentsSpec => []EvidenceIsGrounded`;
* `CompletedAlwaysWhole`: `AgentsSpec => []CompletedIsWhole`;
* `InterpretationAlwaysWhole`: `AgentsSpec => []InterpretationIsWhole`, the half
  of it about the interpretation;
* `AgentsAlwaysAdvance`: `AgentsSpec => AgentsAdvance`.

The research loses no source between its steps (`NoneLost`): every source that
a known rule of a finding cites has sections that were read, is unavailable, or
is still queued. The catalog's rules are found in the list of the findings
(`KnownType`), their sources in the queue (`SourcesForType`); what the search
selects is in what was retrieved (`SelectedType`), and what was retrieved comes
from sources that `validate_source` let through (`SectionsTrusted`). "Completed"
then means that the queue is empty and nothing is unavailable. The evidence is
left alone once the interpretation begins (`InterpretedLast`). Documents are
assumed to be lists of sections with a score for each rule.

`TracingSessionsProofs` proves, for any finite set of analyses, any nodes and
any number of attempts:

* `GaugeCounts`: `Spec => []GaugeCountsRuns`;
* `ReportAlwaysTells`: `Spec => []ReportTellsOutage`;
* `SubmittedAlwaysWhole`: `Spec => []SubmittedIsWhole`;
* `TypeCorrect`: `Spec => []TracingTypeOK`.

Their invariant is one statement per analysis (`Local`), which no step of
another analysis touches (`Frame`): what the status of a session says of the
calls about its own run, and that nothing of it is unended but what is open or
abandoned. That the process is degraded for ever plays no part in it.

Four of the theorems are about progress: `JobsAdvance`, `CallsAdvance`,
`IntakeAdvances` and `AgentsAdvance`. Each has a measure, `Left`, of what a job,
a call, an attempt or an analysis still has before it, as a tuple of numbers
with the weightiest first: attempts before places in the code, gates before
steps before retries, stages before sources before requests. A step makes it
less in the order of tuples (`LessLeft`), and no step of anybody else makes it
more. As no such sequence goes down for ever, a job that is not stopped
(its worker waits, its queue is not looked at) comes to an end. What the
measures rest on is what the loops count to: that a round is begun only while
tries are left (`TriesLeft`), that a popped job has an attempt left
(`EnvelopeOfHeld`), that no more chunks and members are counted than there are
(`Counting`), that requests are sent `max_retries + 1` times (`Counted`). The
exceptions in the properties are what starts anew: a job submitted again, a
call made, a branch pushed (which changes nothing else).

`CollectionLemmas` holds what these proofs need of data. Induction over a
finite set is done through a least counterexample, from the library's theorem
that strict inclusion is well founded on the subsets of a finite set
(`LeastSubset`): so an order that is total has a first element (`FirstExists`),
every place of `InOrder` is taken (`InOrderType`), every value that occurs is in
`FirstValues` (`FirstValuesType`). A sum is the number of its units, pairs of an
index and a number up to its summand (`SumCounts`): it is a number, grows with
its summands, and by one summand with one index (`SumType`, `SumGrows`,
`SumAdds`).

Only model-checked: liveness under fairness (`FinishesUnlessStranded`,
`CallReturns`, `StreamCloses`, `IntakeEnds`, `AgentsEnd`), which is out of the
prover's reach. The progress theorems are the part of it that is not: that
nothing goes round in circles. `CallReturns`, `IntakeEnds` and `AgentsEnd` name
their progress property as their first conjunct, so their runs check it too;
what only the runs show is that some step is possible and taken until the end.
Every invariant and every action property of a passing run is a theorem.
`ApiTypeOK` is proved for every value of the constants and checked by no run.
Both refinements are theorems, that of JobLifecycle for queues whose
`complete_job` does not raise and whose jobs are submitted once.

## Not modelled

* Fixture mode: the branches of nodes that serve recorded answers to tests.
* The end of the API's process: records live in memory only, so nothing of a
  run is left but a history row that says `running`; no code resumes the
  checkpointed thread.
* The text of anything: rendering, prompts, logging, redaction, metrics, UI.
* The findings store and the delta endpoint (`services/findings_store.py`): as
  wired every call raises before it changes anything, so there is no state of
  the program to model; what would happen otherwise is not what the code does.
* The regex analyzer and the registry: nothing calls them in an analysis, as
  `scan_compatibility` builds the AST scanner itself.
* Semantic memory: embeddings that nothing but a prompt reads, and whose every
  failure is swallowed.
* The checkpointer: the code chooses one and LangGraph does the rest.
* The two attempts of one job, and two jobs of one thread, comparing themselves
  with each other: `JobQueue` has no findings, `RepositoryScan` no concurrency.
* Pure text work: manifest parsers, report rendering, request validation and
  settings, tokens of the login.

## Plan

*Done*: all modules above, with their runs and proofs. What is left, by what it
would add:

1. Two workers with the rows of their runs: `JobQueue` with findings, so that
   the delta of a retry, and of two jobs of one thread, can be stated.
2. The dispatch by `analyzer_kind` that ADR-0006 describes, as an abstract
   promise for `ScanFile`, once the node uses the registry.
3. The findings store, once its calls reach the database.
