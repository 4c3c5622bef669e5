# Verification of the ERP agent

ERP-agent lets a language model operate an Odoo 19 database. The model proposes
business actions; a desktop user approves them one by one; a worker process sends
the approved ones to Odoo and reads the result back. What has to be right is not
the model's text but the machinery around it: an action is sent only with an
approval, at most once, never on top of another whose outcome is unknown, and
what the user is shown agrees with what was done, whatever crashes, expires, or
happens in an order nobody planned.

This directory holds TLA+ modules that model that machinery, TLC configurations
that check them on small instances, and proofs checked by TLAPS. All source paths
are relative to the repository; "actions.py", "store.py" and "host.py" are
`src/erp_harness/erp/actions.py`, `src/erp_harness/erp/store.py` and
`src/erp_harness/app/host.py`.

## 1. The system

### Components

| Component | State it keeps | Operations | Talks to | Correct when |
|---|---|---|---|---|
| Action ledger (`erp/store.py`) | one SQLite file per run, a row per action: status, key, resource, approval source, expiry, result | register, approve, claim, mark_sending, finish, recover_interrupted; reads | called by workers and by the host, from different processes | a row is dispatched at most once, with a trusted approval, one unresolved row per resource |
| Action execution (`erp/actions.py`, `erp/business_operations.py`) | none of its own; a call holds a snapshot of its row | validate_write, execute_approved_write, chatter_post, execute_method, reconcile | ledger, Odoo | one effect per approval; an unknown outcome is never repeated nor forgotten |
| Invoice mail (`erp/invoice_mail.py`) | prestate of a delivery in its row | branch of execute_method | ledger, Odoo | a delivery is not repeated because its text was reworded |
| Guards (`write_guards`, `purchase_allocation`, `invoice_eligibility`) | none | checks before a write | Odoo reads | refuse before anything is claimed |
| Odoo reads and client (`reads`, `gateway`, `_odoo_core`) | connections, schema cache, rate limit | JSON-2 calls | Odoo | an error that proves nothing is not taken for a refusal |
| Workbench host (`app/host.py`) | state in memory (`StateStore.data`), processes and consumer threads, a lock | start, resume, approve, revise, cancel, reconcile, close; events of workers | desktop (stdio), workers (pipes), ledgers, Odoo | shown status agrees with the ledger; one active run; a run ends, blocked or known |
| Conversation (`app/host.py`, `app/conversation.py`) | messages, proposals, conversation runs, the goals of businesses, marks of what was submitted to which run | send_message, proposals read from a worker, confirm_business, cancel_conversation, instructions of runs | workers, renderer | a goal covers all the user said for it; a run works on the confirmed goal; words are handed over once |
| State store (`app/storage.py`) | state file, notification queue, directory lock | save, event | host | a crash leaves the old or the new state |
| Worker (`app/runner.py`, `app/worker.py`) | the agent session of a business, its tools | one segment of a run | host (stdout), ledger, Odoo, model | prints what it did in order; recovers the ledger first |
| Agent runtime (`runtime/`) | messages in memory, a session file of entries that name their parent, queues | turns, tool batches, aborts, repairs, appends, load, compaction | model providers, tools | every call is answered once before the next request; what was said and what ran is in the file |
| Context and world (`context/`) | world state, projections | record tool results, compaction | session | evidence of a result not lost |
| Dynamic tools (`tools/`) | published tool set | select, publish | session | a tool is callable only when published |
| Memory (`memory/`) | learned notes | save, recall, learn | worker | off by default |
| Providers (`providers/`) | tokens, retry state, selector process | stream, refresh, retry | HTTP | a retry does not repeat output |
| Desktop client (`desktop/src/main`) | host process and generation, promises of a start and a stop, pending requests, settings | start, call, stop, terminate, save_settings, quit | host processes | one host at a time, on the settings of the file; no caller waits for nothing |
| Desktop renderer (`desktop/src`) | what it shows | requests of the user | desktop client | - |
| Benchmarks, experiments | - | - | - | not part of the program |

### How they interact

The renderer asks the host over stdio; the host handles one request at a time
under a lock and saves its state file on every event. `start_run` creates a run
and starts a worker process; a thread of the host (`_consume_worker`) reads the
worker's JSON lines under the same lock. The worker calls tools one after the
other; a write is *registered* in the run's ledger and reported as an approval
card. The worker then ends its turn and exits with code 0. The user decides; the
host writes `approve` to the ledger and starts another worker on the same session
and ledger, which *claims* the row, commits a *sending* marker, sends the request,
and *finishes* the row with what the read-back shows. Ledger and state file are
two stores with no common transaction, written by two processes.

### What is hard

- **Crash between marker and answer.** After `mark_sending` nobody can know
  whether Odoo acted; the row may only be read back.
- **Two stores.** The host can be lost between a ledger transaction and the save
  of its state, or between the save and the start of the worker.
- **The end of a worker.** Exit, pipe and consumer thread are three things; requests
  of the user come between them.
- **Expiry.** An approval lapses between the decision, the launch and the claim.
- **Keys that move.** An action's key contains the state it was validated against;
  the action changes that state, so the same intent has another key afterwards.
- **Unconditional `finish`.** It writes what the caller saw earlier.
- **Marks before a worker exists.** Goal and messages count as submitted from the launch
  on; what takes the mark back is one way of ending among many.
- **A proposal is decided late.** It is made of what the user had said when its
  conversation began, and confirmed after other words, goals and runs.
- **Start, stop and settings cross.** The desktop awaits files, timers and the end of
  processes in all three; each can begin between two awaits of another.
- **An append that fails may have been written.** The history in memory goes on; the file
  follows later, in an order its parents have to keep.
- **A batch that is cut.** A cancel, a consumer that goes away or the end of the process
  can fall between any two of a batch's calls and results.

`PROJECT.json` lists each hazard at its line, with the property that covers it
or the reason why none does yet.

## 2. The modules

### ActionContract - what the ledger promises

The abstract specification: each row is absent, proposed, granted, dispatched or
retired; a granted row is dispatched at most once, one dispatch per step, and
dispatched and retired are final.

### ActionStore - `erp/store.py`

One action per method that changes a row. A method runs in one `BEGIN IMMEDIATE`
transaction and is one step. Rows are numbered in order of insertion;
`status`, `key`, `resource`, `source`, `hasResult` are columns, `lapsed` stands for
`expires_at < now`, `sent` is a history variable (a marker was ever committed).
`StoreNext` is a client that calls anything in any order, restricted where every
caller in the repository is: `finish` is called with the statuses the callers pass.
The refinement mapping `Phase` makes it an implementation of ActionContract.

### NativeActions - `erp/actions.py` against Odoo

Worker processes, the host and Odoo over one ledger. A tool call is a sequence of
steps, cut at each Odoo request and each ledger transaction, where others can act;
`cur` and `snapResult` are the row as read at the start of the call, which the code
too keeps as a stale copy. `KindOf` distinguishes six kinds of action by how they
are keyed, found again and verified: write, create, chatter, method with a known
final state, one-shot wizard, other business method. A process may crash between
any two steps (`Crash`); a request may be lost before or after it commits; others
edit the same records; approvals lapse. Workers are started by the host when none
is known to it; with `Orphans` a worker may outlive its host, as after a kill of the
host process alone.

Odoo is external: `record` is the last intent that wrote a record, `inflight` the
requests of a row on the network, `effects` how often its write was committed.

Refusals that change nothing (identity, policy, token, switch, stage, failing
reads) are one action, `Refuse`. Left out: invoice mail, the comparison of fields in
`_verify`, canonical forms of payloads. `ActionStore` is used by EXTENDS, so
each ledger step is literally a ledger action.

### HostRuns - `app/host.py`

The runs of one business: host state in memory (`data`) and on disk, the processes
the host knows, per run a worker, its unread output and its ledger. A handler is one step under
the lock; the save is the next (`Save`; a handler that emits several events saves with each,
the model has the last of these), and `_launch` is a third (`Launch`,
`LaunchFails`), with crashes possible between them. `Collect` is the end of
`_consume_worker`: it computes what the end of the worker means (`Outcome`) and
finalizes the run against its ledger (`Finalized`, `ClosedRows`, `FinalStatus`).
`close()` is split in two (`CloseBegins`, `CloseEnds`), because consumers still run
while the workers are being terminated.

Abstractions: a ledger row is its status and whether it has lapsed, its details are
in the two modules above; the rows of a run work on different resources; the
goal and the words of a run are left to Conversation; a worker does not outlive the host
(NativeActions has the other case); the ledger file is neither lost nor unreadable;
the watchdog of a worker is one of the ways in which it dies, for the desktop sets no
timeout; a status set without an event (`blocked`) is saved like the others; a consumer
that is still busy one second after `close()` began is not modelled.

### HostClient - `desktop/src/main/host.ts`, with `index.ts` and `settings.ts`

The desktop's main process is single threaded, so a step runs from one await to the next;
the host processes it spawned run beside it and are external: they boot, take the lock of
the data directory or end, answer in order, crash, and end with their input. `client` holds
the fields of `HostClient` and where each of its callers is: the window's requests, the
health request `start()` makes itself, and the three of saving settings. `Enter` is
`ensureStarted()` with the request that follows it, `Stopped` is `stop()` up to its first
await. `Becomes` gives the requests a step writes. A termination is two waits (input
ended, then killed), each of which may time out. What a host does after the application
has ended is not looked at.

### Conversation - the goals of `app/host.py`

One session: the user's words, the proposals made of them, the confirmed goals of the
businesses, and what each run was given. Handlers are steps under the host's lock. A
message is named by its position; a goal is the position of the confirmed proposal. `told`
is what the model session of a business holds, `run[r].words` what the instruction file of a
run says. Of a run it keeps its status and what its model was told; its ledger, its
approvals and a crash between a launch and its save are in HostRuns, so an end may be any
that the ledger permits (`Outcomes`), and `Restart` is an orderly `close()` or a crash after
a save. Left out: materials, connection checks, duplicates of streamed text, and
references of a proposal, which is shown or dropped.

### AgentSession - `runtime/loop.py`, `harness.py`, `tool_history.py`, `session.py`

One session of the agent runtime on its event loop. `log` has every message ever made;
memory (`mem`), file (`store`) and the run name them by position. `run.out` holds the
messages that are published, and so saved, before the run goes on: `Publish` saves one, and
an append may fail before or after the line was written. `Context` is what the next request
is made of, `Path` what a load finds, `Restart` a load with the repair and the branch
it appends. Left out: `max_turns`, compaction, hooks and transformed contexts, deferred writes,
a retry after a failure of the harness itself, and a repair whose own append fails.

Mutated definitions (comments that begin with "Mutation:") stand next to the
definitions they mutate. They are not used by any specification; each shows
that a property fails when the code is changed that way.

## 3. What the runs check

| Run | Instance | Properties | Result |
|---|---|---|---|
| ledger | 2 rows, 2 keys, 2 resources, symmetric | StoreTypeOK, SentNeverRearmed, InFlightExclusive, SendIsAuthorised, KeepsContract | pass, 21 thousand states |
| writes_and_creates | 2 rows, 1 worker, a write and a create on one record | TypeOK, OneEffectPerApproval, FailedHasNoEffect, AppliedOncePerKey, VerifiedCreateHappened, UncertainOnlyReadBack | pass, 378 thousand |
| methods | 2 rows, 1 worker, a wizard and a method | MethodSentOnce, CallReturns | pass, 690 thousand |
| host_run | 1 run, 2 actions, 2 unread events | TypeOK, NoLiveRowAfterEnd, EndedMeansKnown, AwaitingIsDecidable, DispatchWhileRunning, RefusedNeverClaimed, CancelSettles | pass, 1.6 million |
| host_two_runs | 2 runs, 1 action each, 1 unread event, nothing lapses | WorkerIsAccounted, OneActiveRun, NoRunOverUncertain | pass, 1.9 million |
| client | 2 requests of the window, one change of settings, the end of the application | TypeOK, OneHostProcess, ServesCurrentSettings, StoppedMeansGone, SavingSparesRuns, WaitsAreFounded | pass, 2.9 million |
| conversation | 2 conversations, 2 businesses (one from an older state file), 2 runs, 1 note, 2 proposals | TypeOK, GoalsCoverTheirWords, OneGoalPerConversation, GoalIsNewest, RunsWorkTheConfirmedGoal, HandedOnce, SessionNamesItsJob | pass, 5.0 million |
| agent | 2 calls, 2 requests, 2 prompts, 1 queued message, 2 troubles | TypeOK, RequestIsPaired, SavedIsMemory, RanIsRecorded | pass, 2.1 million |
| orphan_failure | 1 row, 2 workers at once | FailedHasNoEffect | violated |
| host_unresolved | 1 run | HeldIsReconcilable | violated |
| client_stop | 1 request, fair | QuitEnds | violated |
| conversation_goal | 1 business, 1 conversation, 2 runs | SubmittedIsTold | violated |

**Bounds.** Two rows are what a conflict needs (one unresolved, one new, on one resource or
key); a third only repeats one of them. Two workers at once are needed for a stale snapshot
to meet another's progress, and each may be started again after a crash, so "two" bounds
workers alive, not segments. Two runs are needed for a run that follows another; two actions
of one run for an approval next to another and for a revision; two unread events for a
proposal followed by the end of a turn. `effects` and `inflight` are not bounded by a guard:
the properties bound them. Two requests of the window are a start and a caller that joins
it, or one that comes after a stop; with the three of saving they can start four hosts, one
after the other. Two conversations give a proposal that is overtaken by another and a goal
that is revised; two runs words that go to the second when the first came to nothing. A
trouble of `agent` is a cancel, a closed consumer, a failing append or a restart: two of
them combine each with each, for instance an append that failed with the restart after it.
In `host_two_runs` nothing lapses, because the properties of several runs ask no row of its
age; expiry is covered by `host_run`.

**Fairness.** `CallReturns` assumes that a live process goes on with its call
(`WF(Advance)`): Odoo requests end by a reply or by the client's timeout, and ledger
transactions end. It assumes nothing of Odoo, nor that a process stays alive.
`CancelSettles` (run under `FairSpec` of HostRuns) assumes that a handler ends and saves,
that a consumer thread reads its worker's pipe, and that a worker that was terminated dies
(`proc.terminate()`, then end of file on its output). `QuitEnds` is refuted under weak
fairness of the client's own steps: files are read or fail, and timers fire; nothing is
assumed of hosts. The other modules state safety only: a model provider may never answer and
a user never decide.

### Disagreements found

Each of these runs checks one statement of the repository and TLC finds it violated.

- **host_unresolved** (`HeldIsReconcilable`). A run that holds its business back should have
  something the user can reconcile. A worker that dies between claim and marker leaves
  `executing`: the host counts it as an unresolved write and says "refresh and reconcile
  first", and reconciliation refuses it; the ledger's recovery would have re-armed it, but no
  worker is started on that ledger any more. The same end is reached when the uncertain
  write of a run is verified while another of its rows waits or has expired:
  `_finalize_run` closes no row then, and no later request does.
- **client_stop** (`QuitEnds`). `start()` compares its generation once, before it awaits the
  data directory. A quit in that gap waits for the start, the start spawns its host and asks
  it for its health, and that call waits for the stop: neither ends and the application
  stays (host.ts:122, 80-98; index.ts:334-337).
- **conversation_goal** (`SubmittedIsTold`). Only a run that *failed* before its first round
  gives back the marks on goal and words. One that was cancelled, or caught by the end of
  the host, before its worker had prompted keeps them; the next run works on the business
  with a model that was never told the goal.
- **orphan_failure** (`FailedHasNoEffect` with `Orphans`). The host reads a row and
  closes it in another transaction, and `finish` takes any status: what an orphaned worker
  sent in between is recorded as `known_failed`, "run ended before this action executed".
  Without orphans the property holds (writes_and_creates).

Met while modelling, and not the subject of a run:

- A run cancelled between the exit of its worker and its collection is shown as cancelled and
  then overwritten (host.py:2191); the properties of HostRuns hold for both statuses.
- A later run that fails to launch clears `goal_submitted`, and the goal an earlier run worked
  on is submitted again (host.py:353).
- `RequestIsPaired` excepts three histories (`Clean`). When an answer failed or was
  aborted after it had begun calls, results made for these calls stay although the answer
  is left out (tool_history.py:72-78, harness.py:412-416). And when a batch was cancelled
  between two calls, the missing result can be made twice, once after a queued
  message or at a load and once at the end of the run (tool_history.py:69-78,
  loop.py:652-653, harness.py:336-341). And when an append and its repetition both failed,
  an entry under a parent that is not in the file hides an answer from a load, which then
  keeps the results of its calls (session.py:3558-3631, 4493, tool_history.py:69-78).
- An append that failed before it was written, followed by the end of the process, leaves
  later entries under a parent that is not in the file; a load finds nothing before them
  (session.py:4493). `SavedIsMemory` speaks of a session with no unfinished write.
- A sequential tool that runs is waited for when its run is cancelled (loop.py:643), and
  parallel ones that were prepared before the cancel still start (loop.py:674-690).

## 4. What is proved

Each theorem holds for every value of the constants, any number of rows, keys, resources,
workers, intents, businesses, conversations, runs, words, proposals, requests, hosts, calls and
messages, from
the assumption on the constants that its model names (`StoreAssumption`,
`ActionAssumption`, `RunsAssumption`, `ConversationAssumption`, `ClientAssumption`,
`SessionAssumption`) and nothing else, unless it says so below. The inductive invariants were checked by TLC before
they were proved, on the constants of the runs.

**The ledger** (`ActionStore_proofs`).

- `StoreTyped`, `SentStaysOut`, `OneInFlightPerResource`, `SendsAreAuthorised`: the
  invariants of the ledger. `SentStaysOut` needs that only `MarkSending` sets the
  marker and that recovery re-arms `executing` only. `OneInFlightPerResource` is
  inductive together with the type invariant: `claim` is the only way into the set
  and tests the whole of it in its transaction.
- `LedgerKeepsContract`: ActionStore implements ActionContract. Initial states map
  to initial states, and each step changes the phase of a row by a move of the
  contract; the strengthening is again type and `SentNeverRearmed`, which exclude a
  way back from dispatched.

**A call** (`NativeActions_proofs`).

- `NativeTyped`, and `NativeUsesLedger`: every behaviour of NativeActions is, on
  the ledger's variables, a behaviour of ActionStore. All ledger theorems hold of it
  through this one.
- `OneEffect`: at most one effect in Odoo per approved row, orphans and crashes
  included. The inductive invariant counts: a row's effects and requests in flight,
  plus one for a process that has committed the marker and not sent yet, never exceed one, and
  are zero while the row was never marked. `claim` and `mark_sending` being
  conditional on the status makes the process past the marker unique.

- `CreateHappened`: a row reported as a verified creation has an effect in Odoo, orphans
  included. An id is stored, or about to be, only of a creation that happened (`CreateKnown`).
- `FailedWithoutEffect`, `OncePerKey`, `MethodOnce` and the action property `UncertainStays` have
  the hypothesis `~Orphans`: no worker outlives its host, as in the passing runs. The
  hypothesis is needed: `orphan_failure` has `FailedHasNoEffect` violated without it.
  With it one process at a time is in a call (`Alone`), so the row it works on changes
  under its hands alone, and what it concluded still fits the row when `finish` writes it
  (`CallsIInv`). `OncePerKey` needs besides that of two rows
  of a key one is closed for good, without effect and with nothing on its way (`KeyOnce`).

**Runs and approvals** (`HostRuns_proofs`, `HostApprovals_proofs`).

- `HostTyped`, `NoLiveRows`, `EndedKnown`, `WorkersAccounted`, `OneActive`: the state
  invariants of HostRuns, crashes, cancellations and crossing requests included. None of
  them is inductive alone: that a run shown as ended has no live row needs that nobody
  else can touch its ledger. The inductive invariant `IInv` says who may: the host knows
  every worker (`ProcsKnown`); a run with a worker, or about to get one, is the only one
  that can be active (`OneOwner`); a live worker's run is active in memory *and* in the
  state file (`WorkersActive`), so that a host which starts over finds it; the status of
  each run, in memory and on disk separately, fits its ledger (`LedgersFit`); and while
  a run is active the others have no uncertain write (`OthersKnown`). The lemma
  `FinalizeStep` carries most of it: five of the handlers end in `_finalize_run`.
- `DispatchedRunning`, `NoneOverUncertain`: action properties from the same invariant.
  The first needs that only `mark_sending` makes a row `sending` (`OnlyMarkSends`).

- `AwaitingHasADecision`: a run that waits for the user waits for an approval that the ledger
  still has open. An approval is kept in the ledger, the host's memory and the state file;
  `ApprovalsInv` says which may run ahead of which: what the host was told of is in the
  ledger, what it shows as open is open there as long as the run has a worker or is active,
  and what a user decided against, in memory or on disk, can no longer be claimed.
- `RefusalStands`: what was refused is never claimed, over restarts too. The ledger is written
  before the memory, and the memory before the file, so a crash in between forgets a
  display and never a refusal.

**Conversation and goals** (`Conversation_proofs`).

- `ConversationTyped` and `JobNamed`: an active run or conversation is the job that the session
  names. `OneJob` strengthens it: one process at most is known, and it is that job's.
- `ConversationMakesOneGoal`, `NewestGoal`, `WordsReachTheGoal`: the proposals of a conversation
  and their sources are ordered as the messages are (`TalkInv`). Since no user speaks
  between the start of a conversation and its proposals, and a goal is confirmed only while
  the last words are among its sources, the goals of a business are confirmed in the order in
  which they were proposed, and each covers the words of the one before.
- `RunsServeTheGoal`, `WordsHandedOnce`: a run works on the goal confirmed last, and a word is
  handed to a model session once. The words a run was given carry its mark; it is
  taken back only of a run that failed before its model was told anything, and that is not
  resumed (`RunInv`).

**The client of the host** (`HostClient_proofs`).

- `ClientTyped`, `OneHost`, `CurrentSettings`, `StoppedIsGone`, `WaitsFounded` and the action
  property `RunsSpared`. The steps of the client are compositions (a reply may save, which
  stops, which rejects, which lets others enter), so each piece has a lemma that says where it
  leaves the client. The inductive invariant is a conjunction of five: how `start`, `stop` and the
  health request stand to each other and to the current host (`Standing`); whom each
  caller waits for (`Founded`): a request is pending at one host at most, and nobody
  waits for a stop that is over; which processes can be alive, the current one or the one that
  is being terminated (`Tracked`); what each phase of saving may rely on (`Saving`,
  `Current`); and that the question of saving whether a run is active is answered after
  every request that could start one (`Asked`: pipes are read in order). When the
  application has ended only the bound on hosts is kept.

**A session of the agent** (`AgentSession_proofs`, `SessionRequests_proofs`).

- `SessionTyped`, `Recorded`: a tool is entered only for a call of a complete answer that is in
  the session file, and no result ever says of it that it was refused or cut off. The
  inductive invariant `IInv` adds to both: the file is a tree whose entries stand under older
  ones, and what a run has still to publish is newer than its entries or was tried already
  (`Filed`); no answer of an earlier request has the number of the next one (`Turns`); and
  how far a batch has come, by which of its calls are prepared, denied, entered and done
  (`Batch`, with `Fails` for a run that is over because saving failed). `Batch` carries it: a
  call gets its result from the batch it belongs to, or, once the batch is cut, from a repair,
  which only says "missing" or "interrupted".
- `FileFollowsMemory`: at rest, with every write finished, a load of the file brings back what
  the session has in memory, in the same order, over failing appends, repeated and late
  publications, repairs and restarts. The file is read along the parents of its last entry, so
  it is not enough to know the two histories at rest. The inductive invariant (`Remembers`)
  says what each path tells (`Telling`: its conversational entries, without the answers
  that are skipped): the path to the next entry's parent, to the last entry and to every
  unfinished write tells what memory tells, and while a write is unfinished nothing but it, or
  a message that tells nothing, is published. That every telling message in memory has an entry, and
  that the last message is the answer at hand or the failed one a retry drops, is what each
  step needs of the one before.
- Histories are made by recursive functions. That `Repair` returns messages it was given and
  missing results, `Path` entries of the file, no entry twice, and `Within` elements of the set
  asked for, and that a path grows by what is appended, is shown by induction over the natural
  numbers, stated for the set of the lengths at which the claim fails: it has no least
  element.

- `HistoryIsRepaired`: what `Repair` computes of a history in order (`Orderly`: a turn made
  one answer, a call has at most one result, and a result stands behind its answer with
  nothing but results of it between) is paired in the sense of `RequestIsPaired`. By induction
  over the messages the repair has taken, what it has put out is in order and only the calls
  of the answer at hand are open (`SoFar`); that the results behind an answer with n calls fill
  the n places is a counting argument.
- `RequestsArePaired`: each request pairs calls and results. Since the repair needs a history in
  order, the inductive invariant (`Mended`) says that histories are in order, as long as the
  session is `Clean`; a step cannot make a session clean again, so this is inductive. Of memory
  (`Pairs`): the history is in order and only the calls of its last answer are open
  (`InOrder`); what is on its way to it is newer, and is the result of an open call or comes
  when none is open (`Fitting`); the open calls without a result on its way are those the
  batch has not come to, and none at the end of a turn unless the run was cancelled
  (`Phased`); and an unfinished write is of a message in memory, a queue holds only what was
  queued, a late answer is of a cancelled run (`Steered`).
- A load makes memory of the file, so the file needs as much. A clean session that is loaded
  was not cancelled and has had one failing append at most (`Loadable`). The path to every
  entry that a load or the next append can start from holds, of messages that did not
  fail, only what memory holds, and no failed answer between a result and its answer; under a
  failed answer would hang results that a load hides (`Routed`). The one message whose append
  failed is alone unfinished, and is saved before its run ends (`Saving`). So a load before that
  finds either the whole path or, where the unfinished entry is missing, what is behind it,
  newer than all that is lost (`CutPath`); the repair made of it is published like any other
  message. The three exceptions of `Clean` are where these invariants fail; the third was found
  by this proof, and TLC confirmed it.

**Left to TLC.** Liveness (`CallReturns`, `CancelSettles` and `QuitEnds`): fairness is outside the
prover's reach. The violated statements.

## 5. Not modelled, and the plan

The modules above are done, with a theorem for every safety property that a passing run
checks.

Not modelled, though it has state that could be: the branch of action execution for invoice
mail (on the same ledger, so the ledger's theorems hold of it; its search through the
messages of an invoice is not); the read-back of a completed business in two phases
(`ReadbackFails` of HostRuns has it as one step); the replacement of the state file
(one step, `Save`); request receipts, whose limit only refuses; compaction, branches made by
the user and deferred writes of a session; publication of dynamic tools; rate limit
and schema cache, inside one process.

Not planned: parsing and presentation (materials, views, exports), knowledge
search and capability ranking, wire formats of providers, the renderer,
hooks and extensions of the embedded runtime, benchmarks and experiments. They are
pure functions, I/O, or not part of the program.

## 6. Running

    tlc -config HostRuns.cfg HostRuns
    tlc -config NativeActions.cfg MCNativeActions
    tlc -config Conversation.cfg Conversation
    tlapm HostRuns_proofs.tla
    tlapm HostClient_proofs.tla
    tlapm AgentSession_proofs.tla
    tlapm SessionRequests_proofs.tla

A configuration runs the module that PROJECT.json names for it.
