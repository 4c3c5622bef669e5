------------------------------- MODULE HostRuns -------------------------------
(***************************************************************************)
(* The runs of one business in the desktop host: class Workbench of        *)
(* src/src/erp_harness/app/host.py.  A run is one worker process after     *)
(* another over the run's own action ledger, with approvals in between.    *)
(*                                                                         *)
(* The host handles a request, or an event of a worker, under one lock and *)
(* saves its state file before it lets the lock go; between a handler and  *)
(* that save, and before the worker of a run is started, the host may      *)
(* crash.  Workers and their ledgers go on meanwhile.                      *)
(*                                                                         *)
(* Abstractions.  A ledger row is its status and whether it has lapsed:    *)
(* ActionStore and NativeActions have the rest.  The rows of a run work on *)
(* different resources.  A worker does not outlive the host.  The business *)
(* keeps the goal it was confirmed with.                                   *)
(***************************************************************************)
EXTENDS Naturals, Sequences, FiniteSets

CONSTANTS
  MaxRuns,     \* bound: runs of the business
  MaxActions,  \* bound: rows of a run's ledger
  MaxPipe      \* bound: events of a worker the host has not read yet

ASSUME RunsAssumption == MaxRuns \in Nat /\ MaxActions \in Nat /\ MaxPipe \in Nat

Runs == 1 .. MaxRuns
Actions == 1 .. MaxActions
NoRun == 0

VARIABLES
  host,       \* "up", "closing" or "down"
  data,       \* StateStore.data: the host's state in memory
  disk,       \* the state file
  launching,  \* the run whose worker the handler is about to start
  procs,      \* _processes: runs with a worker the host has not collected
  worker,     \* the worker process of each run
  pipe,       \* its standard output, not read yet
  rows,       \* its ledger: the status of each row
  lapsed      \* its ledger: expires_at < now

vars == <<host, data, disk, launching, procs, worker, pipe, rows, lapsed>>
ledger == <<rows, lapsed>>

Waiting == {"pending_approval", "approved"}
Uncertain == {"executing", "sending", "needs_reconciliation"}
Done == {"verified", "known_failed"}
RowStatuses == {"none", "expired"} \cup Waiting \cup Uncertain \cup Done
Active == {"running", "awaiting_approval", "cancel_requested"}
Ended == {"completed", "failed", "cancelled", "interrupted", "awaiting_input"}
RunStatuses == {"absent", "needs_reconciliation"} \cup Active \cup Ended
Alive == {"boot", "running"}
\* An approval the host shows: "settled" stands for verified and known_failed,
\* "closed" for every way in which it was refused or has become void.
Cards == {"none", "pending_approval", "approved", "settled", "closed"}
\* What a worker prints: a proposed action, a tool that needs the user, the end
\* of a turn with stop reason "stop" or another.
Event(kind, a) == [kind |-> kind, action |-> a]
Events == {Event("proposed", a) : a \in Actions}
            \cup {Event(kind, 0) : kind \in {"handoff", "stop", "tools"}}

Data == [run : [Runs -> RunStatuses],
         pending : [Runs -> SUBSET Actions],
         approval : [Runs -> [Actions -> Cards]],
         stop : [Runs -> {"none", "cancelled", "interrupted"}],
         handoff : [Runs -> BOOLEAN],      \* run["handoff"]
         stopSeen : [Runs -> BOOLEAN],     \* last_stop_reason = "stop"
         touched : [Runs -> BOOLEAN],      \* model_rounds > 0 or tools
         active : Runs \cup {NoRun},       \* active_run_id, business and session
         business : {"ready", "blocked"} \cup RunStatuses,
         goalSubmitted : BOOLEAN]

TypeOK ==
  /\ host \in {"up", "closing", "down"}
  /\ data \in Data /\ disk \in Data
  /\ launching \in Runs \cup {NoRun}
  /\ procs \in SUBSET Runs
  /\ worker \in [Runs -> {"none", "exit0", "exit1"} \cup Alive]
  /\ pipe \in [Runs -> Seq(Events)]
  /\ rows \in [Runs -> [Actions -> RowStatuses]]
  /\ lapsed \in [Runs -> [Actions -> BOOLEAN]]

Init ==
  /\ host = "up"
  /\ data = [run |-> [r \in Runs |-> "absent"],
             pending |-> [r \in Runs |-> {}],
             approval |-> [r \in Runs |-> [a \in Actions |-> "none"]],
             stop |-> [r \in Runs |-> "none"],
             handoff |-> [r \in Runs |-> FALSE],
             stopSeen |-> [r \in Runs |-> FALSE],
             touched |-> [r \in Runs |-> FALSE],
             active |-> NoRun,
             business |-> "ready",
             goalSubmitted |-> FALSE]
  /\ disk = data
  /\ launching = NoRun
  /\ procs = {}
  /\ worker = [r \in Runs |-> "none"]
  /\ pipe = [r \in Runs |-> <<>>]
  /\ rows = [r \in Runs |-> [a \in Actions |-> "none"]]
  /\ lapsed = [r \in Runs |-> [a \in Actions |-> FALSE]]

-----------------------------------------------------------------------------
(* Helpers of the host.                                                    *)

Statuses(ledgerRows) == {ledgerRows[a] : a \in Actions} \ {"none"}

\* The lock is free and the last handler has saved.
Ready == host = "up" /\ disk = data /\ launching = NoRun
Collecting == host \in {"up", "closing"} /\ disk = data /\ launching = NoRun

Known(r) == data.run[r] # "absent"
ActiveRuns == {r \in Runs : data.run[r] \in Active}

\* Mutation: only live processes are looked at.
IdleButProcs(r) == procs = {}

\* _require_idle(except_run_id)
IdleBut(r) ==
  /\ procs = {}
  /\ ActiveRuns \subseteq {r}
  /\ data.active \in {NoRun, r}

\* Mutation: a write whose outcome is unknown counts as settled.
WritesKnownUnlessSending ==
  \A r \in Runs : Known(r) => "sending" \notin Statuses(rows[r])

\* _require_known_writes()
WritesKnown ==
  \A r \in Runs :
    Known(r) => data.run[r] # "needs_reconciliation" /\ Statuses(rows[r]) \cap Uncertain = {}

\* Mutation: only rows nobody has decided on are closed.
ClosedRowsUndecided(rr) ==
  IF Statuses(rr) \cap Uncertain # {} THEN rr
  ELSE [a \in Actions |-> IF rr[a] = "pending_approval" THEN "known_failed" ELSE rr[a]]

\* Mutation: the status of the approval is written to the row.
ClosedRowsAsShown(rr) ==
  IF Statuses(rr) \cap Uncertain # {} THEN rr
  ELSE [a \in Actions |-> IF rr[a] \in Waiting THEN "not_executed" ELSE rr[a]]

\* _finalize_run() of a run with the ledger rows rr.  While a write is uncertain
\* nothing is closed and the run needs reconciliation, whatever its worker did.
ClosedRows(rr) ==
  IF Statuses(rr) \cap Uncertain # {} THEN rr
  ELSE [a \in Actions |-> IF rr[a] \in Waiting THEN "known_failed" ELSE rr[a]]

\* Mutation: a claimed row is taken for one that was not sent.
FinalStatusUnsent(rr, s) ==
  IF Statuses(rr) \cap {"sending", "needs_reconciliation"} # {}
  THEN "needs_reconciliation" ELSE s

FinalStatus(rr, s) ==
  IF Statuses(rr) \cap Uncertain # {} THEN "needs_reconciliation" ELSE s

Finalized(d, r, rr, s) ==
  LET final == FinalStatus(rr, s)
      closed == ClosedRows(rr)
      settled(a) == final # "needs_reconciliation" /\ closed[a] \in Done
  IN  [d EXCEPT
         !.run[r] = final,
         !.stop[r] = "none",
         !.approval[r] = [a \in Actions |-> IF closed[a] # rr[a] /\ @[a] \in Waiting
                                            THEN "closed" ELSE @[a]],
         !.pending[r] = IF \A a \in @ : settled(a) THEN {} ELSE @,
         !.active = NoRun,
         !.business = final,
         !.goalSubmitted = IF final = "failed" /\ ~d.touched[r] THEN FALSE ELSE @]

Finalize(d, r, rr, s) ==
  /\ data' = Finalized(d, r, rr, s)
  /\ rows' = [rows EXCEPT ![r] = ClosedRows(rr)]

\* Marks the run as running, then _launch() starts a worker for it.
Activated(d, r) ==
  [d EXCEPT !.run[r] = "running", !.active = r, !.business = "running"]

Save ==
  /\ host # "down" /\ disk # data
  /\ disk' = data
  /\ UNCHANGED <<host, data, launching, procs, worker, pipe, rows, lapsed>>

-----------------------------------------------------------------------------
(* Starting and continuing a run.                                          *)

StartRun(r) ==
  /\ Ready
  /\ ~Known(r) /\ \A q \in Runs : q < r => Known(q)
  /\ data.business # "awaiting_input"
  /\ IdleBut(NoRun)
  /\ IF WritesKnown
     THEN data' = Activated(data, r) /\ launching' = r
     ELSE data' = [data EXCEPT !.business = "blocked"] /\ UNCHANGED launching
  /\ UNCHANGED <<host, disk, procs, worker, pipe, rows, lapsed>>

ResumeRun(r) ==
  /\ Ready
  /\ IdleBut(NoRun)
  /\ WritesKnown
  /\ data.run[r] \in {"interrupted", "failed", "cancelled"}
  /\ \A q \in Runs : Known(q) => q <= r
  /\ data.goalSubmitted /\ data.business # "awaiting_input"
  /\ Statuses(rows[r]) \subseteq Done
  /\ data' = Activated(data, r)
  /\ launching' = r
  /\ UNCHANGED <<host, disk, procs, worker, pipe, rows, lapsed>>

\* Mutation: the worker is started before the state is saved.
LaunchUnsaved ==
  /\ host = "up"
  /\ launching # NoRun
  /\ data' = [data EXCEPT !.goalSubmitted = TRUE]
  /\ procs' = procs \cup {launching}
  /\ worker' = [worker EXCEPT ![launching] = "boot"]
  /\ pipe' = [pipe EXCEPT ![launching] = <<>>]
  /\ launching' = NoRun
  /\ UNCHANGED <<host, disk, rows, lapsed>>

\* _launch(): _instruction() submits the goal once, then the worker is opened.
Launch ==
  /\ host = "up" /\ disk = data
  /\ launching # NoRun
  /\ data' = [data EXCEPT !.goalSubmitted = TRUE]
  /\ procs' = procs \cup {launching}
  /\ worker' = [worker EXCEPT ![launching] = "boot"]
  /\ pipe' = [pipe EXCEPT ![launching] = <<>>]
  /\ launching' = NoRun
  /\ UNCHANGED <<host, disk, rows, lapsed>>

LaunchFails ==
  /\ host = "up" /\ disk = data
  /\ launching # NoRun
  /\ Finalize(data, launching, rows[launching], "failed")
  /\ launching' = NoRun
  /\ UNCHANGED <<host, disk, procs, worker, pipe, lapsed>>

-----------------------------------------------------------------------------
(* The worker of run r: its ledger calls, its output and its end.          *)

SetRow(r, a, s) == rows' = [rows EXCEPT ![r][a] = s]
Busy(r) == \E a \in Actions : rows[r][a] \in {"executing", "sending"}
Runnable(r) == worker[r] = "running" /\ ~Busy(r)
CanPrint(r) == Len(pipe[r]) < MaxPipe
Emit(r, e) == pipe' = [pipe EXCEPT ![r] = Append(@, e)]
HostUntouched == UNCHANGED <<host, data, disk, launching, procs>>

\* The ledger is recovered before the first tool call.
Boot(r) ==
  /\ worker[r] = "boot"
  /\ worker' = [worker EXCEPT ![r] = "running"]
  /\ rows' = [rows EXCEPT ![r] = [a \in Actions |->
       CASE @[a] = "executing" -> IF lapsed[r][a] THEN "expired" ELSE "approved"
         [] @[a] = "sending" -> "needs_reconciliation"
         [] OTHER -> @[a]]]
  /\ HostUntouched /\ UNCHANGED <<pipe, lapsed>>

\* A write is registered, and the host told of it unless the call then fails.
Propose(r, a) ==
  /\ Runnable(r) /\ CanPrint(r)
  /\ rows[r][a] = "none" /\ \A b \in Actions : b < a => rows[r][b] # "none"
  /\ rows' = [rows EXCEPT ![r] = [b \in Actions |->
       IF b = a THEN "pending_approval"
       ELSE IF @[b] \in Waiting /\ lapsed[r][b] THEN "expired" ELSE @[b]]]
  /\ Emit(r, Event("proposed", a)) \/ UNCHANGED pipe
  /\ HostUntouched /\ UNCHANGED <<worker, lapsed>>

\* claim() of an approved row, or its expiry.
ClaimRow(r, a) ==
  /\ Runnable(r)
  /\ \/ rows[r][a] = "approved" /\ ~lapsed[r][a] /\ SetRow(r, a, "executing")
     \/ rows[r][a] \in Waiting /\ lapsed[r][a] /\ SetRow(r, a, "expired")
  /\ HostUntouched /\ UNCHANGED <<worker, pipe, lapsed>>

MarkRow(r, a) ==
  /\ worker[r] = "running"
  /\ rows[r][a] = "executing"
  /\ SetRow(r, a, "sending")
  /\ HostUntouched /\ UNCHANGED <<worker, pipe, lapsed>>

\* finish(): after the request, before it, or without one.
FinishRow(r, a) ==
  /\ worker[r] = "running"
  /\ \/ rows[r][a] = "sending" /\ \E s \in Done \cup {"needs_reconciliation"} : SetRow(r, a, s)
     \/ rows[r][a] = "executing" /\ SetRow(r, a, "known_failed")
     \/ ~Busy(r) /\ rows[r][a] \in Waiting \cup {"needs_reconciliation"} /\ SetRow(r, a, "verified")
  /\ HostUntouched /\ UNCHANGED <<worker, pipe, lapsed>>

\* A tool needs the user, or a turn ends: the model will go on.
Report(r, kind) ==
  /\ Runnable(r) /\ CanPrint(r)
  /\ Emit(r, Event(kind, 0))
  /\ HostUntouched /\ UNCHANGED <<worker, ledger>>

\* The last turn ends, and the process with exit code 0, unless what follows
\* the turn fails.
Exit(r, kind, code) ==
  /\ Runnable(r) /\ CanPrint(r)
  /\ Emit(r, Event(kind, 0))
  /\ worker' = [worker EXCEPT ![r] = code]
  /\ HostUntouched /\ UNCHANGED ledger

\* It is terminated, killed, or fails at any point.
Dies(r) ==
  /\ worker[r] \in Alive
  /\ worker' = [worker EXCEPT ![r] = "exit1"]
  /\ HostUntouched /\ UNCHANGED <<pipe, ledger>>

\* The clock passes expires_at of a row; of one that is past its claim nobody asks.
Lapse(r, a) ==
  /\ rows[r][a] \in Waiting \cup {"executing"} /\ ~lapsed[r][a]
  /\ lapsed' = [lapsed EXCEPT ![r][a] = TRUE]
  /\ HostUntouched /\ UNCHANGED <<worker, pipe, rows>>

-----------------------------------------------------------------------------
(* _consume_worker(): the host's thread for the worker of run r.           *)

\* _set_approval(): an approval already decided keeps its decision.
CardShown(d, r, a) ==
  IF d.approval[r][a] \in {"approved", "settled"} THEN d
  ELSE [d EXCEPT !.approval[r][a] = "pending_approval", !.pending[r] = @ \cup {a}]

AfterEvent(r, e) ==
  LET d == [data EXCEPT !.touched[r] = TRUE]
  IN  CASE e.kind = "proposed" -> CardShown(d, r, e.action)
        [] e.kind = "handoff" -> [d EXCEPT !.handoff[r] = TRUE]
        [] OTHER -> [d EXCEPT !.stopSeen[r] = (e.kind = "stop")]

Consume(r) ==
  /\ Collecting
  /\ r \in procs /\ pipe[r] # <<>>
  /\ data' = AfterEvent(r, Head(pipe[r]))
  /\ pipe' = [pipe EXCEPT ![r] = Tail(@)]
  /\ UNCHANGED <<host, disk, launching, procs, worker, rows, lapsed>>

\* Mutation: the ledger is not asked whether the approvals are still open.
OutcomeUnchecked(r) ==
  CASE data.stop[r] # "none" -> data.stop[r]
    [] worker[r] = "exit1" -> "failed"
    [] data.handoff[r] -> "awaiting_input"
    [] data.pending[r] # {} -> "awaiting_approval"
    [] data.stopSeen[r] -> "completed"
    [] OTHER -> "failed"

\* What the end of the worker means for its run.
Outcome(r) ==
  CASE data.stop[r] # "none" -> data.stop[r]
    [] worker[r] = "exit1" -> "failed"
    [] data.handoff[r] -> "awaiting_input"
    [] data.pending[r] # {} -> IF \A a \in data.pending[r] : rows[r][a] = "pending_approval"
                               THEN "awaiting_approval" ELSE "failed"
    [] data.stopSeen[r] -> "completed"
    [] OTHER -> "failed"

\* The pipe is drained and the process gone: the run ends, or waits.
Collect(r) ==
  /\ Collecting
  /\ r \in procs /\ pipe[r] = <<>> /\ worker[r] \in {"exit0", "exit1"}
  /\ procs' = procs \ {r}
  /\ worker' = [worker EXCEPT ![r] = "none"]
  /\ IF Outcome(r) = "awaiting_approval"
     THEN /\ data' = [data EXCEPT !.run[r] = "awaiting_approval",
                                  !.business = "awaiting_approval"]
          /\ UNCHANGED rows
     ELSE Finalize(data, r, rows[r], Outcome(r))
  /\ UNCHANGED <<host, disk, launching, pipe, lapsed>>

\* _refresh_after_completed_run(): Odoo does not show what the goal asked for.
ReadbackFails(r) ==
  /\ Ready
  /\ data.run[r] = "completed" /\ \A q \in Runs : Known(q) => q <= r
  /\ procs = {} /\ data.active = NoRun
  /\ data' = [data EXCEPT !.business = "awaiting_input"]
  /\ UNCHANGED <<host, disk, launching, procs, worker, pipe, ledger>>

-----------------------------------------------------------------------------
(* Approvals.                                                              *)

Decidable(r, a) ==
  /\ data.run[r] = "awaiting_approval" /\ r \notin procs
  /\ a \in data.pending[r] /\ data.approval[r][a] = "pending_approval"
  /\ rows[r][a] = "pending_approval"

\* All waiting rows the run shows are closed with the one decided on.
RowsRevoked(r) ==
  [a \in Actions |-> IF a \in data.pending[r] /\ rows[r][a] \in Waiting
                     THEN "known_failed" ELSE rows[r][a]]
CardsRevoked(r) ==
  [data EXCEPT !.approval[r] =
     [a \in Actions |-> IF a \in data.pending[r] /\ @[a] # "none" THEN "closed" ELSE @[a]]]

\* decide_approval("approve"): the last open approval continues the run.
Approve(r, a) ==
  /\ Ready /\ Decidable(r, a) /\ ~lapsed[r][a]
  /\ SetRow(r, a, "approved")
  /\ LET d == [data EXCEPT !.approval[r][a] = "approved"]
         open == {b \in d.pending[r] : d.approval[r][b] = "pending_approval"}
     IN  IF open # {} THEN data' = d /\ UNCHANGED launching
         ELSE data' = [Activated(d, r) EXCEPT !.pending[r] = {}] /\ launching' = r
  /\ UNCHANGED <<host, disk, procs, worker, pipe, lapsed>>

\* The record has changed since: nothing is approved and the run fails.
ApproveStale(r, a) ==
  /\ Ready /\ Decidable(r, a) /\ ~lapsed[r][a]
  /\ Finalize([data EXCEPT !.approval[r][a] = "closed"], r, rows[r], "failed")
  /\ UNCHANGED <<host, disk, launching, procs, worker, pipe, lapsed>>

\* decide_approval("reject"), or either decision on a lapsed row.
Refuse(r, a) ==
  /\ Ready /\ Decidable(r, a)
  /\ Finalize(CardsRevoked(r), r, RowsRevoked(r), "failed")
  /\ UNCHANGED <<host, disk, launching, procs, worker, pipe, lapsed>>

\* Mutation: the ledger is told only of the action the user asks to revise.
ReviseOne(r, a) ==
  /\ Ready /\ Decidable(r, a) /\ ~lapsed[r][a]
  /\ IdleBut(r)
  /\ WritesKnown
  /\ data' = Activated(Finalized(data, r, rows[r], "cancelled"), r)
  /\ SetRow(r, a, "known_failed")
  /\ launching' = r
  /\ UNCHANGED <<host, disk, procs, worker, pipe, lapsed>>

\* request_approval_revision(): what waits is revoked, the run continues.
Revise(r, a) ==
  /\ Ready /\ Decidable(r, a) /\ ~lapsed[r][a]
  /\ IdleBut(r)
  /\ WritesKnown
  /\ data' = Activated(Finalized(data, r, rows[r], "cancelled"), r)
  /\ rows' = [rows EXCEPT ![r] = ClosedRows(rows[r])]
  /\ launching' = r
  /\ UNCHANGED <<host, disk, procs, worker, pipe, lapsed>>

\* Mutation: the run is ended while its worker still runs.
CancelAtOnce(r) ==
  /\ Ready
  /\ data.run[r] \in {"running", "awaiting_approval"}
  /\ Finalize(data, r, rows[r], "cancelled")
  /\ UNCHANGED <<host, disk, launching, procs, worker, pipe, lapsed>>

\* Mutation: the worker is not told to stop.
CancelUntold(r) ==
  /\ Ready
  /\ data.run[r] \in {"running", "awaiting_approval"}
  /\ IF r \in procs /\ worker[r] \in Alive
     THEN /\ data' = [data EXCEPT !.run[r] = "cancel_requested",
                                  !.business = "cancel_requested"]
          /\ UNCHANGED rows
     ELSE Finalize(data, r, rows[r], "cancelled")
  /\ UNCHANGED <<host, disk, launching, procs, worker, pipe, lapsed>>

\* cancel_run(): a live worker is terminated and collected later.
Cancel(r) ==
  /\ Ready
  /\ data.run[r] \in {"running", "awaiting_approval"}
  /\ IF r \in procs /\ worker[r] \in Alive
     THEN /\ data' = [data EXCEPT !.stop[r] = "cancelled", !.run[r] = "cancel_requested",
                                  !.business = "cancel_requested"]
          /\ UNCHANGED rows
     ELSE Finalize(data, r, rows[r], "cancelled")
  /\ UNCHANGED <<host, disk, launching, procs, worker, pipe, lapsed>>

-----------------------------------------------------------------------------
(* Reconciliation.                                                         *)

\* reconcile_action(), or one step of reconcile_business(): the row is read
\* back, a verified one from the ledger, and the run released with its last.
Reconcile(r, a) ==
  /\ Ready
  /\ Known(r) /\ ActiveRuns = {} /\ procs = {}
  /\ data.approval[r][a] # "none"
  /\ rows[r][a] \in {"sending", "needs_reconciliation", "verified"}
  /\ \E s \in {"verified", "needs_reconciliation"} :
       /\ rows[r][a] = "verified" => s = "verified"
       /\ SetRow(r, a, s)
       /\ LET d == [data EXCEPT !.approval[r][a] = IF s = "verified" THEN "settled" ELSE "closed"]
          IN  data' = IF /\ s = "verified" /\ data.run[r] = "needs_reconciliation"
                         /\ Statuses([rows[r] EXCEPT ![a] = s]) \subseteq Done
                      THEN [d EXCEPT !.run[r] = "interrupted", !.business = "interrupted",
                                     !.active = NoRun, !.pending[r] = {}]
                      ELSE d
  /\ UNCHANGED <<host, disk, launching, procs, worker, pipe, lapsed>>

-----------------------------------------------------------------------------
(* The end of the host, orderly or not, and its next start.                *)

\* close(): active runs are marked, the workers terminated ...
CloseBegins ==
  /\ Ready
  /\ host' = "closing"
  /\ data' = [data EXCEPT !.stop = [r \in Runs |-> IF data.run[r] \in Active
                                                   THEN "interrupted" ELSE @[r]]]
  /\ UNCHANGED <<disk, launching, procs, worker, pipe, ledger>>

\* ... and, the workers dead, what has not been collected is recovered.
CloseEnds ==
  /\ host = "closing" /\ disk = data
  /\ \A r \in Runs : worker[r] \notin Alive
  /\ host' = "down"
  /\ procs' = {}
  /\ worker' = [r \in Runs |-> "none"]
  /\ pipe' = [r \in Runs |-> <<>>]
  /\ IF ActiveRuns = {} THEN UNCHANGED <<data, disk, rows>>
     ELSE \E r \in ActiveRuns :
            /\ Finalize(data, r, rows[r], "interrupted")
            /\ disk' = data'
  /\ UNCHANGED <<launching, lapsed>>

\* The host is lost at any point, and its worker with it.
HostCrash ==
  /\ host # "down"
  /\ host' = "down"
  /\ launching' = NoRun
  /\ procs' = {}
  /\ worker' = [r \in Runs |-> "none"]
  /\ pipe' = [r \in Runs |-> <<>>]
  /\ UNCHANGED <<data, disk, ledger>>

\* The saved state is loaded and _recover_on_start() ends what it shows active.
HostStart ==
  /\ host = "down"
  /\ host' = "up"
  /\ LET active == {r \in Runs : disk.run[r] \in Active}
     IN  IF active = {} THEN data' = disk /\ UNCHANGED rows
         ELSE \E r \in active : Finalize(disk, r, rows[r], "interrupted")
  /\ disk' = data'
  /\ UNCHANGED <<launching, procs, worker, pipe, lapsed>>

-----------------------------------------------------------------------------
Work(r) ==
  \/ Boot(r)
  \/ \E a \in Actions : Propose(r, a) \/ ClaimRow(r, a) \/ MarkRow(r, a) \/ FinishRow(r, a)
  \/ \E kind \in {"handoff", "tools"} : Report(r, kind)
  \/ \E kind \in {"stop", "tools"}, code \in {"exit0", "exit1"} : Exit(r, kind, code)

Requests(r) ==
  \/ StartRun(r) \/ ResumeRun(r) \/ Cancel(r)
  \/ \E a \in Actions : \/ Approve(r, a) \/ ApproveStale(r, a) \/ Refuse(r, a)
                        \/ Revise(r, a) \/ Reconcile(r, a)

Next ==
  \/ Save \/ Launch \/ LaunchFails
  \/ CloseBegins \/ CloseEnds \/ HostCrash \/ HostStart
  \/ \E r \in Runs :
       \/ Requests(r) \/ Consume(r) \/ Collect(r) \/ ReadbackFails(r)
       \/ Work(r) \/ Dies(r)
       \/ \E a \in Actions : Lapse(r, a)

Spec == Init /\ [][Next]_vars

\* A handler ends, a host thread reads its worker's output, and a worker told
\* to stop stops.
FairSpec ==
  /\ Spec
  /\ WF_vars(Save) /\ WF_vars(Launch \/ LaunchFails)
  /\ \A r \in Runs : /\ WF_vars(Consume(r)) /\ WF_vars(Collect(r))
                     /\ WF_vars(data.stop[r] # "none" /\ Dies(r))

-----------------------------------------------------------------------------
(* Properties.                                                             *)

\* No approval outlives its run: once the host shows a run as ended, no row of
\* its ledger can be executed any more (host.py:322-330).
NoLiveRowAfterEnd ==
  host = "up" =>
    \A r \in Runs : data.run[r] \in Ended => Statuses(rows[r]) \cap Waiting = {}

\* The exit of a process proves nothing (host.py:14): a run is shown as ended
\* only when no write of its ledger is uncertain.
EndedMeansKnown ==
  host = "up" =>
    \A r \in Runs : data.run[r] \in Ended => Statuses(rows[r]) \cap Uncertain = {}

\* The host shows awaiting_approval only with something the user can decide.
AwaitingIsDecidable ==
  host = "up" =>
    \A r \in Runs : data.run[r] = "awaiting_approval" => \E a \in Actions : Decidable(r, a)

\* At most one worker, of a run that a restart of the host would find active
\* and end, whatever of the present state has been saved (host.py:369-379).
WorkerIsAccounted ==
  \A r \in Runs : worker[r] \in Alive =>
    /\ r \in procs /\ disk.run[r] \in Active
    /\ \A q \in Runs \ {r} : worker[q] \notin Alive

\* The host has one run at a time that is running or waits (host.py:782-789),
\* also after requests that crossed the end of a worker.
OneActiveRun ==
  host = "up" => \A r, q \in ActiveRuns : r = q

\* Nothing is sent for a run the host shows as over or as waiting.
DispatchWhileRunning ==
  [][\A r \in Runs, a \in Actions :
       rows[r][a] # "sending" /\ rows'[r][a] = "sending"
       => data.run[r] \in {"running", "cancel_requested"}]_vars

\* A decision against an action stands: it is never claimed afterwards.
RefusedNeverClaimed ==
  [][\A r \in Runs, a \in Actions :
       data.approval[r][a] = "closed" /\ rows'[r][a] = "executing"
       => rows[r][a] = "executing"]_vars

\* A run does not begin while an earlier one has an uncertain write
\* (host.py:791-801).
NoRunOverUncertain ==
  [][\A r, q \in Runs :
       r # q /\ launching = NoRun /\ launching' = r
       => Statuses(rows[q]) \cap Uncertain = {}]_vars

\* A cancelled run comes to an end (host.py:2182-2198), unless the host does.
CancelSettles ==
  \A r \in Runs :
    host = "up" /\ data.run[r] = "cancel_requested"
    ~> host # "up" \/ data.run[r] \notin Active
-----------------------------------------------------------------------------
(* What the repository says and the code does not keep.                    *)

\* host.py:801, "business is blocked by an unresolved write; refresh and reconcile
\* first", and docs/interrupted-recovery.md:5, once it is reconciled the remaining
\* steps go on: a run that holds its business has an uncertain row that
\* reconciliation takes, or is released by reading a verified one back once more.
HeldIsReconcilable ==
  Ready => \A r \in Runs : data.run[r] = "needs_reconciliation" =>
    \/ Statuses(rows[r]) \cap {"sending", "needs_reconciliation"} # {}
    \/ "verified" \in Statuses(rows[r]) /\ Statuses(rows[r]) \subseteq Done
=============================================================================
