---------------------------- MODULE HostRuns_proofs ----------------------------
(***************************************************************************)
(* Theorems about the runs of a business, for any number of runs, actions  *)
(* and unread events.  The argument rests on who may touch what: a worker  *)
(* belongs to the one run that is active in memory and on disk, so the     *)
(* ledger of every other run stays as the host left it.                    *)
(***************************************************************************)
EXTENDS HostRuns, TLAPS

\* The ledger of a run that has ended, and of one that has not begun.
Settled(rr) == Statuses(rr) \cap (Waiting \cup Uncertain) = {}
Unstarted(rr) == \A a \in Actions : rr[a] = "none"

\* The host knows every worker; it starts none once it closes, and none is left
\* when it is down.
ProcsKnown ==
  /\ \A r \in Runs : worker[r] # "none" <=> r \in procs
  /\ host # "up" => launching = NoRun
  /\ host = "down" => procs = {}

\* A run with a worker, or about to get one, is the only one that can be active.
OneOwner ==
  host # "down" =>
    /\ \A r \in procs, q \in Runs : q \in procs \/ data.run[q] \in Active => q = r
    /\ launching # NoRun => /\ data.run[launching] = "running"
                            /\ procs = {}
    /\ \A r, q \in ActiveRuns : r = q

\* A live worker's run is active, in memory and on disk.
WorkersActive ==
  \A r \in Runs : worker[r] \in Alive =>
    /\ data.run[r] \in {"running", "cancel_requested"}
    /\ disk.run[r] \in Active

\* The status of each run, in memory or on disk, fits the ledgers.
LedgersFit(run, led) ==
  /\ \A r \in Runs : run[r] \in Ended => Settled(led[r])
  /\ \A r \in Runs : run[r] = "absent" => Unstarted(led[r])
  /\ \A r, q \in Runs : run[r] \in Active /\ run[q] \in Active => r = q

\* While a run is active, or its worker not collected, the others have no
\* uncertain write.
OthersKnown ==
  host # "down" =>
    \A r, q \in Runs : (r \in procs \/ data.run[r] \in Active) /\ q # r
                      => Statuses(rows[q]) \cap Uncertain = {}

IInv ==
  /\ TypeOK /\ ProcsKnown /\ OneOwner /\ WorkersActive
  /\ host # "down" => LedgersFit(data.run, rows)
  /\ LedgersFit(disk.run, rows)
  /\ OthersKnown

-----------------------------------------------------------------------------
(* What the host's helpers return.                                         *)

Ledgers == [Actions -> RowStatuses]

\* A ledger the host has closed is of its type, and no action of it is open
\* unless one is uncertain.
LEMMA ClosedFacts ==
  ASSUME NEW rr \in Ledgers
  PROVE  /\ ClosedRows(rr) \in Ledgers
         /\ Statuses(ClosedRows(rr)) \cap Uncertain = Statuses(rr) \cap Uncertain
         /\ Statuses(rr) \cap Uncertain = {}
            => Statuses(ClosedRows(rr)) \cap (Waiting \cup Uncertain) = {}
         /\ Statuses(rr) \cap (Waiting \cup Uncertain) = {} => ClosedRows(rr) = rr
<1> USE DEF Ledgers, ClosedRows, Statuses, Waiting, Uncertain, Done, RowStatuses
<1>1. CASE Statuses(rr) \cap Uncertain # {}
  BY <1>1
<1>2. CASE Statuses(rr) \cap Uncertain = {}
  BY <1>2
<1> QED
  BY <1>1, <1>2

\* What _finalize_run() does to the host's state.
LEMMA FinalizedFacts ==
  ASSUME NEW d \in Data, NEW r \in Runs, NEW rr \in Ledgers, NEW s \in Ended
  PROVE  /\ Finalized(d, r, rr, s) \in Data
         /\ Finalized(d, r, rr, s).run = [d.run EXCEPT ![r] = FinalStatus(rr, s)]
         /\ FinalStatus(rr, s) \in Ended \cup {"needs_reconciliation"}
         /\ FinalStatus(rr, s) \in Ended => Statuses(rr) \cap Uncertain = {}
<1>1. /\ FinalStatus(rr, s) \in Ended \cup {"needs_reconciliation"}
      /\ FinalStatus(rr, s) \in Ended => Statuses(rr) \cap Uncertain = {}
  BY DEF FinalStatus, Ended
<1> DEFINE final == FinalStatus(rr, s)
           closed == ClosedRows(rr)
           shown == [a \in Actions |-> IF closed[a] # rr[a] /\ d.approval[r][a] \in Waiting
                                       THEN "closed" ELSE d.approval[r][a]]
           settled(a) == final # "needs_reconciliation" /\ closed[a] \in Done
           left == IF \A a \in d.pending[r] : settled(a) THEN {} ELSE d.pending[r]
           goal == IF final = "failed" /\ ~d.touched[r] THEN FALSE ELSE d.goalSubmitted
<1>2. Finalized(d, r, rr, s) =
        [d EXCEPT !.run[r] = final, !.stop[r] = "none", !.approval[r] = shown,
                  !.pending[r] = left, !.active = NoRun, !.business = final,
                  !.goalSubmitted = goal]
  BY DEF Finalized, Data
<1>3. final \in RunStatuses
  BY <1>1 DEF RunStatuses
<1>4. shown \in [Actions -> Cards] /\ left \in SUBSET Actions /\ goal \in BOOLEAN
  BY ZenonT(40) DEF Data, Cards
<1> HIDE DEF final, shown, left, goal
<1>5. Finalized(d, r, rr, s) \in Data
  <2>1. /\ [d.run EXCEPT ![r] = final] \in [Runs -> RunStatuses]
        /\ [d.stop EXCEPT ![r] = "none"] \in [Runs -> {"none", "cancelled", "interrupted"}]
        /\ [d.approval EXCEPT ![r] = shown] \in [Runs -> [Actions -> Cards]]
        /\ [d.pending EXCEPT ![r] = left] \in [Runs -> SUBSET Actions]
    BY <1>3, <1>4 DEF Data
  <2>2. Finalized(d, r, rr, s) =
          [d EXCEPT !.run = [d.run EXCEPT ![r] = final],
                    !.stop = [d.stop EXCEPT ![r] = "none"],
                    !.approval = [d.approval EXCEPT ![r] = shown],
                    !.pending = [d.pending EXCEPT ![r] = left],
                    !.active = NoRun, !.business = final, !.goalSubmitted = goal]
    BY <1>2 DEF Data
  <2> QED
    BY <1>3, <1>4, <2>1, <2>2 DEF Data
<1>6. Finalized(d, r, rr, s).run = [d.run EXCEPT ![r] = final]
  BY <1>2 DEF Data
<1> QED
  BY <1>1, <1>5, <1>6 DEF final

\* What continuing a run does to the host's state.
LEMMA ActivatedFacts ==
  ASSUME NEW d \in Data, NEW r \in Runs
  PROVE  /\ Activated(d, r) \in Data
         /\ Activated(d, r).run = [d.run EXCEPT ![r] = "running"]
  BY DEF Activated, Data, RunStatuses, Active

-----------------------------------------------------------------------------
(* Types.                                                                  *)

LEMMA TypedInit == Init => TypeOK
  BY DEF Init, TypeOK, Data, RunStatuses, RowStatuses, Cards, NoRun

\* A handler that finalizes a run.
LEMMA TypedFinalize ==
  ASSUME TypeOK, NEW d \in Data, NEW r \in Runs, NEW rr \in Ledgers, NEW s \in Ended,
         Finalize(d, r, rr, s)
  PROVE  data' \in Data /\ rows' \in [Runs -> Ledgers]
  BY FinalizedFacts, ClosedFacts DEF Finalize, TypeOK, Ledgers

\* The actions of a worker change its ledger, its output and its state.
LEMMA TypedWork ==
  ASSUME TypeOK, NEW r \in Runs, Work(r) \/ Dies(r)
  PROVE  TypeOK'
<1> USE DEF TypeOK, HostUntouched
<1>1. CASE Boot(r)
  <2>1. rows' \in [Runs -> [Actions -> RowStatuses]]
    BY <1>1 DEF Boot, RowStatuses, Waiting, Uncertain
  <2> QED
    BY <1>1, <2>1 DEF Boot, Alive
<1>2. ASSUME NEW e \in Events, Emit(r, e)
      PROVE  pipe' \in [Runs -> Seq(Events)]
  BY <1>2 DEF Emit
<1>3. ASSUME NEW a \in Actions, Propose(r, a)
      PROVE  TypeOK'
  <2>1. rows' \in [Runs -> [Actions -> RowStatuses]]
    BY <1>3 DEF Propose, RowStatuses, Waiting
  <2>2. Event("proposed", a) \in Events
    BY DEF Events
  <2> QED
    BY <1>2, <1>3, <2>1, <2>2 DEF Propose
<1>4. ASSUME NEW a \in Actions, ClaimRow(r, a) \/ MarkRow(r, a) \/ FinishRow(r, a)
      PROVE  TypeOK'
  <2>1. ASSUME NEW s \in RowStatuses, SetRow(r, a, s)
        PROVE  rows' \in [Runs -> [Actions -> RowStatuses]]
    BY <2>1 DEF SetRow
  <2> QED
    BY <1>4, <2>1 DEF ClaimRow, MarkRow, FinishRow, RowStatuses, Uncertain, Done
<1>5. ASSUME NEW kind \in {"handoff", "stop", "tools"}
      PROVE  Event(kind, 0) \in Events
  BY DEF Events
<1>6. ASSUME NEW kind \in {"handoff", "tools"}, Report(r, kind)
      PROVE  TypeOK'
  BY <1>2, <1>5, <1>6 DEF Report, ledger
<1>7. ASSUME NEW kind \in {"stop", "tools"}, NEW code \in {"exit0", "exit1"},
             Exit(r, kind, code)
      PROVE  TypeOK'
  BY <1>2, <1>5, <1>7 DEF Exit, ledger
<1>8. CASE Dies(r)
  BY <1>8 DEF Dies, ledger
<1> QED
  BY <1>1, <1>3, <1>4, <1>6, <1>7, <1>8 DEF Work

\* Revoking what waits keeps the ledger and the host's state of their type.
LEMMA CardsTyped ==
  ASSUME TypeOK, NEW r \in Runs
  PROVE  RowsRevoked(r) \in Ledgers /\ CardsRevoked(r) \in Data
<1>1. RowsRevoked(r) \in Ledgers
  BY DEF TypeOK, RowsRevoked, Ledgers, RowStatuses, Done
<1>2. CardsRevoked(r) \in Data
  <2> DEFINE shown == [b \in Actions |-> IF b \in data.pending[r] /\ data.approval[r][b] # "none"
                                             THEN "closed" ELSE data.approval[r][b]]
  <2>1. shown \in [Actions -> Cards]
    BY DEF TypeOK, Data, Cards
  <2>2. CardsRevoked(r) = [data EXCEPT !.approval = [data.approval EXCEPT ![r] = shown]]
    BY DEF TypeOK, CardsRevoked, Data
  <2>3. [data.approval EXCEPT ![r] = shown] \in [Runs -> [Actions -> Cards]]
    BY <2>1 DEF TypeOK, Data
  <2> HIDE DEF shown
  <2> QED
    BY <2>2, <2>3 DEF TypeOK, Data
<1> QED
  BY <1>1, <1>2

\* The requests of the user.
LEMMA TypedRequest ==
  ASSUME TypeOK, NEW r \in Runs, Requests(r)
  PROVE  TypeOK'
<1> USE DEF TypeOK
<1>1. rows[r] \in Ledgers /\ {"failed", "cancelled", "interrupted"} \subseteq Ended
  BY DEF Ledgers, Ended
<1>2. ASSUME NEW a \in Actions, NEW s \in RowStatuses, SetRow(r, a, s)
      PROVE  rows' \in [Runs -> [Actions -> RowStatuses]]
  BY <1>2 DEF SetRow
<1>3. ASSUME NEW a \in Actions, NEW card \in Cards
      PROVE  [data EXCEPT !.approval[r][a] = card] \in Data
  BY DEF Data
<1>4. ASSUME NEW s \in Ended, NEW d \in Data, NEW rr \in Ledgers, Finalize(d, r, rr, s)
      PROVE  data' \in Data /\ rows' \in [Runs -> [Actions -> RowStatuses]]
  BY <1>4, TypedFinalize DEF Ledgers
<1>5. CASE StartRun(r)
  <2>1. [data EXCEPT !.business = "blocked"] \in Data
    BY DEF Data
  <2>2. Activated(data, r) \in Data
    BY ActivatedFacts
  <2> QED
    BY <1>5, <2>1, <2>2 DEF StartRun
<1>6. CASE ResumeRun(r)
  BY <1>6, ActivatedFacts DEF ResumeRun
<1>7. CASE Cancel(r)
  <2>1. [data EXCEPT !.stop[r] = "cancelled", !.run[r] = "cancel_requested",
                     !.business = "cancel_requested"] \in Data
    BY DEF Data, RunStatuses, Active
  <2> QED
    BY <1>1, <1>4, <1>7, <2>1 DEF Cancel
<1>8. ASSUME NEW a \in Actions, Approve(r, a)
      PROVE  TypeOK'
  <2>1. [Activated([data EXCEPT !.approval[r][a] = "approved"], r)
           EXCEPT !.pending[r] = {}] \in Data
    <3>1. ASSUME NEW d \in Data
          PROVE  [d EXCEPT !.pending[r] = {}] \in Data
      BY DEF Data
    <3> QED
      BY <1>3, <3>1, ActivatedFacts DEF Cards
  <2> QED
    BY <1>2, <1>3, <1>8, <2>1 DEF Approve, Cards, RowStatuses, Waiting
<1>9. ASSUME NEW a \in Actions, ApproveStale(r, a)
      PROVE  TypeOK'
  BY <1>1, <1>3, <1>4, <1>9 DEF ApproveStale, Cards
<1>10. ASSUME NEW a \in Actions, Refuse(r, a)
       PROVE  TypeOK'
  <2> QED
    BY <1>1, <1>4, <1>10, CardsTyped DEF Refuse
<1>11. ASSUME NEW a \in Actions, Revise(r, a)
       PROVE  TypeOK'
  <2>1. ClosedRows(rows[r]) \in [Actions -> RowStatuses]
    BY <1>1, ClosedFacts DEF Ledgers
  <2>2. Activated(Finalized(data, r, rows[r], "cancelled"), r) \in Data
    BY <1>1, FinalizedFacts, ActivatedFacts
  <2> QED
    BY <1>11, <2>1, <2>2 DEF Revise
<1>12. ASSUME NEW a \in Actions, Reconcile(r, a)
       PROVE  TypeOK'
  <2>1. PICK s \in {"verified", "needs_reconciliation"} :
          /\ SetRow(r, a, s)
          /\ LET d == [data EXCEPT !.approval[r][a] = IF s = "verified" THEN "settled"
                                                                        ELSE "closed"]
             IN  data' \in {d, [d EXCEPT !.run[r] = "interrupted", !.business = "interrupted",
                                         !.active = NoRun, !.pending[r] = {}]}
    BY <1>12 DEF Reconcile
  <2> DEFINE d == [data EXCEPT !.approval[r][a] = IF s = "verified" THEN "settled"
                                                                   ELSE "closed"]
  <2>2. d \in Data
    BY <1>3 DEF Cards
  <2>3. [d EXCEPT !.run[r] = "interrupted", !.business = "interrupted",
                  !.active = NoRun, !.pending[r] = {}] \in Data
    <3> HIDE DEF d
    <3> QED
      BY <2>2 DEF Data, RunStatuses, Ended
  <2> QED
    BY <1>2, <1>12, <2>1, <2>2, <2>3 DEF Reconcile, RowStatuses, Done, Uncertain
<1> QED
  BY <1>5, <1>6, <1>7, <1>8, <1>9, <1>10, <1>11, <1>12 DEF Requests

\* The host's own steps.
LEMMA TypedHost ==
  ASSUME TypeOK,
         \/ Save \/ Launch \/ LaunchFails
         \/ CloseBegins \/ CloseEnds \/ HostCrash \/ HostStart
  PROVE  TypeOK'
<1> USE DEF TypeOK
<1>1. {"failed", "interrupted"} \subseteq Ended /\ rows \in [Runs -> Ledgers]
  BY DEF Ledgers, Ended
<1>2. ASSUME NEW r \in Runs, NEW s \in {"failed", "interrupted"}, NEW d \in Data,
             Finalize(d, r, rows[r], s)
      PROVE  data' \in Data /\ rows' \in [Runs -> [Actions -> RowStatuses]]
  BY <1>1, <1>2, TypedFinalize DEF Ledgers
<1>3. CASE Save
  BY <1>3 DEF Save
<1>4. CASE Launch
  <2>1. [data EXCEPT !.goalSubmitted = TRUE] \in Data
    BY DEF Data
  <2>2. ASSUME NEW out \in Seq(Events)
        PROVE  [pipe EXCEPT ![launching] = out] \in [Runs -> Seq(Events)]
    OBVIOUS
  <2>3. <<>> \in Seq(Events)
    OBVIOUS
  <2> QED
    BY <1>4, <2>1, <2>2, <2>3 DEF Launch, Alive
<1>5. CASE LaunchFails
  BY <1>2, <1>5 DEF LaunchFails
<1>6. CASE CloseBegins
  <2>1. data' \in Data
    BY <1>6 DEF CloseBegins, Data
  <2> QED
    BY <1>6, <2>1 DEF CloseBegins, ledger
<1>7. CASE CloseEnds
  <2>1. /\ procs' = {} /\ worker' = [r \in Runs |-> "none"]
        /\ pipe' = [r \in Runs |-> <<>>]
        /\ host' = "down" /\ UNCHANGED <<launching, lapsed>>
    BY <1>7 DEF CloseEnds
  <2>2. data' \in Data /\ disk' \in Data /\ rows' \in [Runs -> [Actions -> RowStatuses]]
    BY <1>2, <1>7 DEF CloseEnds, ActiveRuns
  <2> QED
    BY <2>1, <2>2
<1>8. CASE HostCrash
  BY <1>8 DEF HostCrash, ledger
<1>9. CASE HostStart
  <2>1. data' \in Data /\ disk' \in Data /\ rows' \in [Runs -> [Actions -> RowStatuses]]
    BY <1>2, <1>9 DEF HostStart
  <2> QED
    BY <1>9, <2>1 DEF HostStart
<1> QED
  BY <1>3, <1>4, <1>5, <1>6, <1>7, <1>8, <1>9

\* What the host makes of a worker's output and end.
LEMMA TypedCollected ==
  ASSUME TypeOK, NEW r \in Runs, Consume(r) \/ Collect(r) \/ ReadbackFails(r)
  PROVE  TypeOK'
<1> USE DEF TypeOK
<1>1. CASE Consume(r)
  <2>1. Head(pipe[r]) \in Events /\ Tail(pipe[r]) \in Seq(Events)
    BY <1>1 DEF Consume
  <2>2. ASSUME NEW d \in Data, NEW a \in Actions
        PROVE  CardShown(d, r, a) \in Data
    <3>1. [d EXCEPT !.approval[r][a] = "pending_approval"] \in Data
      BY DEF Data, Cards
    <3>2. ASSUME NEW c \in Data
          PROVE  [c EXCEPT !.pending[r] = c.pending[r] \cup {a}] \in Data
      <4>1. [c.pending EXCEPT ![r] = c.pending[r] \cup {a}] \in [Runs -> SUBSET Actions]
        BY DEF Data
      <4>2. [c EXCEPT !.pending[r] = c.pending[r] \cup {a}]
              = [c EXCEPT !.pending = [c.pending EXCEPT ![r] = c.pending[r] \cup {a}]]
        BY DEF Data
      <4> QED
        BY <4>1, <4>2 DEF Data
    <3>3. [d EXCEPT !.approval[r][a] = "pending_approval", !.pending[r] = @ \cup {a}]
            = [[d EXCEPT !.approval[r][a] = "pending_approval"]
                 EXCEPT !.pending[r] = d.pending[r] \cup {a}]
      BY DEF Data
    <3>4. [d EXCEPT !.approval[r][a] = "pending_approval"].pending = d.pending
      BY DEF Data
    <3> QED
      BY <3>1, <3>2, <3>3, <3>4 DEF CardShown
  <2>3. ASSUME NEW e \in Events
        PROVE  AfterEvent(r, e) \in Data
    <3> DEFINE d == [data EXCEPT !.touched[r] = TRUE]
    <3>1. d \in Data
      BY DEF Data
    <3>2. \/ e.kind = "proposed" /\ e.action \in Actions
          \/ e.kind \in {"handoff", "stop", "tools"}
      BY DEF Events, Event
    <3>3. /\ [d EXCEPT !.handoff[r] = TRUE] \in Data
          /\ [d EXCEPT !.stopSeen[r] = (e.kind = "stop")] \in Data
      <4> HIDE DEF d
      <4> QED
        BY <3>1 DEF Data
    <3> QED
      BY <2>2, <3>1, <3>2, <3>3 DEF AfterEvent
  <2>4. AfterEvent(r, Head(pipe[r])) \in Data
    BY <2>1, <2>3
  <2> QED
    BY <1>1, <2>1, <2>4 DEF Consume
<1>2. CASE Collect(r)
  <2>1. worker' \in [Runs -> {"none", "exit0", "exit1"} \cup Alive]
    BY <1>2 DEF Collect
  <2>2. CASE Outcome(r) = "awaiting_approval"
    <3>1. [data EXCEPT !.run[r] = "awaiting_approval", !.business = "awaiting_approval"] \in Data
      BY DEF Data, RunStatuses, Active
    <3> QED
      BY <1>2, <2>1, <2>2, <3>1 DEF Collect
  <2>3. CASE Outcome(r) # "awaiting_approval"
    <3>1. Outcome(r) \in Ended
      BY <2>3 DEF Outcome, Ended, Data
    <3>2. data' \in Data /\ rows' \in [Runs -> Ledgers]
      BY <1>2, <2>3, <3>1, TypedFinalize DEF Collect, Ledgers
    <3> QED
      BY <1>2, <2>1, <3>2 DEF Collect, Ledgers
  <2> QED
    BY <2>2, <2>3
<1>3. CASE ReadbackFails(r)
  <2>1. [data EXCEPT !.business = "awaiting_input"] \in Data
    BY DEF Data, RunStatuses, Ended
  <2> QED
    BY <1>3, <2>1 DEF ReadbackFails, ledger
<1> QED
  BY <1>1, <1>2, <1>3

LEMMA TypedStep ==
  ASSUME TypeOK, [Next]_vars
  PROVE  TypeOK'
<1>1. ASSUME NEW r \in Runs, NEW a \in Actions, Lapse(r, a)
      PROVE  TypeOK'
  BY <1>1 DEF TypeOK, Lapse, HostUntouched
<1>2. CASE UNCHANGED vars
  BY <1>2 DEF TypeOK, vars
<1> QED
  BY <1>1, <1>2, TypedHost, TypedRequest, TypedWork, TypedCollected DEF Next

\* Every state the host, its workers and their ledgers reach is of its type: in
\* particular an event of a worker names a row of its ledger when it names one.
THEOREM HostTyped == Spec => []TypeOK
  BY TypedInit, TypedStep, PTL DEF Spec

-----------------------------------------------------------------------------
(* The invariant.                                                          *)

LEMMA IInvInit == Init => IInv
<1> SUFFICES ASSUME Init PROVE IInv
  OBVIOUS
<1>1. LedgersFit(data.run, rows) /\ disk = data
  BY DEF Init, LedgersFit, Settled, Unstarted, Statuses, Active, Ended
<1> QED
  BY <1>1, TypedInit DEF Init, IInv, ProcsKnown, OneOwner, WorkersActive, OthersKnown,
     ActiveRuns, Active, Alive, NoRun

\* Closing a run's ledger leaves the ledgers fit.
LEMMA FinalizedFits ==
  ASSUME NEW run \in [Runs -> RunStatuses], NEW led \in [Runs -> Ledgers],
         LedgersFit(run, led),
         NEW r \in Runs, NEW rr \in Ledgers, NEW s \in Ended
  PROVE  LedgersFit([run EXCEPT ![r] = FinalStatus(rr, s)],
                    [led EXCEPT ![r] = ClosedRows(rr)])
<1>1. FinalStatus(rr, s) \notin Active \cup {"absent"}
  BY DEF FinalStatus, Active, Ended
<1>2. FinalStatus(rr, s) \in Ended => Settled(ClosedRows(rr))
  BY ClosedFacts DEF FinalStatus, Ended, Settled
<1> QED
  BY <1>1, <1>2 DEF LedgersFit

\* So does any change to the ledger of a run that is active or held back.
LEMMA ChangedFits ==
  ASSUME NEW run \in [Runs -> RunStatuses],
         NEW led \in [Runs -> Ledgers], NEW led2 \in [Runs -> Ledgers],
         LedgersFit(run, led), NEW r \in Runs,
         \A q \in Runs \ {r} : led2[q] = led[q],
         run[r] \in Active \cup {"needs_reconciliation"} \/ led2[r] = led[r]
  PROVE  LedgersFit(run, led2)
  BY DEF LedgersFit, Active, Ended

\* A worker's step: its run is active and no other run is.
LEMMA WorkStep ==
  ASSUME IInv, TypeOK', NEW r \in Runs, Work(r) \/ Dies(r)
  PROVE  IInv'
<1> DEFINE OfThisWorker ==
             /\ UNCHANGED <<host, data, disk, launching, procs>>
             /\ worker[r] \in Alive /\ worker'[r] # "none"
             /\ \A q \in Runs \ {r} : worker'[q] = worker[q] /\ rows'[q] = rows[q]
<1>1. OfThisWorker
  <2> USE DEF IInv, TypeOK, HostUntouched, Alive, Runnable
  <2>1. CASE Boot(r)
    BY <2>1 DEF Boot
  <2>2. ASSUME NEW a \in Actions, Propose(r, a)
        PROVE  OfThisWorker
    BY <2>2 DEF Propose
  <2>3. ASSUME NEW a \in Actions, ClaimRow(r, a) \/ MarkRow(r, a) \/ FinishRow(r, a)
        PROVE  OfThisWorker
    BY <2>3 DEF ClaimRow, MarkRow, FinishRow, SetRow
  <2>4. ASSUME NEW kind \in {"handoff", "tools"}, Report(r, kind)
        PROVE  OfThisWorker
    BY <2>4 DEF Report, ledger
  <2>5. ASSUME NEW kind \in {"stop", "tools"}, NEW code \in {"exit0", "exit1"},
               Exit(r, kind, code)
        PROVE  OfThisWorker
    BY <2>5 DEF Exit, ledger
  <2>6. CASE Dies(r)
    BY <2>6 DEF Dies, ledger
  <2> QED
    BY <2>1, <2>2, <2>3, <2>4, <2>5, <2>6 DEF Work
<1>2. /\ data.run[r] \in Active /\ disk.run[r] \in Active /\ r \in procs
      /\ host # "down" /\ data.run \in [Runs -> RunStatuses]
      /\ disk.run \in [Runs -> RunStatuses]
      /\ rows \in [Runs -> Ledgers] /\ rows' \in [Runs -> Ledgers]
  BY <1>1 DEF IInv, WorkersActive, ProcsKnown, Active, Alive, TypeOK, Data, Ledgers
<1>3. LedgersFit(data.run, rows') /\ LedgersFit(disk.run, rows')
  BY <1>1, <1>2, ChangedFits DEF IInv
<1>4. \A p \in Runs : p \in procs \/ data.run[p] \in Active => p = r
  BY <1>2 DEF IInv, OneOwner
<1>5. ProcsKnown' /\ WorkersActive'
  BY <1>1, <1>2 DEF IInv, ProcsKnown, WorkersActive, Alive, Active
<1>6. OneOwner'
  BY <1>1 DEF IInv, OneOwner, ActiveRuns
<1>7. OthersKnown'
  BY <1>1, <1>4, <1>2 DEF IInv, OthersKnown
<1> QED
  BY <1>1, <1>3, <1>5, <1>6, <1>7 DEF IInv

\* A run that was active, or whose worker is collected, is finalized: no run is
\* active then, and no worker left.
LEMMA FinalizeStep ==
  ASSUME IInv, TypeOK', disk = data, host # "down",
         NEW r \in Runs, NEW d \in Data, NEW rr \in Ledgers, NEW s \in Ended,
         d.run = data.run, Finalize(d, r, rr, s),
         \/ data.run[r] \in Active
         \/ r \in procs /\ rr = rows[r],
         UNCHANGED <<host, disk>>, launching' = NoRun,
         \/ UNCHANGED <<procs, worker>> /\ worker[r] \notin Alive
         \/ procs' = procs \ {r} /\ worker' = [worker EXCEPT ![r] = "none"]
  PROVE  IInv'
<1>1. /\ data.run \in [Runs -> RunStatuses]
      /\ worker \in [Runs -> {"none", "exit0", "exit1"} \cup Alive]
      /\ rows \in [Runs -> Ledgers] /\ rows' \in [Runs -> Ledgers]
      /\ LedgersFit(data.run, rows) /\ procs \subseteq Runs
  BY DEF IInv, TypeOK, Data, Ledgers
<1>2. /\ data'.run = [data.run EXCEPT ![r] = FinalStatus(rr, s)]
      /\ rows' = [rows EXCEPT ![r] = ClosedRows(rr)]
  BY FinalizedFacts DEF Finalize
<1>3. \A p \in Runs : p \in procs \/ data.run[p] \in Active => p = r
  BY <1>1 DEF IInv, OneOwner, ActiveRuns
<1>4. \A p \in Runs : data'.run[p] \notin Active
  <2>1. FinalStatus(rr, s) \notin Active
    BY DEF FinalStatus, Active, Ended
  <2> QED
    BY <1>1, <1>2, <1>3, <2>1
<1>5. LedgersFit(data'.run, rows')
  <2>1. LedgersFit([data.run EXCEPT ![r] = FinalStatus(rr, s)],
                   [rows EXCEPT ![r] = ClosedRows(rr)])
    BY <1>1, FinalizedFits
  <2> QED
    BY <1>2, <2>1
<1>6. LedgersFit(data.run, rows')
  <2>1. CASE data.run[r] \in Active \cup {"needs_reconciliation"} \/ rows'[r] = rows[r]
    <3>1. \A q \in Runs \ {r} : rows'[q] = rows[q]
      BY <1>1, <1>2
    <3> QED
      BY <1>1, <2>1, <3>1 DEF LedgersFit, Active, Ended
  <2>2. CASE data.run[r] \in Ended \cup {"absent"} /\ rr = rows[r]
    <3>1. Settled(rows[r])
      BY <1>1, <2>2 DEF LedgersFit, Unstarted, Settled, Statuses
    <3>2. rows'[r] = rows[r]
      <4>1. ClosedRows(rr) = rr
        BY <2>2, <3>1, ClosedFacts DEF Settled
      <4> QED
        BY <1>1, <1>2, <2>2, <4>1
    <3> QED
      BY <2>1, <3>2
  <2> QED
    BY <1>1, <2>1, <2>2 DEF RunStatuses
<1>7. \A p \in Runs : worker'[p] \notin Alive
  BY <1>1, <1>3 DEF IInv, ProcsKnown, Alive
<1>8. ProcsKnown' /\ WorkersActive'
  BY <1>1, <1>7 DEF IInv, ProcsKnown, WorkersActive
<1>9. OneOwner' /\ OthersKnown'
  BY <1>1, <1>2, <1>3, <1>4 DEF IInv, OneOwner, OthersKnown, ActiveRuns
<1> QED
  BY <1>5, <1>6, <1>8, <1>9 DEF IInv

\* A run is continued when there is no worker, no other run is active and the
\* writes of the others are known.
LEMMA ActivateStep ==
  ASSUME IInv, TypeOK', disk = data, host = "up", NEW r \in Runs,
         data'.run = [data.run EXCEPT ![r] = "running"],
         procs = {}, ActiveRuns \subseteq {r},
         \A q \in Runs \ {r} : /\ rows'[q] = rows[q]
                               /\ Statuses(rows[q]) \cap Uncertain = {},
         rows'[r] = rows[r] \/ data.run[r] \in Active,
         UNCHANGED <<host, disk, procs, worker>>, launching' = r
  PROVE  IInv'
<1>1. /\ data.run \in [Runs -> RunStatuses]
      /\ rows \in [Runs -> Ledgers] /\ rows' \in [Runs -> Ledgers]
      /\ LedgersFit(data.run, rows)
  BY DEF IInv, TypeOK, Data, Ledgers
<1>2. LedgersFit(data.run, rows')
  BY <1>1, ChangedFits
<1>3. \A q \in Runs : data'.run[q] \in Active => q = r
  BY <1>1 DEF ActiveRuns
<1>4. LedgersFit(data'.run, rows')
  BY <1>1, <1>2, <1>3 DEF LedgersFit, Active, Ended
<1>5. ProcsKnown' /\ WorkersActive'
  BY DEF IInv, ProcsKnown, WorkersActive, Alive
<1>6. OneOwner' /\ OthersKnown'
  BY <1>1, <1>3 DEF OneOwner, OthersKnown, ActiveRuns
<1> QED
  BY <1>2, <1>4, <1>5, <1>6 DEF IInv

\* No run is about to begin, none has a worker, and the others' writes are
\* known, as _require_idle() and _require_known_writes() find.
LEMMA IdleKnown ==
  ASSUME IInv, Ready, NEW r \in Runs, IdleBut(NoRun), WritesKnown
  PROVE  /\ procs = {} /\ ActiveRuns \subseteq {r}
         /\ \A q \in Runs : Statuses(rows[q]) \cap Uncertain = {}
<1>1. procs = {} /\ ActiveRuns = {}
  BY DEF IdleBut, ActiveRuns, Runs, NoRun
<1>2. ASSUME NEW q \in Runs, ~Known(q)
      PROVE  Statuses(rows[q]) \cap Uncertain = {}
  BY <1>2 DEF Known, Ready, IInv, LedgersFit, Unstarted, Statuses
<1> QED
  BY <1>1, <1>2 DEF WritesKnown

\* A run that waits for approvals has no worker, and is the only active one.
LEMMA WaitingAlone ==
  ASSUME IInv, Ready, NEW r \in Runs, data.run[r] \in Active, r \notin procs
  PROVE  /\ procs = {} /\ ActiveRuns \subseteq {r} /\ worker[r] \notin Alive
         /\ \A q \in Runs \ {r} : Statuses(rows[q]) \cap Uncertain = {}
  BY DEF Ready, IInv, TypeOK, OneOwner, OthersKnown, ProcsKnown, ActiveRuns, Alive

\* A step that changes neither a run's status nor a ledger, a worker or who
\* has one, and may save the state.
LEMMA IdleStep ==
  ASSUME IInv, TypeOK', host # "down", UNCHANGED <<launching, procs, worker, rows>>,
         host' = host \/ (host' = "closing" /\ launching = NoRun),
         data'.run = data.run, disk' = disk \/ disk' = data
  PROVE  IInv'
<1>1. ProcsKnown' /\ OneOwner' /\ OthersKnown'
  BY DEF IInv, TypeOK, ProcsKnown, OneOwner, OthersKnown, ActiveRuns
<1>2. WorkersActive'
  BY DEF IInv, WorkersActive, Active
<1>3. LedgersFit(data'.run, rows') /\ LedgersFit(disk'.run, rows')
  BY DEF IInv
<1> QED
  BY <1>1, <1>2, <1>3 DEF IInv

\* What the user may ask of a run preserves the invariant.
LEMMA RequestStep ==
  ASSUME IInv, TypeOK', NEW r \in Runs, Requests(r)
  PROVE  IInv'
<1>1. /\ Ready /\ host = "up" /\ disk = data /\ launching = NoRun
      /\ data \in Data /\ rows \in [Runs -> Ledgers] /\ rows[r] \in Ledgers
      /\ {"failed", "cancelled", "interrupted"} \subseteq Ended
  BY DEF Requests, StartRun, ResumeRun, Cancel, Approve, ApproveStale, Refuse, Revise,
     Reconcile, Ready, IInv, TypeOK, Ledgers, Ended
<1>2. ASSUME NEW a \in Actions, Decidable(r, a)
      PROVE  /\ data.run[r] \in Active /\ procs = {} /\ ActiveRuns \subseteq {r}
             /\ worker[r] \notin Alive
             /\ \A q \in Runs \ {r} : Statuses(rows[q]) \cap Uncertain = {}
  BY <1>1, <1>2, WaitingAlone DEF Decidable, Active
<1>3. CASE StartRun(r)
  <2>1. CASE WritesKnown
    <3>1. data' = Activated(data, r) /\ launching' = r
          /\ IdleBut(NoRun) /\ UNCHANGED <<host, disk, procs, worker, rows>>
      BY <1>3, <2>1 DEF StartRun
    <3>2. procs = {} /\ ActiveRuns \subseteq {r}
          /\ \A q \in Runs : Statuses(rows[q]) \cap Uncertain = {}
      BY <1>1, <2>1, <3>1, IdleKnown
    <3>3. data'.run = [data.run EXCEPT ![r] = "running"]
      BY <1>1, <3>1, ActivatedFacts
    <3> QED
      BY <1>1, <3>1, <3>2, <3>3, ActivateStep
  <2>2. CASE ~WritesKnown
    <3>1. data'.run = data.run /\ UNCHANGED <<host, disk, launching, procs, worker, rows>>
      BY <1>1, <1>3, <2>2 DEF StartRun, Data
    <3> QED
      BY <1>1, <3>1, IdleStep
  <2> QED
    BY <2>1, <2>2
<1>4. CASE ResumeRun(r)
  <2>1. data' = Activated(data, r) /\ launching' = r
        /\ IdleBut(NoRun) /\ WritesKnown /\ UNCHANGED <<host, disk, procs, worker, rows>>
    BY <1>4 DEF ResumeRun
  <2>2. procs = {} /\ ActiveRuns \subseteq {r}
        /\ \A q \in Runs : Statuses(rows[q]) \cap Uncertain = {}
    BY <1>1, <2>1, IdleKnown
  <2>3. data'.run = [data.run EXCEPT ![r] = "running"]
    BY <1>1, <2>1, ActivatedFacts
  <2> QED
    BY <1>1, <2>1, <2>2, <2>3, ActivateStep
<1>5. CASE Cancel(r)
  <2>1. CASE r \in procs /\ worker[r] \in Alive
    <3>1. data'.run = [data.run EXCEPT ![r] = "cancel_requested"]
          /\ UNCHANGED <<host, disk, launching, procs, worker, rows>>
      BY <1>1, <1>5, <2>1 DEF Cancel, Data
    <3>2. data.run \in [Runs -> RunStatuses] /\ data.run[r] \in Active
      BY <1>1, <1>5 DEF Cancel, Data, Active
    <3>3. LedgersFit(data'.run, rows') /\ LedgersFit(disk'.run, rows')
      BY <1>1, <3>1, <3>2 DEF IInv, LedgersFit, Active, Ended
    <3>4. ProcsKnown' /\ WorkersActive'
      BY <1>1, <3>1, <3>2 DEF IInv, ProcsKnown, WorkersActive
    <3>5. OneOwner' /\ OthersKnown'
      BY <1>1, <2>1, <3>1, <3>2 DEF IInv, OneOwner, OthersKnown, ActiveRuns
    <3> QED
      BY <3>3, <3>4, <3>5 DEF IInv
  <2>2. CASE ~(r \in procs /\ worker[r] \in Alive)
    <3>1. Finalize(data, r, rows[r], "cancelled") /\ data.run[r] \in Active
          /\ UNCHANGED <<host, disk, launching, procs, worker>>
      BY <1>5, <2>2 DEF Cancel, Active
    <3>2. worker[r] \notin Alive
      BY <2>2 DEF IInv, ProcsKnown, Alive
    <3> QED
      BY <1>1, <3>1, <3>2, FinalizeStep
  <2> QED
    BY <2>1, <2>2
<1>6. ASSUME NEW a \in Actions, Approve(r, a)
      PROVE  IInv'
  <2> DEFINE d == [data EXCEPT !.approval[r][a] = "approved"]
             open == {b \in d.pending[r] : d.approval[r][b] = "pending_approval"}
  <2>1. /\ Decidable(r, a) /\ UNCHANGED <<host, disk, procs, worker>>
        /\ \A q \in Runs \ {r} : rows'[q] = rows[q]
    BY <1>1, <1>6 DEF Approve, SetRow
  <2>2. d \in Data /\ d.run = data.run
    BY <1>1 DEF Data, Cards
  <2>3. CASE open = {}
    <3>1. data' = [Activated(d, r) EXCEPT !.pending[r] = {}] /\ launching' = r
      BY <1>6, <2>3 DEF Approve
    <3>2. data'.run = [data.run EXCEPT ![r] = "running"]
      <4> HIDE DEF d
      <4>1. Activated(d, r) \in Data /\ Activated(d, r).run = [d.run EXCEPT ![r] = "running"]
        BY <2>2, ActivatedFacts
      <4>2. data'.run = Activated(d, r).run
        BY <3>1, <4>1 DEF Data
      <4> QED
        BY <2>2, <4>1, <4>2
    <3> QED
      BY <1>1, <1>2, <2>1, <3>1, <3>2, ActivateStep
  <2>4. CASE open # {}
    <3>1. data'.run = data.run /\ launching' = launching
      BY <1>6, <2>2, <2>4 DEF Approve
    <3>2. LedgersFit(data.run, rows') /\ disk'.run = data.run
      BY <1>1, <1>2, <2>1 DEF IInv, LedgersFit, Active, Ended
    <3>3. ProcsKnown' /\ WorkersActive' /\ OneOwner'
      BY <2>1, <3>1 DEF IInv, ProcsKnown, WorkersActive, OneOwner, ActiveRuns
    <3>4. OthersKnown'
      BY <1>2, <2>1, <3>1 DEF OthersKnown, ActiveRuns
    <3> QED
      BY <3>1, <3>2, <3>3, <3>4 DEF IInv
  <2> QED
    BY <2>3, <2>4
<1>7. ASSUME NEW a \in Actions, ApproveStale(r, a)
      PROVE  IInv'
  <2> DEFINE d == [data EXCEPT !.approval[r][a] = "closed"]
  <2>1. d \in Data /\ d.run = data.run
    BY <1>1 DEF Data, Cards
  <2>2. Finalize(d, r, rows[r], "failed") /\ Decidable(r, a)
        /\ UNCHANGED <<host, disk, launching, procs, worker>>
    BY <1>7 DEF ApproveStale
  <2> QED
    BY <1>1, <1>2, <2>1, <2>2, FinalizeStep
<1>8. ASSUME NEW a \in Actions, Refuse(r, a)
      PROVE  IInv'
  <2>1. CardsRevoked(r) \in Data /\ CardsRevoked(r).run = data.run
    BY <1>1, CardsTyped DEF IInv, CardsRevoked, Data
  <2>2. RowsRevoked(r) \in Ledgers
    BY CardsTyped DEF IInv
  <2>3. Finalize(CardsRevoked(r), r, RowsRevoked(r), "failed") /\ Decidable(r, a)
        /\ UNCHANGED <<host, disk, launching, procs, worker>>
    BY <1>8 DEF Refuse
  <2> QED
    BY <1>1, <1>2, <2>1, <2>2, <2>3, FinalizeStep
<1>9. ASSUME NEW a \in Actions, Revise(r, a)
      PROVE  IInv'
  <2> DEFINE d == Finalized(data, r, rows[r], "cancelled")
  <2>1. /\ data' = Activated(d, r) /\ launching' = r /\ Decidable(r, a)
        /\ rows' = [rows EXCEPT ![r] = ClosedRows(rows[r])]
        /\ UNCHANGED <<host, disk, procs, worker>>
    BY <1>9 DEF Revise
  <2>2. /\ d \in Data
        /\ d.run = [data.run EXCEPT ![r] = FinalStatus(rows[r], "cancelled")]
    BY <1>1, FinalizedFacts
  <2>3. data'.run = [data.run EXCEPT ![r] = "running"]
    <3>1. data'.run = [d.run EXCEPT ![r] = "running"]
      <4> HIDE DEF d
      <4> QED
        BY <2>1, <2>2, ActivatedFacts
    <3> QED
      BY <1>1, <2>2, <3>1 DEF Data
  <2>4. \A q \in Runs \ {r} : rows'[q] = rows[q]
    BY <1>1, <2>1
  <2> QED
    BY <1>1, <1>2, <2>1, <2>3, <2>4, ActivateStep
<1>10. ASSUME NEW a \in Actions, Reconcile(r, a)
       PROVE  IInv'
  <2>1. PICK s \in {"verified", "needs_reconciliation"} :
          /\ rows[r][a] = "verified" => s = "verified"
          /\ rows' = [rows EXCEPT ![r][a] = s]
          /\ \/ data'.run = data.run
             \/ /\ data'.run = [data.run EXCEPT ![r] = "interrupted"]
                /\ Statuses([rows[r] EXCEPT ![a] = s]) \subseteq Done
    BY <1>1, <1>10 DEF Reconcile, SetRow, Data
  <2>2. /\ procs = {} /\ ActiveRuns = {} /\ Known(r)
        /\ rows[r][a] \in {"sending", "needs_reconciliation", "verified"}
        /\ UNCHANGED <<host, disk, launching, procs, worker>>
    BY <1>10 DEF Reconcile
  <2>3. LedgersFit(data.run, rows')
    <3>1. \A q \in Runs \ {r} : rows'[q] = rows[q]
      BY <1>1, <2>1
    <3>2. data.run[r] \in Ended => rows'[r] = rows[r]
      <4>1. data.run[r] \in Ended => rows[r][a] \notin Uncertain
        BY <1>1, <2>2 DEF IInv, LedgersFit, Settled, Statuses, Uncertain
      <4> QED
        BY <1>1, <2>1, <2>2, <4>1 DEF Uncertain, Ledgers
    <3>3. data.run[r] # "absent"
      BY <2>2 DEF Known
    <3> QED
      BY <1>1, <2>2, <3>1, <3>2, <3>3 DEF IInv, LedgersFit
  <2>4. LedgersFit(data'.run, rows')
    <3>1. CASE data'.run = data.run
      BY <2>3, <3>1
    <3>2. CASE /\ data'.run = [data.run EXCEPT ![r] = "interrupted"]
               /\ Statuses([rows[r] EXCEPT ![a] = s]) \subseteq Done
      <4>1. Settled(rows'[r])
        <5>1. rows'[r] = [rows[r] EXCEPT ![a] = s]
          BY <1>1, <2>1 DEF Ledgers
        <5> QED
          BY <3>2, <5>1 DEF Settled, Waiting, Uncertain, Done
      <4> QED
        BY <1>1, <2>3, <3>2, <4>1 DEF LedgersFit, Data, Active, Ended
    <3> QED
      BY <2>1, <3>1, <3>2
  <2>5. \A q \in Runs : data'.run[q] \notin Active
    BY <1>1, <2>1, <2>2 DEF ActiveRuns, Active, Data
  <2>6. ProcsKnown' /\ WorkersActive' /\ OneOwner' /\ OthersKnown'
    BY <1>1, <2>2, <2>5 DEF IInv, ProcsKnown, WorkersActive, OneOwner, OthersKnown,
       ActiveRuns, Alive
  <2> QED
    BY <1>1, <2>2, <2>3, <2>4, <2>6 DEF IInv
<1> QED
  BY <1>3, <1>4, <1>5, <1>6, <1>7, <1>8, <1>9, <1>10 DEF Requests

\* What the host makes of a worker's output and end preserves the invariant.
LEMMA CollectedStep ==
  ASSUME IInv, TypeOK', NEW r \in Runs, Consume(r) \/ Collect(r) \/ ReadbackFails(r)
  PROVE  IInv'
<1>1. data \in Data /\ rows[r] \in Ledgers /\ disk = data /\ host # "down" /\ launching = NoRun
  BY DEF IInv, TypeOK, Ledgers, Consume, Collect, ReadbackFails, Collecting, Ready
<1>2. CASE Consume(r)
  <2>1. ASSUME NEW e
        PROVE  AfterEvent(r, e).run = data.run
    BY <1>1 DEF AfterEvent, CardShown, Data
  <2>2. data'.run = data.run /\ UNCHANGED <<host, disk, launching, procs, worker, rows>>
    BY <1>2, <2>1 DEF Consume
  <2> QED
    BY <1>1, <2>2, IdleStep
<1>3. CASE ReadbackFails(r)
  <2>1. data'.run = data.run /\ UNCHANGED <<host, disk, launching, procs, worker, rows>>
    BY <1>1, <1>3 DEF ReadbackFails, Data, ledger
  <2> QED
    BY <1>1, <2>1, IdleStep
<1>4. CASE Collect(r)
  <2>1. /\ r \in procs /\ worker[r] \notin Alive
        /\ procs' = procs \ {r} /\ worker' = [worker EXCEPT ![r] = "none"]
        /\ UNCHANGED <<host, disk, launching>>
    BY <1>4 DEF Collect, Alive
  <2>2. CASE Outcome(r) # "awaiting_approval"
    <3>1. Outcome(r) \in Ended
      BY <1>1, <2>2 DEF Outcome, Ended, Data
    <3>2. Finalize(data, r, rows[r], Outcome(r))
      BY <1>4, <2>2 DEF Collect
    <3> QED
      BY <1>1, <2>1, <3>1, <3>2, FinalizeStep
  <2>3. CASE Outcome(r) = "awaiting_approval"
    <3>1. /\ data'.run = [data.run EXCEPT ![r] = "awaiting_approval"] /\ rows' = rows
          /\ data.run \in [Runs -> RunStatuses]
          /\ worker \in [Runs -> {"none", "exit0", "exit1"} \cup Alive]
      BY <1>1, <1>4, <2>3, ZenonT(40) DEF Collect, Data, IInv, TypeOK
    <3>2. \A p \in Runs : p \in procs \/ data.run[p] \in Active => p = r
      BY <1>1, <2>1 DEF IInv, OneOwner
    <3>3. LedgersFit(data'.run, rows') /\ LedgersFit(disk'.run, rows')
      BY <1>1, <2>1, <3>1, <3>2 DEF IInv, LedgersFit, Active, Ended
    <3>4. ProcsKnown' /\ WorkersActive'
      BY <1>1, <2>1, <3>1, <3>2 DEF IInv, ProcsKnown, WorkersActive, Alive
    <3>5. OneOwner' /\ OthersKnown'
      BY <1>1, <2>1, <3>1, <3>2 DEF IInv, OneOwner, OthersKnown, ActiveRuns
    <3> QED
      BY <3>3, <3>4, <3>5 DEF IInv
  <2> QED
    BY <2>2, <2>3
<1> QED
  BY <1>2, <1>3, <1>4

\* So do the host's own steps, its end and its start.
LEMMA HostStep ==
  ASSUME IInv, TypeOK',
         \/ Save \/ Launch \/ LaunchFails
         \/ CloseBegins \/ CloseEnds \/ HostCrash \/ HostStart
  PROVE  IInv'
<1>1. /\ data \in Data /\ disk \in Data /\ rows \in [Runs -> Ledgers]
      /\ data.run \in [Runs -> RunStatuses] /\ disk.run \in [Runs -> RunStatuses]
      /\ {"failed", "interrupted"} \subseteq Ended
  BY DEF IInv, TypeOK, Ledgers, Data, Ended
<1>2. ASSUME NEW d \in Data, NEW r \in Runs, LedgersFit(d.run, rows),
             Finalize(d, r, rows[r], "interrupted")
      PROVE  /\ LedgersFit(data'.run, rows')
             /\ data'.run = [d.run EXCEPT ![r] = FinalStatus(rows[r], "interrupted")]
  <2>1. /\ data'.run = [d.run EXCEPT ![r] = FinalStatus(rows[r], "interrupted")]
        /\ rows' = [rows EXCEPT ![r] = ClosedRows(rows[r])]
    <3>1. rows[r] \in Ledgers /\ "interrupted" \in Ended
      BY <1>1
    <3>2. Finalized(d, r, rows[r], "interrupted").run
            = [d.run EXCEPT ![r] = FinalStatus(rows[r], "interrupted")]
      BY <3>1, FinalizedFacts
    <3> QED
      BY <1>2, <3>2 DEF Finalize
  <2>2. LedgersFit([d.run EXCEPT ![r] = FinalStatus(rows[r], "interrupted")],
                   [rows EXCEPT ![r] = ClosedRows(rows[r])])
    <3>1. d.run \in [Runs -> RunStatuses] /\ rows[r] \in Ledgers
      BY <1>1 DEF Data
    <3> QED
      BY <1>1, <1>2, <3>1, FinalizedFits
  <2> QED
    BY <2>1, <2>2
<1>3. CASE Save
  <2>1. /\ host # "down" /\ UNCHANGED <<launching, procs, worker, rows>>
        /\ host' = host /\ data'.run = data.run /\ disk' = data
    BY <1>3 DEF Save
  <2> QED
    BY <2>1, IdleStep
<1>4. CASE Launch
  <2>1. /\ data'.run = data.run /\ procs = {} /\ procs' = {launching} /\ launching' = NoRun
        /\ launching \in Runs /\ data.run[launching] = "running" /\ disk = data
        /\ worker' = [worker EXCEPT ![launching] = "boot"]
        /\ host = "up" /\ UNCHANGED <<host, disk, rows>>
    BY <1>1, <1>4 DEF Launch, IInv, OneOwner, TypeOK, Data
  <2>2. worker \in [Runs -> {"none", "exit0", "exit1"} \cup Alive]
    BY DEF IInv, TypeOK
  <2>3. \A p \in Runs : data.run[p] \in Active => p = launching
    BY <2>1 DEF IInv, OneOwner, ActiveRuns, Active
  <2>4. ProcsKnown' /\ WorkersActive'
    BY <2>1, <2>2 DEF IInv, ProcsKnown, WorkersActive, Alive, Active
  <2>5. OneOwner'
    BY <2>1, <2>3 DEF OneOwner, ActiveRuns
  <2>6. OthersKnown'
    BY <2>1, <2>3 DEF IInv, OthersKnown, Active
  <2> QED
    BY <2>1, <2>4, <2>5, <2>6 DEF IInv
<1>5. CASE LaunchFails
  <2>1. /\ launching \in Runs /\ data.run[launching] \in Active /\ disk = data /\ host = "up"
        /\ Finalize(data, launching, rows[launching], "failed")
        /\ rows[launching] \in Ledgers /\ worker[launching] \notin Alive
        /\ launching' = NoRun /\ UNCHANGED <<host, disk, procs, worker>>
    BY <1>1, <1>5 DEF LaunchFails, IInv, OneOwner, ProcsKnown, TypeOK, Active, Alive
  <2> QED
    BY <1>1, <2>1, FinalizeStep
<1>6. CASE CloseBegins
  <2>1. data'.run = data.run /\ host' = "closing" /\ host = "up" /\ launching = NoRun
        /\ UNCHANGED <<disk, launching, procs, worker, rows>>
    BY <1>1, <1>6 DEF CloseBegins, Ready, Data, ledger
  <2> QED
    BY <2>1, IdleStep
<1>7. ASSUME host' = "down", procs' = {}, launching' = NoRun,
             worker' = [r \in Runs |-> "none"], LedgersFit(disk'.run, rows')
      PROVE  IInv'
  <2>1. ProcsKnown' /\ WorkersActive'
    BY <1>7 DEF ProcsKnown, WorkersActive, Alive
  <2> QED
    BY <1>7, <2>1 DEF IInv, OneOwner, OthersKnown
<1>8. CASE CloseEnds
  <2>1. LedgersFit(disk'.run, rows')
    <3>1. CASE ActiveRuns = {}
      BY <1>8, <3>1 DEF CloseEnds, IInv
    <3>2. CASE ActiveRuns # {}
      <4>1. PICK r \in ActiveRuns : Finalize(data, r, rows[r], "interrupted") /\ disk' = data'
        BY <1>8, <3>2 DEF CloseEnds
      <4>2. r \in Runs /\ LedgersFit(data.run, rows)
        BY <1>8 DEF ActiveRuns, CloseEnds, IInv
      <4> QED
        BY <1>1, <1>2, <4>1, <4>2
    <3> QED
      BY <3>1, <3>2
  <2> QED
    BY <1>7, <1>8, <2>1 DEF CloseEnds, IInv, ProcsKnown
<1>9. CASE HostCrash
  BY <1>7, <1>9 DEF HostCrash, IInv, ledger
<1>10. CASE HostStart
  <2>1. /\ host' = "up" /\ disk' = data' /\ procs = {} /\ launching = NoRun
        /\ UNCHANGED <<launching, procs, worker>>
        /\ \A r \in Runs : worker[r] = "none"
    BY <1>10 DEF HostStart, IInv, ProcsKnown
  <2>2. LedgersFit(disk.run, rows)
    BY DEF IInv
  <2>3. /\ LedgersFit(data'.run, rows')
        /\ \A r \in Runs : data'.run[r] \notin Active
    <3> DEFINE active == {r \in Runs : disk.run[r] \in Active}
    <3>1. CASE active = {}
      BY <1>10, <2>2, <3>1 DEF HostStart
    <3>2. CASE active # {}
      <4>1. PICK r \in active : Finalize(disk, r, rows[r], "interrupted")
        BY <1>10, <3>2 DEF HostStart
      <4>2. /\ LedgersFit(data'.run, rows')
            /\ data'.run = [disk.run EXCEPT ![r] = FinalStatus(rows[r], "interrupted")]
        BY <1>1, <1>2, <2>2, <4>1
      <4>3. FinalStatus(rows[r], "interrupted") \notin Active
        BY DEF FinalStatus, Active
      <4>4. \A q \in active : q = r
        BY <2>2, <4>1 DEF LedgersFit
      <4> QED
        BY <1>1, <4>2, <4>3, <4>4
    <3> QED
      BY <3>1, <3>2
  <2>4. ProcsKnown' /\ WorkersActive'
    BY <2>1 DEF IInv, ProcsKnown, WorkersActive, Alive
  <2>5. OneOwner' /\ OthersKnown'
    BY <2>1, <2>3 DEF OneOwner, OthersKnown, ActiveRuns
  <2> QED
    BY <2>1, <2>3, <2>4, <2>5 DEF IInv
<1> QED
  BY <1>3, <1>4, <1>5, <1>6, <1>8, <1>9, <1>10

LEMMA IInvStep ==
  ASSUME IInv, [Next]_vars
  PROVE  IInv'
<1>1. TypeOK'
  BY TypedStep DEF IInv
<1>2. CASE \/ UNCHANGED vars
           \/ \E r \in Runs, a \in Actions : Lapse(r, a)
  <2>1. UNCHANGED <<host, data, disk, launching, procs, worker, rows>>
    BY <1>2 DEF vars, Lapse, HostUntouched
  <2> QED
    <3>1. (host # "down" => LedgersFit(data.run, rows))' /\ LedgersFit(disk.run, rows)'
      BY <2>1 DEF IInv
    <3>2. ProcsKnown' /\ OneOwner' /\ WorkersActive' /\ OthersKnown'
      BY <2>1 DEF IInv, ProcsKnown, OneOwner, WorkersActive, OthersKnown, ActiveRuns
    <3> QED
      BY <1>1, <3>1, <3>2 DEF IInv
<1> QED
  BY <1>1, <1>2, HostStep, RequestStep, WorkStep, CollectedStep DEF Next

THEOREM Invariant == Spec => []IInv
  BY IInvInit, IInvStep, PTL DEF Spec

-----------------------------------------------------------------------------
(* The theorems.                                                           *)

LEMMA StatesOfRuns ==
  IInv => /\ NoLiveRowAfterEnd /\ EndedMeansKnown
          /\ WorkerIsAccounted /\ OneActiveRun
<1> SUFFICES ASSUME IInv
             PROVE  /\ NoLiveRowAfterEnd /\ EndedMeansKnown
                    /\ WorkerIsAccounted /\ OneActiveRun
  OBVIOUS
<1>1. NoLiveRowAfterEnd /\ EndedMeansKnown
  BY DEF IInv, LedgersFit, Settled, NoLiveRowAfterEnd, EndedMeansKnown
<1>2. WorkerIsAccounted
  BY DEF IInv, ProcsKnown, OneOwner, WorkersActive, WorkerIsAccounted, Alive, Active
<1>3. OneActiveRun
  BY DEF IInv, OneOwner, OneActiveRun
<1> QED
  BY <1>1, <1>2, <1>3

\* Once the host shows a run as ended, no row of its ledger waits for an
\* approval or for its execution, however the run came to its end: finished,
\* cancelled while its worker ended, refused, or found by a new host.
THEOREM NoLiveRows == Spec => []NoLiveRowAfterEnd
  BY Invariant, StatesOfRuns, PTL

\* No run is shown as ended over a write that may or may not have happened.
THEOREM EndedKnown == Spec => []EndedMeansKnown
  BY Invariant, StatesOfRuns, PTL

\* One worker at most, and a host that starts over from the state file at any
\* moment finds its run active.
THEOREM WorkersAccounted == Spec => []WorkerIsAccounted
  BY Invariant, StatesOfRuns, PTL

\* Whatever requests cross, one run of the business is active.
THEOREM OneActive == Spec => []OneActiveRun
  BY Invariant, StatesOfRuns, PTL

\* A row becomes "sending" by its worker's mark_sending() alone.
LEMMA OnlyMarkSends ==
  ASSUME TypeOK, Next, NEW r \in Runs, NEW a \in Actions,
         rows[r][a] # "sending", rows'[r][a] = "sending"
  PROVE  worker[r] = "running"
<1> USE DEF TypeOK
<1>1. ASSUME NEW q \in Runs, NEW b \in Actions, NEW s \in RowStatuses \ {"sending"}, SetRow(q, b, s)
      PROVE  FALSE
  BY <1>1 DEF SetRow
<1>2. ASSUME NEW rr, NEW q \in Runs, rows' = [rows EXCEPT ![q] = ClosedRows(rr)],
             q = r => rr[a] # "sending"
      PROVE  FALSE
  BY <1>2 DEF ClosedRows
<1>3. ASSUME NEW d, NEW q \in Runs, NEW s, Finalize(d, q, rows[q], s)
      PROVE  FALSE
  BY <1>2, <1>3 DEF Finalize
<1>4. ASSUME NEW q \in Runs, Requests(q)
      PROVE  FALSE
  <2>1. CASE StartRun(q) \/ ResumeRun(q) \/ Cancel(q)
    BY <1>3, <2>1 DEF StartRun, ResumeRun, Cancel
  <2>2. ASSUME NEW b \in Actions, Approve(q, b)
        PROVE  FALSE
    BY <1>1, <2>2 DEF Approve, RowStatuses, Waiting
  <2>3. ASSUME NEW b \in Actions, ApproveStale(q, b)
        PROVE  FALSE
    BY <1>3, <2>3 DEF ApproveStale
  <2>4. ASSUME NEW b \in Actions, Refuse(q, b)
        PROVE  FALSE
    <3>1. rows' = [rows EXCEPT ![q] = ClosedRows(RowsRevoked(q))]
      BY <2>4 DEF Refuse, Finalize
    <3>2. q = r => RowsRevoked(q)[a] # "sending"
      BY DEF RowsRevoked
    <3> QED
      BY <1>2, <3>1, <3>2
  <2>5. ASSUME NEW b \in Actions, Revise(q, b)
        PROVE  FALSE
    BY <1>2, <2>5 DEF Revise
  <2>6. ASSUME NEW b \in Actions, Reconcile(q, b)
        PROVE  FALSE
    BY <1>1, <2>6 DEF Reconcile, RowStatuses, Uncertain, Done
  <2> QED
    BY <1>4, <2>1, <2>2, <2>3, <2>4, <2>5, <2>6 DEF Requests
<1>5. ASSUME NEW q \in Runs, Work(q)
      PROVE  worker[r] = "running"
  <2>1. CASE Boot(q)
    BY <2>1 DEF Boot
  <2>2. ASSUME NEW b \in Actions, Propose(q, b)
        PROVE  FALSE
    BY <2>2 DEF Propose
  <2>3. ASSUME NEW b \in Actions, ClaimRow(q, b) \/ FinishRow(q, b)
        PROVE  FALSE
    BY <1>1, <2>3 DEF ClaimRow, FinishRow, RowStatuses, Uncertain, Done
  <2>4. ASSUME NEW b \in Actions, MarkRow(q, b)
        PROVE  worker[r] = "running"
    BY <2>4 DEF MarkRow, SetRow
  <2> QED
    BY <1>5, <2>1, <2>2, <2>3, <2>4 DEF Work, Report, Exit, ledger
<1>6. CASE \/ Save \/ Launch \/ LaunchFails
           \/ CloseBegins \/ CloseEnds \/ HostCrash \/ HostStart
  <2>1. CASE Save \/ Launch \/ CloseBegins \/ HostCrash
    BY <2>1 DEF Save, Launch, CloseBegins, HostCrash, ledger
  <2>2. CASE LaunchFails
    BY <1>3, <2>2 DEF LaunchFails
  <2>3. CASE CloseEnds
    BY <1>3, <2>3 DEF CloseEnds, ActiveRuns
  <2>4. CASE HostStart
    BY <1>3, <2>4 DEF HostStart
  <2> QED
    BY <1>6, <2>1, <2>2, <2>3, <2>4
<1>7. ASSUME NEW q \in Runs, Consume(q) \/ Collect(q) \/ ReadbackFails(q)
      PROVE  FALSE
  BY <1>3, <1>7 DEF Consume, Collect, ReadbackFails, ledger
<1>8. ASSUME NEW q \in Runs, Dies(q) \/ \E b \in Actions : Lapse(q, b)
      PROVE  FALSE
  BY <1>8 DEF Dies, Lapse, ledger
<1> QED
  BY <1>4, <1>5, <1>6, <1>7, <1>8 DEF Next

\* Nothing is sent for a run unless the host shows it as running, or as being
\* cancelled.
THEOREM DispatchedRunning == Spec => DispatchWhileRunning
<1>1. ASSUME IInv, [Next]_vars, NEW r \in Runs, NEW a \in Actions,
             rows[r][a] # "sending", rows'[r][a] = "sending"
      PROVE  data.run[r] \in {"running", "cancel_requested"}
  <2>1. Next
    BY <1>1 DEF vars
  <2>2. worker[r] = "running"
    BY <1>1, <2>1, OnlyMarkSends DEF IInv
  <2> QED
    BY <1>1, <2>2 DEF IInv, WorkersActive, Alive
<1>2. ASSUME IInv, [Next]_vars
      PROVE  [\A r \in Runs, a \in Actions :
                rows[r][a] # "sending" /\ rows'[r][a] = "sending"
                => data.run[r] \in {"running", "cancel_requested"}]_vars
  BY <1>1, <1>2
<1> QED
  BY <1>2, Invariant, PTL DEF Spec, DispatchWhileRunning

\* A run begins or goes on only when every other run's writes are known.
THEOREM NoneOverUncertain == Spec => NoRunOverUncertain
<1>1. ASSUME IInv, [Next]_vars, NEW r \in Runs, NEW q \in Runs, r # q,
             launching = NoRun, launching' = r
      PROVE  Statuses(rows[q]) \cap Uncertain = {}
  <2>1. r # NoRun
    BY DEF Runs, NoRun
  <2>2. Requests(r)
    <3>1. ~(Save \/ Launch \/ LaunchFails \/ CloseBegins \/ CloseEnds \/ HostCrash \/ HostStart)
      BY <1>1, <2>1 DEF Save, Launch, LaunchFails, CloseBegins, CloseEnds, HostCrash, HostStart
    <3>2. ASSUME NEW p \in Runs, Consume(p) \/ Collect(p) \/ ReadbackFails(p)
          PROVE  FALSE
      BY <1>1, <2>1, <3>2 DEF Consume, Collect, ReadbackFails
    <3>3. ASSUME NEW p \in Runs,
                 \/ Work(p) \/ Dies(p)
                 \/ \E a \in Actions : Lapse(p, a)
          PROVE  FALSE
      BY <1>1, <2>1, <3>3 DEF Work, Boot, Propose, ClaimRow, MarkRow, FinishRow, Report, Exit,
         Dies, Lapse, HostUntouched
    <3>4. ASSUME NEW p \in Runs, Requests(p)
          PROVE  p = r
      BY <1>1, <2>1, <3>4 DEF Requests, StartRun, ResumeRun, Cancel, Approve, ApproveStale,
         Refuse, Revise, Reconcile
    <3> QED
      BY <1>1, <2>1, <3>1, <3>2, <3>3, <3>4 DEF Next, vars
  <2>3. CASE StartRun(r) \/ ResumeRun(r)
    <3>1. Ready /\ IdleBut(NoRun) /\ WritesKnown
      BY <1>1, <2>1, <2>3 DEF StartRun, ResumeRun
    <3> QED
      BY <1>1, <3>1, IdleKnown
  <2>4. CASE \E a \in Actions : Approve(r, a) \/ Revise(r, a)
    <3>1. Ready /\ data.run[r] \in Active /\ r \notin procs
      BY <2>4 DEF Approve, Revise, Decidable, Active
    <3> QED
      BY <1>1, <3>1, WaitingAlone
  <2>5. CASE \/ Cancel(r)
             \/ \E a \in Actions : ApproveStale(r, a) \/ Refuse(r, a) \/ Reconcile(r, a)
    BY <1>1, <2>1, <2>5 DEF Cancel, ApproveStale, Refuse, Reconcile
  <2> QED
    BY <2>2, <2>3, <2>4, <2>5 DEF Requests
<1>2. ASSUME IInv, [Next]_vars
      PROVE  [\A r, q \in Runs :
                r # q /\ launching = NoRun /\ launching' = r
                => Statuses(rows[q]) \cap Uncertain = {}]_vars
  BY <1>1, <1>2
<1> QED
  BY <1>2, Invariant, PTL DEF Spec, NoRunOverUncertain
=============================================================================
