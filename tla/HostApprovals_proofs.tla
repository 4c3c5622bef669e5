------------------------- MODULE HostApprovals_proofs -------------------------
(***************************************************************************)
(* Theorems about the approvals of HostRuns: what the user is shown, and   *)
(* what the ledger of the run makes of it, for any number of runs, actions *)
(* and unread events.  An approval is copied in three places, the ledger,  *)
(* the host's memory and the state file; the argument is which of the      *)
(* three may run ahead of which.                                           *)
(***************************************************************************)
EXTENDS HostRuns_proofs

\* What the host has been told of, or will read, is in the ledger.
Proposed(r) ==
  /\ \A a \in data.pending[r] \cup disk.pending[r] : rows[r][a] # "none"
  /\ \A i \in DOMAIN pipe[r] : \A a \in Actions :
       pipe[r][i] = Event("proposed", a) => rows[r][a] # "none"

\* What the user has decided against, in memory or on disk, cannot be claimed.
ClosedStay(r) ==
  \A a \in Actions : data.approval[r][a] = "closed" \/ disk.approval[r][a] = "closed"
    => rows[r][a] \notin {"approved", "executing"}

\* Of a run that is active, or has a worker, the approvals that are open are shown.
OpenShown(r) ==
  data.run[r] \in Active \/ r \in procs =>
    \A a \in data.pending[r] :
      rows[r][a] = "pending_approval" => data.approval[r][a] = "pending_approval"

\* A run that waits for the user waits for an approval that is open.
WaitingOpen(r) ==
  data.run[r] = "awaiting_approval" =>
    /\ r \notin procs
    /\ \E a \in data.pending[r] : data.approval[r][a] = "pending_approval"
    /\ \A a \in data.pending[r] :
         /\ rows[r][a] \in Waiting
         /\ data.approval[r][a] = "pending_approval" => rows[r][a] = "pending_approval"

ApprovalsInv ==
  /\ \A r \in Runs : Proposed(r) /\ ClosedStay(r)
  /\ host # "down" => \A r \in Runs : OpenShown(r) /\ WaitingOpen(r)

-----------------------------------------------------------------------------
(* What the handlers do to the approvals of a run.                         *)

\* The end of a run: a row that waits is closed with its approval, or both stay.
LEMMA EndFacts ==
  ASSUME TypeOK, NEW d \in Data, NEW r \in Runs, NEW rr \in Ledgers, NEW s \in Ended,
         Finalize(d, r, rr, s)
  PROVE  /\ \A q \in Runs : q # r => /\ data'.run[q] = d.run[q]
                                     /\ data'.approval[q] = d.approval[q]
                                     /\ data'.pending[q] = d.pending[q]
                                     /\ rows'[q] = rows[q]
         /\ data'.run[r] \in Ended \cup {"needs_reconciliation"}
         /\ data'.pending[r] \subseteq d.pending[r]
         /\ \A a \in Actions :
              \/ rows'[r][a] = rr[a] /\ data'.approval[r][a] = d.approval[r][a]
              \/ rr[a] \in Waiting /\ rows'[r][a] = "known_failed"
<1> DEFINE final == FinalStatus(rr, s)
           closed == ClosedRows(rr)
           shown == [a \in Actions |-> IF closed[a] # rr[a] /\ d.approval[r][a] \in Waiting
                                       THEN "closed" ELSE d.approval[r][a]]
           settled(a) == final # "needs_reconciliation" /\ closed[a] \in Done
           left == IF \A a \in d.pending[r] : settled(a) THEN {} ELSE d.pending[r]
           goal == IF final = "failed" /\ ~d.touched[r] THEN FALSE ELSE d.goalSubmitted
<1>1. data' = [d EXCEPT !.run[r] = final, !.stop[r] = "none", !.approval[r] = shown,
                        !.pending[r] = left, !.active = NoRun, !.business = final,
                        !.goalSubmitted = goal]
  BY DEF Finalize, Finalized, Data
<1>2. rows' = [rows EXCEPT ![r] = closed]
  BY DEF Finalize
<1>3. left \subseteq d.pending[r]
  OBVIOUS
<1>4. \A a \in Actions : \/ closed[a] = rr[a] /\ shown[a] = d.approval[r][a]
                         \/ rr[a] \in Waiting /\ closed[a] = "known_failed"
  BY DEF ClosedRows, Ledgers
<1>5. final \in Ended \cup {"needs_reconciliation"}
  BY DEF FinalStatus
<1> HIDE DEF final, shown, left, goal, closed
<1>6. /\ data'.run = [d.run EXCEPT ![r] = final]
      /\ data'.approval = [d.approval EXCEPT ![r] = shown]
      /\ data'.pending = [d.pending EXCEPT ![r] = left]
  BY <1>1 DEF Data
<1>7. /\ DOMAIN d.run = Runs /\ DOMAIN d.approval = Runs /\ DOMAIN d.pending = Runs
      /\ DOMAIN rows = Runs
  BY DEF Data, TypeOK
<1>8. /\ data'.run[r] = final /\ data'.approval[r] = shown /\ data'.pending[r] = left
      /\ rows'[r] = closed
  BY <1>2, <1>6, <1>7
<1>9. \A q \in Runs : q # r => /\ data'.run[q] = d.run[q]
                               /\ data'.approval[q] = d.approval[q]
                               /\ data'.pending[q] = d.pending[q]
                               /\ rows'[q] = rows[q]
  BY <1>2, <1>6, <1>7
<1> QED
  BY <1>3, <1>4, <1>5, <1>8, <1>9

\* A run that is shown as running again.
LEMMA ActivatedCards ==
  ASSUME NEW d \in Data, NEW r \in Runs
  PROVE  /\ Activated(d, r).run = [d.run EXCEPT ![r] = "running"]
         /\ Activated(d, r).approval = d.approval /\ Activated(d, r).pending = d.pending
  BY DEF Activated, Data

\* A step that concerns one run.
LEMMA OneRun ==
  ASSUME ApprovalsInv, host # "down" \/ UNCHANGED host, disk' = disk, NEW r \in Runs,
         \A q \in Runs : q # r => /\ data'.run[q] = data.run[q]
                                  /\ data'.approval[q] = data.approval[q]
                                  /\ data'.pending[q] = data.pending[q]
                                  /\ rows'[q] = rows[q] /\ pipe'[q] = pipe[q]
                                  /\ q \in procs' => q \in procs,
         Proposed(r)', ClosedStay(r)', host # "down" => OpenShown(r)' /\ WaitingOpen(r)'
  PROVE  ApprovalsInv'
<1>1. ASSUME NEW q \in Runs, q # r
      PROVE  Proposed(q)' /\ ClosedStay(q)'
  BY <1>1 DEF ApprovalsInv, Proposed, ClosedStay
<1>2. ASSUME NEW q \in Runs, q # r, host # "down"
      PROVE  OpenShown(q)' /\ WaitingOpen(q)'
  BY <1>2 DEF ApprovalsInv, OpenShown, WaitingOpen
<1> QED
  BY <1>1, <1>2 DEF ApprovalsInv

\* A step that ends a run with the ledger it has.
LEMMA EndStep ==
  ASSUME IInv, ApprovalsInv, host # "down", disk' = disk, NEW r \in Runs, NEW s \in Ended,
         Finalize(data, r, rows[r], s), procs' \subseteq procs, pipe' = pipe
  PROVE  ApprovalsInv'
<1>1. rows[r] \in Ledgers /\ data \in Data /\ TypeOK
  BY DEF IInv, TypeOK, Ledgers
<1>2. \A q \in Runs : q # r => /\ data'.run[q] = data.run[q]
                               /\ data'.approval[q] = data.approval[q]
                               /\ data'.pending[q] = data.pending[q]
                               /\ rows'[q] = rows[q]
  BY <1>1, EndFacts
<1>3. /\ data'.run[r] \in Ended \cup {"needs_reconciliation"}
      /\ data'.pending[r] \subseteq data.pending[r]
  BY <1>1, EndFacts
<1>4. \A a \in Actions :
        \/ rows'[r][a] = rows[r][a] /\ data'.approval[r][a] = data.approval[r][a]
        \/ rows[r][a] \in Waiting /\ rows'[r][a] = "known_failed"
  BY <1>1, EndFacts
<1>5. data.pending[r] \subseteq Actions /\ disk.pending[r] \subseteq Actions
  BY DEF IInv, TypeOK, Data
<1>6. Proposed(r)'
  BY <1>3, <1>4, <1>5 DEF ApprovalsInv, Proposed
<1>7. ClosedStay(r)'
  BY <1>4 DEF ApprovalsInv, ClosedStay
<1>8. OpenShown(r)'
  BY <1>3, <1>4, <1>5 DEF ApprovalsInv, OpenShown, Active, Ended
<1>9. WaitingOpen(r)'
  BY <1>3 DEF WaitingOpen, Ended
<1> QED
  BY <1>2, <1>6, <1>7, <1>8, <1>9, OneRun

-----------------------------------------------------------------------------
(* Workers.                                                                *)

\* A worker's step takes its rows on, and prints of those it has.
LEMMA WorkFacts ==
  ASSUME TypeOK, NEW r \in Runs, Work(r) \/ Dies(r)
  PROVE  /\ HostUntouched /\ worker[r] \in Alive
         /\ \A q \in Runs : q # r => rows'[q] = rows[q] /\ pipe'[q] = pipe[q]
         /\ \A a \in Actions :
              /\ rows'[r][a] = "none" => rows[r][a] = "none"
              /\ rows'[r][a] = "pending_approval" => rows[r][a] \in {"none", "pending_approval"}
              /\ rows'[r][a] \in {"approved", "executing"}
                   => rows[r][a] \in {"approved", "executing"}
         /\ \A i \in DOMAIN pipe'[r] : \A a \in Actions :
              pipe'[r][i] = Event("proposed", a)
              => rows'[r][a] # "none" \/ (i \in DOMAIN pipe[r] /\ pipe[r][i] = pipe'[r][i])
<1> DEFINE Rows == \A a \in Actions :
             /\ rows'[r][a] = "none" => rows[r][a] = "none"
             /\ rows'[r][a] = "pending_approval" => rows[r][a] \in {"none", "pending_approval"}
             /\ rows'[r][a] \in {"approved", "executing"}
                  => rows[r][a] \in {"approved", "executing"}
           Pipe == \A i \in DOMAIN pipe'[r] : \A a \in Actions :
             pipe'[r][i] = Event("proposed", a)
             => rows'[r][a] # "none" \/ (i \in DOMAIN pipe[r] /\ pipe[r][i] = pipe'[r][i])
           Alone == /\ HostUntouched /\ worker[r] \in Alive
                    /\ \A q \in Runs : q # r => rows'[q] = rows[q] /\ pipe'[q] = pipe[q]
<1> USE DEF TypeOK
<1>1. UNCHANGED pipe => Pipe
  OBVIOUS
<1>2. UNCHANGED rows => Rows
  OBVIOUS
<1>3. ASSUME NEW e, Emit(r, e), NEW b,
             e = Event("proposed", b) => b \in Actions /\ rows'[r][b] # "none",
             \A a \in Actions : e = Event("proposed", a) => a = b
      PROVE  Pipe
  <2>1. pipe'[r] = Append(pipe[r], e) /\ pipe[r] \in Seq(Events)
    BY <1>3 DEF Emit
  <2>2. \A i \in DOMAIN pipe'[r] :
          (i \in DOMAIN pipe[r] /\ pipe'[r][i] = pipe[r][i]) \/ pipe'[r][i] = e
    BY <2>1
  <2> QED
    BY <1>3, <2>2
<1>4. ASSUME NEW e, Emit(r, e)
      PROVE  \A q \in Runs : q # r => pipe'[q] = pipe[q]
  BY <1>4 DEF Emit
<1>5. ASSUME NEW a \in Actions, NEW s \in RowStatuses, SetRow(r, a, s)
      PROVE  /\ \A q \in Runs : q # r => rows'[q] = rows[q]
             /\ \A b \in Actions : rows'[r][b] = IF b = a THEN s ELSE rows[r][b]
  BY <1>5 DEF SetRow
<1> HIDE DEF Pipe
<1>6. CASE Boot(r)
  <2>1. Rows /\ Alone
    BY <1>6 DEF Boot, Alive
  <2> QED
    BY <1>1, <1>6, <2>1 DEF Boot, Pipe
<1>7. ASSUME NEW a \in Actions, Propose(r, a)
      PROVE  Rows /\ Alone /\ Pipe
  <2>1. rows' = [rows EXCEPT ![r] = [b \in Actions |->
          IF b = a THEN "pending_approval"
          ELSE IF rows[r][b] \in Waiting /\ lapsed[r][b] THEN "expired" ELSE rows[r][b]]]
    BY <1>7 DEF Propose
  <2>2. Rows /\ rows'[r][a] # "none" /\ \A q \in Runs : q # r => rows'[q] = rows[q]
    BY <1>7, <2>1 DEF Propose
  <2>3. \A b \in Actions : Event("proposed", a) = Event("proposed", b) => b = a
    BY DEF Event
  <2>4. Pipe
    <3> DEFINE e == Event("proposed", a)
    <3>1. Emit(r, e) \/ UNCHANGED pipe
      BY <1>7 DEF Propose
    <3>2. /\ e = Event("proposed", a) => a \in Actions /\ rows'[r][a] # "none"
          /\ \A b \in Actions : e = Event("proposed", b) => b = a
      BY <2>2, <2>3
    <3> HIDE DEF e
    <3> QED
      BY <1>1, <1>3, <3>1, <3>2
  <2>5. Alone
    BY <1>4, <1>7, <2>2 DEF Propose, Runnable, Alive
  <2> QED
    BY <2>2, <2>4, <2>5
<1>8. ASSUME NEW a \in Actions, ClaimRow(r, a) \/ MarkRow(r, a) \/ FinishRow(r, a)
      PROVE  Rows /\ Alone /\ Pipe
  <2>1. PICK s \in RowStatuses : /\ SetRow(r, a, s)
                                 /\ rows[r][a] # "none" /\ s \notin {"none", "pending_approval"}
                                 /\ s \in {"approved", "executing"} => rows[r][a] = "approved"
    BY <1>8 DEF ClaimRow, MarkRow, FinishRow, RowStatuses, Waiting, Uncertain, Done
  <2>2. Rows /\ \A q \in Runs : q # r => rows'[q] = rows[q]
    BY <1>5, <2>1
  <2>3. HostUntouched /\ UNCHANGED pipe /\ worker[r] \in Alive
    BY <1>8 DEF ClaimRow, MarkRow, FinishRow, Runnable, Alive
  <2> QED
    BY <1>1, <2>2, <2>3
<1>9. ASSUME NEW kind \in {"handoff", "stop", "tools"}
      PROVE  \A a : Event(kind, 0) # Event("proposed", a)
  BY DEF Event
<1>10. ASSUME NEW kind \in {"handoff", "tools"}, Report(r, kind)
       PROVE  Rows /\ Alone /\ Pipe
  BY <1>2, <1>3, <1>4, <1>9, <1>10 DEF Report, ledger, Runnable, Alive
<1>11. ASSUME NEW kind \in {"stop", "tools"}, NEW code \in {"exit0", "exit1"},
              Exit(r, kind, code)
       PROVE  Rows /\ Alone /\ Pipe
  BY <1>2, <1>3, <1>4, <1>9, <1>11 DEF Exit, ledger, Runnable, Alive
<1>12. CASE Dies(r)
  BY <1>1, <1>2, <1>12 DEF Dies, ledger
<1> QED
  BY <1>6, <1>7, <1>8, <1>10, <1>11, <1>12 DEF Work, Pipe

LEMMA ApprovalsWork ==
  ASSUME IInv, ApprovalsInv, NEW r \in Runs, Work(r) \/ Dies(r)
  PROVE  ApprovalsInv'
<1>1. /\ UNCHANGED <<host, data, disk, launching, procs>> /\ worker[r] \in Alive
      /\ \A q \in Runs : q # r => rows'[q] = rows[q] /\ pipe'[q] = pipe[q]
  BY WorkFacts DEF IInv, HostUntouched
<1>2. \A a \in Actions :
        /\ rows'[r][a] = "none" => rows[r][a] = "none"
        /\ rows'[r][a] = "pending_approval" => rows[r][a] \in {"none", "pending_approval"}
        /\ rows'[r][a] \in {"approved", "executing"} => rows[r][a] \in {"approved", "executing"}
  BY WorkFacts DEF IInv
<1>3. \A i \in DOMAIN pipe'[r] : \A a \in Actions :
        pipe'[r][i] = Event("proposed", a)
        => rows'[r][a] # "none" \/ (i \in DOMAIN pipe[r] /\ pipe[r][i] = pipe'[r][i])
  BY WorkFacts DEF IInv
<1>4. data.run[r] # "awaiting_approval" /\ host # "down"
  BY <1>1 DEF IInv, WorkersActive, ProcsKnown, Alive
<1>5. data.pending[r] \subseteq Actions /\ disk.pending[r] \subseteq Actions
  BY DEF IInv, TypeOK, Data
<1>6. Proposed(r)'
  BY <1>1, <1>2, <1>3, <1>5 DEF ApprovalsInv, Proposed
<1>7. ClosedStay(r)'
  BY <1>1, <1>2 DEF ApprovalsInv, ClosedStay
<1>8. OpenShown(r)'
  <2>1. \A a \in data.pending[r] : rows'[r][a] = "pending_approval"
       => rows[r][a] = "pending_approval"
    BY <1>2, <1>5 DEF ApprovalsInv, Proposed
  <2> QED
    BY <1>1, <1>4, <2>1 DEF ApprovalsInv, OpenShown
<1>9. WaitingOpen(r)'
  BY <1>1, <1>4 DEF WaitingOpen
<1> QED
  BY <1>1, <1>4, <1>6, <1>7, <1>8, <1>9, OneRun

-----------------------------------------------------------------------------
(* The user.                                                               *)

\* A run that starts, goes on or is cancelled with no change of its approvals.
LEMMA MovedStep ==
  ASSUME IInv, ApprovalsInv, host # "down", UNCHANGED <<disk, procs, pipe, rows>>,
         NEW r \in Runs, \A q \in Runs : q # r => data'.run[q] = data.run[q],
         data'.approval = data.approval, data'.pending = data.pending,
         data'.run[r] # "awaiting_approval",
         \/ data.run[r] \in Active
         \/ data'.run[r] \notin Active
         \/ \A a \in Actions : rows[r][a] # "pending_approval"
  PROVE  ApprovalsInv'
<1>1. data.pending[r] \subseteq Actions
  BY DEF IInv, TypeOK, Data
<1>2. Proposed(r)' /\ ClosedStay(r)'
  BY DEF ApprovalsInv, Proposed, ClosedStay
<1>3. OpenShown(r)'
  BY <1>1 DEF ApprovalsInv, OpenShown
<1>4. WaitingOpen(r)'
  BY DEF WaitingOpen
<1> QED
  BY <1>2, <1>3, <1>4, OneRun

LEMMA ApprovalsStart ==
  ASSUME IInv, ApprovalsInv, NEW r \in Runs, StartRun(r) \/ ResumeRun(r)
  PROVE  ApprovalsInv'
<1>1. /\ host # "down" /\ data \in Data /\ UNCHANGED <<disk, procs, pipe, rows>>
      /\ LedgersFit(data.run, rows)
  BY DEF StartRun, ResumeRun, Ready, IInv, TypeOK
<1>2. CASE data' = Activated(data, r)
  <2>1. \A a \in Actions : rows[r][a] # "pending_approval"
    <3>1. CASE StartRun(r)
      BY <1>1, <3>1 DEF StartRun, Known, LedgersFit, Unstarted
    <3>2. CASE ResumeRun(r)
      BY <3>2 DEF ResumeRun, Statuses, Done
    <3> QED
      BY <3>1, <3>2
  <2>2. /\ data'.run = [data.run EXCEPT ![r] = "running"]
        /\ data'.approval = data.approval /\ data'.pending = data.pending
    BY <1>1, <1>2, ActivatedCards
  <2>3. \A q \in Runs : data'.run[q] = IF q = r THEN "running" ELSE data.run[q]
    BY <1>1, <2>2 DEF Data
  <2> QED
    BY <1>1, <2>1, <2>2, <2>3, MovedStep
<1>3. CASE data' = [data EXCEPT !.business = "blocked"] /\ ~Known(r)
  <2>1. /\ data'.run = data.run
        /\ data'.approval = data.approval /\ data'.pending = data.pending
    BY <1>1, <1>3 DEF Data
  <2>2. data'.run[r] = "absent"
    BY <1>3, <2>1 DEF Known
  <2> QED
    BY <1>1, <2>1, <2>2, MovedStep DEF Active
<1> QED
  BY <1>2, <1>3 DEF StartRun, ResumeRun

LEMMA ApprovalsCancel ==
  ASSUME IInv, ApprovalsInv, NEW r \in Runs, Cancel(r)
  PROVE  ApprovalsInv'
<1>1. /\ host # "down" /\ data \in Data /\ UNCHANGED <<disk, procs, pipe>>
      /\ data.run[r] \in Active /\ "cancelled" \in Ended
  BY DEF Cancel, Ready, IInv, TypeOK, Active, Ended
<1>2. CASE /\ data' = [data EXCEPT !.stop[r] = "cancelled", !.run[r] = "cancel_requested",
                                   !.business = "cancel_requested"]
           /\ UNCHANGED rows
  <2>1. /\ data'.run = [data.run EXCEPT ![r] = "cancel_requested"]
        /\ data'.approval = data.approval /\ data'.pending = data.pending
    BY <1>1, <1>2 DEF Data
  <2>2. \A q \in Runs : data'.run[q] = IF q = r THEN "cancel_requested" ELSE data.run[q]
    BY <1>1, <2>1 DEF Data
  <2> QED
    BY <1>1, <1>2, <2>1, <2>2, MovedStep
<1>3. CASE Finalize(data, r, rows[r], "cancelled")
  BY <1>1, <1>3, EndStep
<1> QED
  BY <1>2, <1>3 DEF Cancel

\* An approval that the user can decide on.
LEMMA DecidableFacts ==
  ASSUME IInv, ApprovalsInv, NEW r \in Runs, NEW a \in Actions, Ready, Decidable(r, a)
  PROVE  /\ host # "down" /\ disk = data /\ data \in Data /\ rows[r] \in Ledgers
         /\ data.run[r] = "awaiting_approval" /\ r \notin procs
         /\ data.pending[r] \subseteq Actions /\ a \in data.pending[r]
         /\ data.approval[r][a] = "pending_approval" /\ rows[r][a] = "pending_approval"
         /\ \A b \in data.pending[r] : rows[r][b] \in Waiting
         /\ \A b \in data.pending[r] :
              data.approval[r][b] = "pending_approval" => rows[r][b] = "pending_approval"
  BY DEF Ready, Decidable, IInv, TypeOK, Data, Ledgers, ApprovalsInv, WaitingOpen

LEMMA ApprovalsApprove ==
  ASSUME IInv, ApprovalsInv, NEW r \in Runs, NEW a \in Actions, Approve(r, a)
  PROVE  ApprovalsInv'
<1> DEFINE d == [data EXCEPT !.approval[r][a] = "approved"]
<1>1. /\ host # "down" /\ disk = data /\ data \in Data /\ rows[r] \in Ledgers
      /\ data.run[r] = "awaiting_approval" /\ r \notin procs
      /\ data.pending[r] \subseteq Actions
      /\ data.approval[r][a] = "pending_approval"
      /\ \A b \in data.pending[r] : rows[r][b] \in Waiting
      /\ \A b \in data.pending[r] :
           data.approval[r][b] = "pending_approval" => rows[r][b] = "pending_approval"
      /\ UNCHANGED <<disk, procs, pipe>> /\ SetRow(r, a, "approved")
  BY DecidableFacts DEF Approve
<1>2. /\ d \in Data /\ d.run = data.run /\ d.pending = data.pending
      /\ \A q \in Runs : q # r => d.approval[q] = data.approval[q]
      /\ \A b \in Actions : d.approval[r][b] = IF b = a THEN "approved" ELSE data.approval[r][b]
  BY <1>1 DEF Data, Cards
<1>3. /\ \A q \in Runs : q # r => rows'[q] = rows[q]
      /\ \A b \in Actions : rows'[r][b] = IF b = a THEN "approved" ELSE rows[r][b]
  BY DEF Approve, SetRow, IInv, TypeOK
<1>4. \/ data' = d /\ \E b \in data.pending[r] : d.approval[r][b] = "pending_approval"
      \/ data' = [Activated(d, r) EXCEPT !.pending[r] = {}]
  BY <1>2 DEF Approve
<1> HIDE DEF d
<1>5. /\ data'.approval = d.approval /\ data'.pending[r] \subseteq data.pending[r]
      /\ \A q \in Runs : q # r => data'.run[q] = data.run[q] /\ data'.pending[q] = data.pending[q]
      /\ \/ /\ data'.run[r] = data.run[r] /\ data'.pending[r] = data.pending[r]
            /\ \E b \in data.pending[r] : d.approval[r][b] = "pending_approval"
         \/ data'.run[r] = "running" /\ data'.pending[r] = {}
  <2>1. CASE data' = d /\ \E b \in data.pending[r] : d.approval[r][b] = "pending_approval"
    BY <1>2, <2>1
  <2>2. CASE data' = [Activated(d, r) EXCEPT !.pending[r] = {}]
    <3> DEFINE e == Activated(d, r)
    <3>1. /\ e \in Data /\ e.run = [data.run EXCEPT ![r] = "running"]
          /\ e.approval = d.approval /\ e.pending = data.pending
      BY <1>2, ActivatedCards, ActivatedFacts
    <3> HIDE DEF e
    <3>2. /\ data'.run = e.run /\ data'.approval = e.approval
          /\ data'.pending = [e.pending EXCEPT ![r] = {}]
      BY <2>2, <3>1 DEF e, Data
    <3> QED
      BY <1>1, <3>1, <3>2 DEF Data
  <2> QED
    BY <1>4, <2>1, <2>2
<1>6. Proposed(r)'
  BY <1>1, <1>3, <1>5 DEF ApprovalsInv, Proposed
<1>7. ClosedStay(r)'
  BY <1>1, <1>2, <1>3, <1>5 DEF ApprovalsInv, ClosedStay
<1>8. OpenShown(r)'
  BY <1>1, <1>2, <1>3, <1>5 DEF ApprovalsInv, OpenShown, Active
<1>9. WaitingOpen(r)'
  <2>1. CASE /\ data'.run[r] = data.run[r] /\ data'.pending[r] = data.pending[r]
             /\ \E b \in data.pending[r] : d.approval[r][b] = "pending_approval"
    BY <1>1, <1>2, <1>3, <1>5, <2>1 DEF WaitingOpen, Waiting
  <2>2. CASE data'.run[r] = "running"
    BY <2>2 DEF WaitingOpen
  <2> QED
    BY <1>5, <2>1, <2>2
<1> QED
  BY <1>1, <1>2, <1>3, <1>5, <1>6, <1>7, <1>8, <1>9, OneRun

\* An approval decided otherwise: the run ends, its ledger closed or as it was.
LEMMA DecidedStep ==
  ASSUME IInv, ApprovalsInv, NEW r \in Runs, host # "down", disk' = disk,
         NEW d \in Data, d.run = data.run, d.pending = data.pending,
         \A q \in Runs : q # r => d.approval[q] = data.approval[q],
         NEW rr \in Ledgers,
         \A a \in Actions :
           /\ rr[a] = "none" => rows[r][a] = "none"
           /\ rr[a] \in {"approved", "executing"} => rr[a] = rows[r][a]
           /\ d.approval[r][a] = "closed" /\ data.approval[r][a] # "closed"
                => rr[a] \notin {"approved", "executing"},
         Finalize(d, r, rr, "failed"), r \notin procs, UNCHANGED <<procs, pipe>>
  PROVE  ApprovalsInv'
<1>1. TypeOK /\ "failed" \in Ended /\ data.pending[r] \subseteq Actions
  BY DEF IInv, TypeOK, Data, Ended
<1>2. \A q \in Runs : q # r => /\ data'.run[q] = data.run[q]
                               /\ data'.approval[q] = data.approval[q]
                               /\ data'.pending[q] = data.pending[q]
                               /\ rows'[q] = rows[q]
  BY <1>1, EndFacts
<1>3. /\ data'.run[r] \in Ended \cup {"needs_reconciliation"}
      /\ data'.pending[r] \subseteq data.pending[r]
  BY <1>1, EndFacts
<1>4. \A a \in Actions :
        \/ rows'[r][a] = rr[a] /\ data'.approval[r][a] = d.approval[r][a]
        \/ rr[a] \in Waiting /\ rows'[r][a] = "known_failed"
  BY <1>1, EndFacts
<1>5. disk.pending[r] \subseteq Actions
  BY DEF IInv, TypeOK, Data
<1>6. Proposed(r)'
  BY <1>1, <1>3, <1>4, <1>5 DEF ApprovalsInv, Proposed
<1>7. ClosedStay(r)'
  BY <1>4 DEF ApprovalsInv, ClosedStay
<1>8. OpenShown(r)' /\ WaitingOpen(r)'
  BY <1>3 DEF OpenShown, WaitingOpen, Active, Ended
<1> QED
  BY <1>2, <1>6, <1>7, <1>8, OneRun

LEMMA ApprovalsRefuse ==
  ASSUME IInv, ApprovalsInv, NEW r \in Runs, NEW a \in Actions,
         ApproveStale(r, a) \/ Refuse(r, a)
  PROVE  ApprovalsInv'
<1>1. Ready /\ Decidable(r, a) /\ UNCHANGED <<disk, procs, pipe>>
  BY DEF ApproveStale, Refuse
<1>2. /\ host # "down" /\ data \in Data /\ rows[r] \in Ledgers /\ r \notin procs
      /\ rows[r][a] = "pending_approval" /\ TypeOK
      /\ \A b \in data.pending[r] : rows[r][b] \in Waiting
  BY <1>1, DecidableFacts DEF IInv
<1>3. CASE ApproveStale(r, a)
  <2> DEFINE d == [data EXCEPT !.approval[r][a] = "closed"]
  <2>1. /\ d \in Data /\ d.run = data.run /\ d.pending = data.pending
        /\ \A q \in Runs : q # r => d.approval[q] = data.approval[q]
        /\ \A b \in Actions : d.approval[r][b] = IF b = a THEN "closed" ELSE data.approval[r][b]
    BY <1>2 DEF Data, Cards
  <2>2. Finalize(d, r, rows[r], "failed")
    BY <1>3 DEF ApproveStale
  <2> HIDE DEF d
  <2> QED
    BY <1>1, <1>2, <2>1, <2>2, DecidedStep
<1>4. CASE Refuse(r, a)
  <2> DEFINE d == CardsRevoked(r)
             rr == RowsRevoked(r)
             shown == [b \in Actions |-> IF b \in data.pending[r] /\ data.approval[r][b] # "none"
                                         THEN "closed" ELSE data.approval[r][b]]
  <2>1. d \in Data /\ rr \in Ledgers
    BY <1>2, CardsTyped
  <2>2. d = [data EXCEPT !.approval[r] = shown]
    BY <1>2 DEF CardsRevoked, Data
  <2>3. \A b \in Actions : rr[b] = IF b \in data.pending[r] THEN "known_failed" ELSE rows[r][b]
    BY <1>2 DEF RowsRevoked
  <2>4. \A b \in Actions : shown[b] = "closed" /\ data.approval[r][b] # "closed"
                           => b \in data.pending[r]
    OBVIOUS
  <2> HIDE DEF shown, rr
  <2>5. /\ d.run = data.run /\ d.pending = data.pending
        /\ d.approval = [data.approval EXCEPT ![r] = shown]
    BY <1>2, <2>2 DEF Data
  <2> HIDE DEF d
  <2>6. /\ \A q \in Runs : q # r => d.approval[q] = data.approval[q]
        /\ d.approval[r] = shown
    BY <1>2, <2>5 DEF Data
  <2>7. Finalize(d, r, rr, "failed")
    BY <1>4 DEF Refuse, d, rr
  <2>8. \A b \in Actions :
          /\ rr[b] = "none" => rows[r][b] = "none"
          /\ rr[b] \in {"approved", "executing"} => rr[b] = rows[r][b]
          /\ d.approval[r][b] = "closed" /\ data.approval[r][b] # "closed"
               => rr[b] \notin {"approved", "executing"}
    BY <2>3, <2>4, <2>6
  <2> QED
    BY <1>1, <1>2, <2>1, <2>5, <2>6, <2>7, <2>8, DecidedStep
<1> QED
  BY <1>3, <1>4

LEMMA ApprovalsRevise ==
  ASSUME IInv, ApprovalsInv, NEW r \in Runs, NEW a \in Actions, Revise(r, a)
  PROVE  ApprovalsInv'
<1> DEFINE d == Finalized(data, r, rows[r], "cancelled")
           rr == ClosedRows(rows[r])
<1>1. /\ Ready /\ Decidable(r, a) /\ UNCHANGED <<disk, procs, pipe>> /\ WritesKnown
      /\ data' = Activated(d, r) /\ rows' = [rows EXCEPT ![r] = rr]
  BY DEF Revise
<1>2. /\ host # "down" /\ data \in Data /\ rows[r] \in Ledgers /\ r \notin procs
      /\ data.run[r] = "awaiting_approval" /\ TypeOK /\ rows \in [Runs -> Ledgers]
      /\ "cancelled" \in Ended /\ data.pending[r] \subseteq Actions
      /\ disk.pending[r] \subseteq Actions
  BY <1>1, DecidableFacts DEF IInv, TypeOK, Data, Ledgers, Ended
<1>3. /\ Statuses(rows[r]) \cap Uncertain = {}
  BY <1>1, <1>2 DEF WritesKnown, Known
<1>4. \A b \in Actions : rr[b] = rows[r][b] \/ rr[b] = "known_failed"
  BY <1>2 DEF ClosedRows, Ledgers
<1>5. \A b \in Actions : rr[b] \notin Waiting \cup Uncertain
  <2>1. rr \in Ledgers /\ Statuses(rr) \cap (Waiting \cup Uncertain) = {}
    BY <1>2, <1>3, ClosedFacts
  <2> QED
    BY <2>1 DEF Statuses, Waiting, Uncertain
\* The host's memory is that of a run which has ended, shown as running again.
<1>6. /\ \A q \in Runs : q # r => /\ d.run[q] = data.run[q]
                                  /\ d.approval[q] = data.approval[q]
                                  /\ d.pending[q] = data.pending[q]
      /\ d.pending[r] \subseteq data.pending[r] /\ d \in Data
      /\ \A b \in Actions : d.approval[r][b] = "closed"
           => data.approval[r][b] = "closed" \/ rr[b] = "known_failed"
  <2> DEFINE final == FinalStatus(rows[r], "cancelled")
             shown == [b \in Actions |-> IF rr[b] # rows[r][b] /\ data.approval[r][b] \in Waiting
                                         THEN "closed" ELSE data.approval[r][b]]
             settled(b) == final # "needs_reconciliation" /\ rr[b] \in Done
             left == IF \A b \in data.pending[r] : settled(b) THEN {} ELSE data.pending[r]
             goal == IF final = "failed" /\ ~data.touched[r] THEN FALSE ELSE data.goalSubmitted
  <2>1. d = [data EXCEPT !.run[r] = final, !.stop[r] = "none", !.approval[r] = shown,
                         !.pending[r] = left, !.active = NoRun, !.business = final,
                         !.goalSubmitted = goal]
    BY <1>2 DEF Finalized, Data
  <2>2. d \in Data
    BY <1>2, FinalizedFacts
  <2>3. left \subseteq data.pending[r]
    OBVIOUS
  <2>4. \A b \in Actions : shown[b] = "closed"
       => data.approval[r][b] = "closed" \/ rr[b] = "known_failed"
    BY <1>4
  <2> HIDE DEF d, final, shown, left, goal
  <2>5. /\ d.run = [data.run EXCEPT ![r] = final]
        /\ d.approval = [data.approval EXCEPT ![r] = shown]
        /\ d.pending = [data.pending EXCEPT ![r] = left]
    BY <1>2, <2>1 DEF Data
  <2>6. /\ d.approval[r] = shown /\ d.pending[r] = left
        /\ \A q \in Runs : q # r => /\ d.run[q] = data.run[q]
                                    /\ d.approval[q] = data.approval[q]
                                    /\ d.pending[q] = data.pending[q]
    BY <1>2, <2>5 DEF Data
  <2> QED
    BY <2>2, <2>3, <2>4, <2>6
<1> HIDE DEF d, rr
<1>7. /\ data'.run = [d.run EXCEPT ![r] = "running"]
      /\ data'.approval = d.approval /\ data'.pending = d.pending
  BY <1>1, <1>6, ActivatedCards
<1>8. \A q \in Runs : q # r => /\ data'.run[q] = data.run[q]
                               /\ data'.approval[q] = data.approval[q]
                               /\ data'.pending[q] = data.pending[q]
                               /\ rows'[q] = rows[q] /\ pipe'[q] = pipe[q]
  BY <1>1, <1>2, <1>6, <1>7 DEF Data
<1>9. rows'[r] = rr /\ data'.run[r] = "running"
  BY <1>1, <1>2, <1>6, <1>7 DEF Data
<1>10. Proposed(r)'
  BY <1>1, <1>2, <1>4, <1>6, <1>7, <1>9 DEF ApprovalsInv, Proposed
<1>11. ClosedStay(r)'
  BY <1>1, <1>5, <1>9 DEF ClosedStay, Waiting, Uncertain
<1>12. OpenShown(r)'
  BY <1>2, <1>5, <1>6, <1>7, <1>9 DEF OpenShown, Waiting
<1>13. WaitingOpen(r)'
  BY <1>9 DEF WaitingOpen
<1> QED
  BY <1>1, <1>2, <1>8, <1>10, <1>11, <1>12, <1>13, OneRun

LEMMA ApprovalsReconcile ==
  ASSUME IInv, ApprovalsInv, NEW r \in Runs, NEW a \in Actions, Reconcile(r, a)
  PROVE  ApprovalsInv'
<1>1. /\ host # "down" /\ disk = data /\ data \in Data
      /\ ActiveRuns = {} /\ procs = {} /\ UNCHANGED <<disk, procs, pipe>>
      /\ rows[r][a] \in {"sending", "needs_reconciliation", "verified"}
      /\ data.pending[r] \subseteq Actions /\ data.run[r] \notin Active
  BY DEF Reconcile, Ready, IInv, TypeOK, Data, ActiveRuns
<1>2. PICK s \in {"verified", "needs_reconciliation"} :
        /\ SetRow(r, a, s)
        /\ LET d == [data EXCEPT !.approval[r][a] = IF s = "verified" THEN "settled" ELSE "closed"]
           IN  data' \in {d, [d EXCEPT !.run[r] = "interrupted", !.business = "interrupted",
                                       !.active = NoRun, !.pending[r] = {}]}
  BY DEF Reconcile
<1> DEFINE card == IF s = "verified" THEN "settled" ELSE "closed"
           d == [data EXCEPT !.approval[r][a] = card]
<1>3. /\ d \in Data /\ d.run = data.run /\ d.pending = data.pending
      /\ \A q \in Runs : q # r => d.approval[q] = data.approval[q]
      /\ \A b \in Actions : d.approval[r][b] = IF b = a THEN card ELSE data.approval[r][b]
  BY <1>1 DEF Data, Cards
<1>4. data' \in {d, [d EXCEPT !.run[r] = "interrupted", !.business = "interrupted",
                              !.active = NoRun, !.pending[r] = {}]}
  BY <1>2
<1> HIDE DEF d, card
<1>5. /\ data'.approval = d.approval /\ data'.pending[r] \subseteq data.pending[r]
      /\ data'.run[r] \notin Active
      /\ \A q \in Runs : q # r => data'.run[q] = data.run[q] /\ data'.pending[q] = data.pending[q]
  <2>1. CASE data' = d
    BY <1>1, <1>3, <2>1
  <2>2. CASE data' = [d EXCEPT !.run[r] = "interrupted", !.business = "interrupted",
                               !.active = NoRun, !.pending[r] = {}]
    <3>1. /\ data'.run = [d.run EXCEPT ![r] = "interrupted"] /\ data'.approval = d.approval
          /\ data'.pending = [d.pending EXCEPT ![r] = {}]
      BY <1>3, <2>2 DEF Data
    <3> QED
      BY <1>1, <1>3, <3>1 DEF Data, Active
  <2> QED
    BY <1>4, <2>1, <2>2
<1>6. /\ \A q \in Runs : q # r => rows'[q] = rows[q]
      /\ \A b \in Actions : rows'[r][b] = IF b = a THEN s ELSE rows[r][b]
  BY <1>2 DEF SetRow, IInv, TypeOK
<1>7. Proposed(r)'
  BY <1>1, <1>5, <1>6 DEF ApprovalsInv, Proposed
<1>8. ClosedStay(r)'
  BY <1>1, <1>3, <1>5, <1>6 DEF ApprovalsInv, ClosedStay
<1>9. OpenShown(r)' /\ WaitingOpen(r)'
  BY <1>1, <1>5 DEF OpenShown, WaitingOpen, Active
<1> QED
  BY <1>1, <1>3, <1>5, <1>6, <1>7, <1>8, <1>9, OneRun

-----------------------------------------------------------------------------
(* The host's threads, its end and its start.                              *)

LEMMA ApprovalsConsume ==
  ASSUME IInv, ApprovalsInv, NEW r \in Runs, Consume(r)
  PROVE  ApprovalsInv'
<1> DEFINE e == Head(pipe[r])
           d == [data EXCEPT !.touched[r] = TRUE]
<1>1. /\ host # "down" /\ data \in Data /\ r \in procs /\ pipe[r] # <<>>
      /\ data' = AfterEvent(r, e) /\ pipe' = [pipe EXCEPT ![r] = Tail(pipe[r])]
      /\ UNCHANGED <<disk, procs, rows>> /\ data.pending[r] \subseteq Actions
      /\ disk.pending[r] \subseteq Actions
  BY DEF Consume, Collecting, IInv, TypeOK, Data
<1>2. e \in Events /\ pipe[r] \in Seq(Events) /\ 1 \in DOMAIN pipe[r] /\ e = pipe[r][1]
  BY <1>1 DEF IInv, TypeOK
<1>3. \/ \E a \in Actions : e = Event("proposed", a) /\ e.kind = "proposed" /\ e.action = a
      \/ e.kind \in {"handoff", "stop", "tools"}
  BY <1>2 DEF Events, Event
<1>4. /\ d \in Data /\ d.run = data.run /\ d.approval = data.approval /\ d.pending = data.pending
  BY <1>1 DEF Data
<1> HIDE DEF d, e
<1>5. /\ \A q \in Runs : q # r => pipe'[q] = pipe[q]
      /\ \A i \in DOMAIN pipe'[r] : \A a \in Actions :
           pipe'[r][i] = Event("proposed", a)
           => \E k \in DOMAIN pipe[r] : pipe[r][k] = Event("proposed", a)
  <2>1. pipe'[r] = Tail(pipe[r]) /\ \A q \in Runs : q # r => pipe'[q] = pipe[q]
    BY <1>1 DEF IInv, TypeOK
  <2>2. \A i \in DOMAIN Tail(pipe[r]) :
          i + 1 \in DOMAIN pipe[r] /\ Tail(pipe[r])[i] = pipe[r][i + 1]
    BY <1>1, <1>2
  <2> QED
    BY <2>1, <2>2
\* An approval that is shown is one the ledger has.
<1>6. /\ data'.run = data.run
      /\ \A q \in Runs : q # r => /\ data'.approval[q] = data.approval[q]
                                  /\ data'.pending[q] = data.pending[q]
      /\ \/ data'.approval[r] = data.approval[r] /\ data'.pending[r] = data.pending[r]
         \/ \E a \in Actions : /\ rows[r][a] # "none"
                               /\ data'.pending[r] = data.pending[r] \cup {a}
                               /\ data'.approval[r]
                                    = [data.approval[r] EXCEPT ![a] = "pending_approval"]
  <2>1. CASE e.kind \in {"handoff", "stop", "tools"}
    <3>1. data' \in {[d EXCEPT !.handoff[r] = TRUE], [d EXCEPT !.stopSeen[r] = (e.kind = "stop")]}
      BY <1>1, <2>1 DEF AfterEvent, d
    <3>2. data'.run = d.run /\ data'.approval = d.approval /\ data'.pending = d.pending
      BY <1>4, <3>1 DEF Data
    <3> QED
      BY <1>4, <3>2
  <2>2. ASSUME NEW a \in Actions, e = Event("proposed", a), e.kind = "proposed", e.action = a
        PROVE  <1>6
    <3>1. data' = CardShown(d, r, a)
      BY <1>1, <2>2 DEF AfterEvent, d
    <3>2. rows[r][a] # "none"
      BY <1>2, <2>2 DEF ApprovalsInv, Proposed
    <3>3. CASE data' = d
      BY <1>4, <3>3
    <3>4. CASE data' = [d EXCEPT !.approval[r][a] = "pending_approval",
                                 !.pending[r] = d.pending[r] \cup {a}]
      <4>1. /\ data'.run = d.run
            /\ data'.approval = [d.approval EXCEPT ![r][a] = "pending_approval"]
            /\ data'.pending = [d.pending EXCEPT ![r] = d.pending[r] \cup {a}]
        BY <1>4, <3>4 DEF Data
      <4>2. /\ \A q \in Runs : q # r => /\ data'.approval[q] = data.approval[q]
                                        /\ data'.pending[q] = data.pending[q]
            /\ data'.pending[r] = data.pending[r] \cup {a}
            /\ data'.approval[r] = [data.approval[r] EXCEPT ![a] = "pending_approval"]
        BY <1>4, <4>1 DEF Data
      <4> QED
        BY <1>4, <3>2, <4>1, <4>2
    <3> QED
      BY <3>1, <3>3, <3>4 DEF CardShown
  <2> QED
    BY <1>3, <2>1, <2>2
<1>7. data.run[r] # "awaiting_approval"
  BY <1>1 DEF ApprovalsInv, WaitingOpen
<1>8. data.approval[r] \in [Actions -> Cards]
  BY <1>1 DEF Data
<1>9. Proposed(r)'
  <2>1. Proposed(r)
    BY <1>1 DEF ApprovalsInv
  <2>2. \A a \in data'.pending[r] : rows[r][a] # "none"
    BY <1>6, <2>1 DEF Proposed
  <2>3. \A i \in DOMAIN pipe'[r] : \A a \in Actions :
          pipe'[r][i] = Event("proposed", a) => rows[r][a] # "none"
    BY <1>5, <2>1 DEF Proposed
  <2>4. rows' = rows /\ disk' = disk
    BY <1>1
  <2> QED
    BY <2>1, <2>2, <2>3, <2>4 DEF Proposed
<1>10. ClosedStay(r)'
  BY <1>1, <1>6, <1>8 DEF ApprovalsInv, ClosedStay
<1>11. OpenShown(r)'
  BY <1>1, <1>6, <1>8, ZenonT(40) DEF ApprovalsInv, OpenShown
<1>12. WaitingOpen(r)'
  BY <1>6, <1>7 DEF WaitingOpen
<1> QED
  BY <1>1, <1>5, <1>6, <1>9, <1>10, <1>11, <1>12, OneRun

LEMMA ApprovalsCollect ==
  ASSUME IInv, ApprovalsInv, NEW r \in Runs, Collect(r) \/ ReadbackFails(r)
  PROVE  ApprovalsInv'
<1>1. /\ host # "down" /\ data \in Data /\ UNCHANGED <<disk, pipe>> /\ procs' \subseteq procs
      /\ data.pending[r] \subseteq Actions
  BY DEF Collect, ReadbackFails, Collecting, Ready, IInv, TypeOK, Data
<1>2. CASE ReadbackFails(r)
  <2>1. data' = [data EXCEPT !.business = "awaiting_input"] /\ UNCHANGED <<procs, rows>>
        /\ data.run[r] = "completed"
    BY <1>2 DEF ReadbackFails, ledger
  <2>2. data'.run = data.run /\ data'.approval = data.approval /\ data'.pending = data.pending
    BY <1>1, <2>1 DEF Data
  <2> QED
    BY <1>1, <2>1, <2>2, MovedStep DEF Active
<1>3. CASE Collect(r) /\ Outcome(r) # "awaiting_approval"
  <2>1. Outcome(r) \in Ended
    BY <1>1, <1>3 DEF Outcome, Ended, Data
  <2>2. Finalize(data, r, rows[r], Outcome(r))
    BY <1>3 DEF Collect
  <2> QED
    BY <1>1, <2>1, <2>2, EndStep
<1>4. CASE Collect(r) /\ Outcome(r) = "awaiting_approval"
  <2>1. /\ data' = [data EXCEPT !.run[r] = "awaiting_approval",
                                !.business = "awaiting_approval"]
        /\ UNCHANGED rows /\ r \in procs /\ r \notin procs'
    BY <1>4 DEF Collect
  <2>2. /\ data'.run = [data.run EXCEPT ![r] = "awaiting_approval"]
        /\ data'.approval = data.approval /\ data'.pending = data.pending
    BY <1>1, <2>1 DEF Data
  <2>3. \A q \in Runs : data'.run[q] = IF q = r THEN "awaiting_approval" ELSE data.run[q]
    BY <1>1, <2>2 DEF Data
  <2>4. data.pending[r] # {} /\ \A a \in data.pending[r] : rows[r][a] = "pending_approval"
    <3>1. data.stop[r] \in {"none", "cancelled", "interrupted"}
      BY <1>1 DEF Data
    <3> QED
      BY <1>4, <3>1 DEF Outcome
  <2>5. \A a \in data.pending[r] : data.approval[r][a] = "pending_approval"
    BY <1>1, <2>1, <2>4 DEF ApprovalsInv, OpenShown
  <2>6. Proposed(r)' /\ ClosedStay(r)'
    BY <1>1, <2>1, <2>2 DEF ApprovalsInv, Proposed, ClosedStay
  <2>7. OpenShown(r)' /\ WaitingOpen(r)'
    BY <2>1, <2>2, <2>4, <2>5 DEF OpenShown, WaitingOpen, Waiting
  <2> QED
    BY <1>1, <2>1, <2>2, <2>3, <2>6, <2>7, OneRun
<1> QED
  BY <1>2, <1>3, <1>4

\* What a start or an end of the host recovers is as closed, in memory and on disk.
LEMMA RecoveredStep ==
  ASSUME IInv, ApprovalsInv, NEW d \in {data, disk}, disk' = data',
         \/ data' = d /\ UNCHANGED rows
         \/ \E r \in Runs : Finalize(d, r, rows[r], "interrupted"),
         \A q \in Runs : pipe'[q] \in {pipe[q], <<>>}
  PROVE  \A q \in Runs : Proposed(q)' /\ ClosedStay(q)'
<1>1. /\ d \in Data /\ TypeOK /\ "interrupted" \in Ended
      /\ \A q \in Runs : rows[q] \in Ledgers /\ d.pending[q] \subseteq Actions
  BY DEF IInv, TypeOK, Ledgers, Ended, Data
<1>2. \A q \in Runs :
        /\ data'.pending[q] \subseteq d.pending[q]
        /\ \A a \in Actions :
             \/ rows'[q][a] = rows[q][a] /\ data'.approval[q][a] = d.approval[q][a]
             \/ rows'[q][a] = "known_failed"
  <2>1. CASE data' = d /\ UNCHANGED rows
    BY <2>1
  <2>2. ASSUME NEW r \in Runs, Finalize(d, r, rows[r], "interrupted"), NEW q \in Runs
        PROVE  /\ data'.pending[q] \subseteq d.pending[q]
               /\ \A a \in Actions :
                    \/ rows'[q][a] = rows[q][a] /\ data'.approval[q][a] = d.approval[q][a]
                    \/ rows'[q][a] = "known_failed"
    <3>1. CASE q # r
      BY <1>1, <2>2, <3>1, EndFacts
    <3>2. data'.pending[r] \subseteq d.pending[r]
      BY <1>1, <2>2, EndFacts
    <3>3. \A a \in Actions :
            \/ rows'[r][a] = rows[r][a] /\ data'.approval[r][a] = d.approval[r][a]
            \/ rows[r][a] \in Waiting /\ rows'[r][a] = "known_failed"
      BY <1>1, <2>2, EndFacts
    <3> QED
      BY <3>1, <3>2, <3>3
  <2> QED
    BY <2>1, <2>2
<1>3. ASSUME NEW q \in Runs
      PROVE  Proposed(q)' /\ ClosedStay(q)'
  <2>1. Proposed(q) /\ ClosedStay(q)
    BY DEF ApprovalsInv
  <2>2. \A a \in d.pending[q] : rows[q][a] # "none"
    BY <2>1 DEF Proposed
  <2>3. \A a \in Actions : rows'[q][a] = "none" => rows[q][a] = "none"
    BY <1>2
  <2>4. \A a \in data'.pending[q] : rows'[q][a] # "none"
    BY <1>1, <1>2, <2>2, <2>3
  <2>5. \A i \in DOMAIN pipe'[q] : \A a \in Actions :
          pipe'[q][i] = Event("proposed", a) => rows'[q][a] # "none"
    BY <2>1, <2>3 DEF Proposed
  <2>6. \A a \in Actions : data'.approval[q][a] = "closed"
          => rows'[q][a] \notin {"approved", "executing"}
    BY <1>2, <2>1 DEF ClosedStay
  <2> QED
    BY <2>4, <2>5, <2>6 DEF Proposed, ClosedStay
<1> QED
  BY <1>3

\* After a start of the host no run is active.
LEMMA RecoveredRuns ==
  ASSUME IInv, HostStart
  PROVE  \A q \in Runs : data'.run[q] \notin Active
<1> DEFINE active == {r \in Runs : disk.run[r] \in Active}
<1>1. /\ disk \in Data /\ rows \in [Runs -> Ledgers] /\ TypeOK /\ "interrupted" \in Ended
      /\ LedgersFit(disk.run, rows)
  BY DEF IInv, TypeOK, Ledgers, Ended
<1>2. CASE active = {}
  BY <1>2 DEF HostStart
<1>3. CASE active # {}
  <2>1. PICK r \in active : Finalize(disk, r, rows[r], "interrupted")
    BY <1>3 DEF HostStart
  <2>2. data'.run[r] \in Ended \cup {"needs_reconciliation"}
    BY <1>1, <2>1, EndFacts
  <2>3. \A q \in Runs : q # r => data'.run[q] = disk.run[q]
    BY <1>1, <2>1, EndFacts
  <2>4. \A q \in active : q = r
    BY <1>1, <2>1 DEF LedgersFit
  <2> QED
    BY <2>1, <2>2, <2>3, <2>4 DEF Active, Ended
<1> QED
  BY <1>2, <1>3

LEMMA ApprovalsHost ==
  ASSUME IInv, ApprovalsInv,
         \/ Save \/ Launch \/ LaunchFails
         \/ CloseBegins \/ CloseEnds \/ HostCrash \/ HostStart
  PROVE  ApprovalsInv'
<1>1. data \in Data /\ disk \in Data /\ TypeOK /\ {"failed", "interrupted"} \subseteq Ended
  BY DEF IInv, TypeOK, Ended
<1>2. CASE Save
  <2>1. host # "down" /\ disk' = data /\ UNCHANGED <<host, data, procs, pipe, rows>>
    BY <1>2 DEF Save
  <2> QED
    BY <2>1 DEF ApprovalsInv, Proposed, ClosedStay, OpenShown, WaitingOpen
<1>3. ASSUME Launch, NEW r \in Runs, r = launching
      PROVE  ApprovalsInv'
  <2>1. /\ host # "down" /\ data.run[r] = "running"
        /\ data' = [data EXCEPT !.goalSubmitted = TRUE] /\ procs' = procs \cup {r}
        /\ pipe' = [pipe EXCEPT ![r] = <<>>] /\ UNCHANGED <<host, disk, rows>>
    BY <1>1, <1>3 DEF Launch, IInv, OneOwner, TypeOK
  <2>2. data'.run = data.run /\ data'.approval = data.approval /\ data'.pending = data.pending
    BY <1>1, <2>1 DEF Data
  <2>3. pipe'[r] = <<>> /\ \A q \in Runs : q # r => pipe'[q] = pipe[q]
    BY <2>1 DEF IInv, TypeOK
  <2>4. Proposed(r)' /\ ClosedStay(r)'
    BY <2>1, <2>2, <2>3 DEF ApprovalsInv, Proposed, ClosedStay
  <2>5. OpenShown(r)' /\ WaitingOpen(r)'
    BY <2>1, <2>2 DEF ApprovalsInv, OpenShown, WaitingOpen, Active
  <2> QED
    BY <2>1, <2>2, <2>3, <2>4, <2>5, OneRun
<1>4. CASE LaunchFails
  <2>1. /\ host # "down" /\ launching \in Runs /\ UNCHANGED <<disk, procs, pipe>>
        /\ Finalize(data, launching, rows[launching], "failed")
    BY <1>1, <1>4 DEF LaunchFails, TypeOK
  <2> QED
    BY <1>1, <2>1, EndStep
<1>5. CASE CloseBegins
  <2>1. /\ host # "down" /\ UNCHANGED <<disk, procs, pipe, rows>>
        /\ data'.run = data.run /\ data'.approval = data.approval
        /\ data'.pending = data.pending
    BY <1>1, <1>5 DEF CloseBegins, Ready, Data, ledger
  <2> QED
    BY <2>1 DEF ApprovalsInv, Proposed, ClosedStay, OpenShown, WaitingOpen
<1>6. CASE CloseEnds
  <2>1. host' = "down" /\ disk = data /\ \A q \in Runs : pipe'[q] = <<>>
    BY <1>6 DEF CloseEnds
  <2>2. disk' = data'
    BY <1>6, <2>1 DEF CloseEnds
  <2>3. \/ data' = data /\ UNCHANGED rows
        \/ \E r \in Runs : Finalize(data, r, rows[r], "interrupted")
    BY <1>6 DEF CloseEnds, ActiveRuns
  <2>4. \A q \in Runs : Proposed(q)' /\ ClosedStay(q)'
    BY <2>1, <2>2, <2>3, RecoveredStep
  <2> QED
    BY <2>1, <2>4 DEF ApprovalsInv
<1>7. CASE HostCrash
  <2>1. /\ host' = "down" /\ UNCHANGED <<data, disk, rows>>
        /\ \A q \in Runs : pipe'[q] = <<>>
    BY <1>7 DEF HostCrash, ledger
  <2> QED
    BY <2>1 DEF ApprovalsInv, Proposed, ClosedStay
<1>8. CASE HostStart
  <2>1. disk' = data' /\ UNCHANGED <<procs, pipe>> /\ host = "down"
    BY <1>8 DEF HostStart
  <2>2. \/ data' = disk /\ UNCHANGED rows
        \/ \E r \in Runs : Finalize(disk, r, rows[r], "interrupted")
    BY <1>8 DEF HostStart
  <2>3. \A q \in Runs : Proposed(q)' /\ ClosedStay(q)'
    BY <2>1, <2>2, RecoveredStep
  <2>4. \A q \in Runs : data'.run[q] \notin Active /\ q \notin procs'
    BY <1>8, <2>1, RecoveredRuns DEF IInv, ProcsKnown
  <2>5. \A q \in Runs : OpenShown(q)' /\ WaitingOpen(q)'
    BY <2>4 DEF OpenShown, WaitingOpen, Active
  <2> QED
    BY <2>3, <2>5 DEF ApprovalsInv
<1>9. Launch => launching \in Runs
  BY <1>1 DEF Launch, TypeOK
<1> QED
  BY <1>2, <1>3, <1>4, <1>5, <1>6, <1>7, <1>8, <1>9

LEMMA ApprovalsInit == Init => ApprovalsInv
  BY DEF Init, ApprovalsInv, Proposed, ClosedStay, OpenShown, WaitingOpen, Active

LEMMA ApprovalsStep ==
  ASSUME IInv, ApprovalsInv, [Next]_vars
  PROVE  ApprovalsInv'
<1>1. ASSUME NEW r \in Runs, Requests(r)
      PROVE  ApprovalsInv'
  BY <1>1, ApprovalsStart, ApprovalsCancel, ApprovalsApprove, ApprovalsRefuse,
     ApprovalsRevise, ApprovalsReconcile DEF Requests
<1>2. ASSUME NEW r \in Runs, NEW a \in Actions, Lapse(r, a)
      PROVE  ApprovalsInv'
  BY <1>2 DEF Lapse, HostUntouched, ApprovalsInv, Proposed, ClosedStay, OpenShown, WaitingOpen
<1>3. CASE UNCHANGED vars
  BY <1>3 DEF vars, ApprovalsInv, Proposed, ClosedStay, OpenShown, WaitingOpen
<1> QED
  BY <1>1, <1>2, <1>3, ApprovalsHost, ApprovalsConsume, ApprovalsCollect, ApprovalsWork
     DEF Next

THEOREM ApprovalsInvariant == Spec => [](IInv /\ ApprovalsInv)
  BY ApprovalsInit, ApprovalsStep, IInvInit, IInvStep, PTL DEF Spec

-----------------------------------------------------------------------------
(* The theorems.                                                           *)

\* Whatever workers print, fail to print or leave behind, a run that the host
\* shows as waiting has an approval the user can decide on.
THEOREM AwaitingHasADecision == Spec => []AwaitingIsDecidable
<1>1. IInv /\ ApprovalsInv => AwaitingIsDecidable
  BY DEF IInv, TypeOK, Data, ApprovalsInv, WaitingOpen, AwaitingIsDecidable, Decidable
<1> QED
  BY <1>1, ApprovalsInvariant, PTL

\* A row becomes "executing" by the claim of a worker, from "approved".
LEMMA OnlyClaimExecutes ==
  ASSUME TypeOK, Next, NEW r \in Runs, NEW a \in Actions,
         rows[r][a] # "executing", rows'[r][a] = "executing"
  PROVE  rows[r][a] = "approved"
<1> USE DEF TypeOK
<1>1. ASSUME NEW q \in Runs, NEW b \in Actions, NEW s \in RowStatuses \ {"executing"},
             SetRow(q, b, s)
      PROVE  FALSE
  BY <1>1 DEF SetRow
<1>2. ASSUME NEW rr, NEW q \in Runs, rows' = [rows EXCEPT ![q] = ClosedRows(rr)],
             q = r => rr[a] # "executing"
      PROVE  FALSE
  BY <1>2 DEF ClosedRows
<1>3. ASSUME NEW d, NEW q \in Runs, NEW s, Finalize(d, q, rows[q], s)
      PROVE  FALSE
  BY <1>2, <1>3 DEF Finalize
<1>4. ASSUME NEW q \in Runs, Requests(q)
      PROVE  FALSE
  <2>1. CASE StartRun(q) \/ ResumeRun(q) \/ Cancel(q)
    BY <1>3, <2>1 DEF StartRun, ResumeRun, Cancel
  <2>2. ASSUME NEW b \in Actions, Approve(q, b)
        PROVE  FALSE
    BY <1>1, <2>2 DEF Approve, RowStatuses, Waiting
  <2>3. ASSUME NEW b \in Actions, ApproveStale(q, b)
        PROVE  FALSE
    BY <1>3, <2>3 DEF ApproveStale
  <2>4. ASSUME NEW b \in Actions, Refuse(q, b)
        PROVE  FALSE
    <3>1. rows' = [rows EXCEPT ![q] = ClosedRows(RowsRevoked(q))]
      BY <2>4 DEF Refuse, Finalize
    <3>2. q = r => RowsRevoked(q)[a] # "executing"
      BY DEF RowsRevoked
    <3> QED
      BY <1>2, <3>1, <3>2
  <2>5. ASSUME NEW b \in Actions, Revise(q, b)
        PROVE  FALSE
    BY <1>2, <2>5 DEF Revise
  <2>6. ASSUME NEW b \in Actions, Reconcile(q, b)
        PROVE  FALSE
    BY <1>1, <2>6 DEF Reconcile, RowStatuses, Uncertain, Done
  <2> QED
    BY <1>4, <2>1, <2>2, <2>3, <2>4, <2>5, <2>6 DEF Requests
<1>5. ASSUME NEW q \in Runs, Work(q)
      PROVE  rows[r][a] = "approved"
  <2>1. CASE Boot(q)
    BY <2>1 DEF Boot
  <2>2. ASSUME NEW b \in Actions, Propose(q, b)
        PROVE  FALSE
    BY <2>2 DEF Propose
  <2>3. ASSUME NEW b \in Actions, MarkRow(q, b) \/ FinishRow(q, b)
        PROVE  FALSE
    BY <1>1, <2>3 DEF MarkRow, FinishRow, RowStatuses, Uncertain, Done
  <2>4. ASSUME NEW b \in Actions, ClaimRow(q, b)
        PROVE  rows[r][a] = "approved"
    <3>1. \/ rows[q][b] = "approved" /\ SetRow(q, b, "executing")
          \/ SetRow(q, b, "expired")
      BY <2>4 DEF ClaimRow
    <3>2. "expired" \in RowStatuses \ {"executing"}
      BY DEF RowStatuses
    <3>3. SetRow(q, b, "executing") => q = r /\ b = a
      BY DEF SetRow
    <3> QED
      BY <1>1, <3>1, <3>2, <3>3
  <2> QED
    BY <1>5, <2>1, <2>2, <2>3, <2>4 DEF Work, Report, Exit, ledger
<1>6. CASE \/ Save \/ Launch \/ LaunchFails
           \/ CloseBegins \/ CloseEnds \/ HostCrash \/ HostStart
  <2>1. CASE Save \/ Launch \/ CloseBegins \/ HostCrash
    BY <2>1 DEF Save, Launch, CloseBegins, HostCrash, ledger
  <2>2. CASE LaunchFails
    BY <1>3, <2>2 DEF LaunchFails
  <2>3. CASE CloseEnds
    BY <1>3, <2>3 DEF CloseEnds, ActiveRuns
  <2>4. CASE HostStart
    BY <1>3, <2>4 DEF HostStart
  <2> QED
    BY <1>6, <2>1, <2>2, <2>3, <2>4
<1>7. ASSUME NEW q \in Runs, Consume(q) \/ Collect(q) \/ ReadbackFails(q)
      PROVE  FALSE
  BY <1>3, <1>7 DEF Consume, Collect, ReadbackFails, ledger
<1>8. ASSUME NEW q \in Runs, Dies(q) \/ \E b \in Actions : Lapse(q, b)
      PROVE  FALSE
  BY <1>8 DEF Dies, Lapse, ledger
<1> QED
  BY <1>4, <1>5, <1>6, <1>7, <1>8 DEF Next

\* An action the host has closed, because the user refused it, asked for a
\* revision or let it lapse, or because its run ended, is never claimed.
THEOREM RefusalStands == Spec => RefusedNeverClaimed
<1>1. ASSUME IInv, ApprovalsInv, [Next]_vars, NEW r \in Runs, NEW a \in Actions,
             data.approval[r][a] = "closed", rows'[r][a] = "executing"
      PROVE  rows[r][a] = "executing"
  <2>1. rows[r][a] \notin {"approved", "executing"}
    BY <1>1 DEF ApprovalsInv, ClosedStay
  <2>2. CASE Next
    BY <1>1, <2>1, <2>2, OnlyClaimExecutes DEF IInv
  <2>3. CASE UNCHANGED vars
    BY <1>1, <2>3 DEF vars
  <2> QED
    BY <1>1, <2>2, <2>3
<1>2. ASSUME IInv /\ ApprovalsInv, [Next]_vars
      PROVE  [\A r \in Runs, a \in Actions :
                data.approval[r][a] = "closed" /\ rows'[r][a] = "executing"
                => rows[r][a] = "executing"]_vars
  BY <1>1, <1>2
<1> QED
  BY <1>2, ApprovalsInvariant, PTL DEF Spec, RefusedNeverClaimed
=============================================================================
