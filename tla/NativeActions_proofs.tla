------------------------- MODULE NativeActions_proofs -------------------------
(***************************************************************************)
(* Theorems about executions against Odoo, for any number of workers,      *)
(* rows, intents and resources, with and without orphaned workers.         *)
(*                                                                         *)
(* First, workers and host change the ledger only through the methods of   *)
(* ActionStore: every behaviour of Spec is, on the ledger's variables, one *)
(* of StoreSpec, and what ActionStore_proofs shows of the ledger holds     *)
(* here.  Then one approval buys at most one effect in Odoo.               *)
(*                                                                         *)
(* Last come the calls that a live host keeps apart: of its workers and    *)
(* itself one process at a time is in a call.  Then the row a call works   *)
(* on changes under its hands alone, and what the call concludes of it is  *)
(* still true when finish() writes it.  Requests on the network and edits  *)
(* of other users of Odoo go on meanwhile.                                 *)
(***************************************************************************)
EXTENDS NativeActions, ActionStore_proofs

\* The type of every variable, and that a process in a call works on a row
\* that is in the ledger.
InCall ==
  \A p \in Procs : pc[p] \notin {"dead", "idle"} => cur[p] \in Rows /\ status[cur[p]] # "none"

\* A row of the ledger has a key; one not yet inserted has no traffic.
KeysKnown ==
  \A a \in Rows : /\ status[a] # "none" => key[a] \in Keys
                  /\ status[a] = "none" => inflight[a] = 0 /\ effects[a] = 0

WellFormed == TypeOK /\ InCall /\ KeysKnown

\* No method of the ledger removes a row.
LEMMA RowsStay ==
  ASSUME StoreTypeOK, [StoreNext]_store
  PROVE  \A a \in Rows : status[a] # "none" => status'[a] # "none"
<1> USE DEF StoreTypeOK
<1>1. ASSUME NEW b \in Rows, NEW k \in Keys, NEW r \in Resources,
             NEW src \in DOMAIN GrantOf, Register(b, k, r, src)
      PROVE  \A a \in Rows : status[a] # "none" => status'[a] # "none"
  BY <1>1, ExpiryOnlyOfWaiting DEF Register, ReuseRow, InsertRow, Waiting, AfterExpiry
<1>2. ASSUME NEW b \in Rows, Claim(b)
      PROVE  \A a \in Rows : status[a] # "none" => status'[a] # "none"
  BY <1>2 DEF Claim
<1>3. ASSUME RecoverInterrupted
      PROVE  \A a \in Rows : status[a] # "none" => status'[a] # "none"
  BY <1>3 DEF RecoverInterrupted
<1> QED
  BY <1>1, <1>2, <1>3 DEF StoreNext, store, Approve, Lapse, MarkSending, Finish, Terminal

\* The arguments with which a call registers its action.
LEMMA RegisterArguments ==
  ASSUME TypeOK, NEW i \in Intents
  PROVE  KeyNow(i) \in Keys /\ SiteOf[i] \in Resources /\ Grant \in DOMAIN GrantOf
<1>1. SiteOf[i] \in Resources /\ Grant \in DOMAIN GrantOf
  BY ActionAssumption
<1>2. Prestate(i) \in Values
  BY <1>1 DEF Prestate, TypeOK, Values
<1> QED
  BY <1>1, <1>2, ActionAssumption DEF KeyNow, Values

\* Every step of the system is one call of the ledger's methods, or leaves the
\* ledger alone.
LEMMA UsesLedger ==
  ASSUME WellFormed, [Next]_vars
  PROVE  [StoreNext]_store
<1> USE DEF WellFormed
<1>1. ASSUME NEW w \in Workers, Start(w) PROVE [StoreNext]_store
  BY <1>1 DEF Start, StoreNext
<1>2. ASSUME NEW w \in Workers, NEW i \in Intents, Validate(w, i) PROVE [StoreNext]_store
  BY <1>2, RegisterArguments DEF Validate, StoreNext
<1>3. ASSUME NEW w \in Workers, NEW i \in Intents, Invoke(w, i) PROVE [StoreNext]_store
  BY <1>3, RegisterArguments DEF Invoke, StoreNext
<1>4. ASSUME NEW p \in Procs, Advance(p) PROVE [StoreNext]_store
  <2>1. CASE Close(p)
    <3>1. cur[p] \in Rows /\ verdict[p].status \in Terminal /\ verdict[p].result \in BOOLEAN
      BY <2>1 DEF Close, InCall, TypeOK, Verdicts
    <3> QED BY <2>1, <3>1 DEF Close, StoreNext
  <2>2. CASE ClaimRow(p)
    BY <2>2 DEF ClaimRow, StoreNext, InCall
  <2>3. CASE MarkRow(p)
    BY <2>3 DEF MarkRow, StoreNext, InCall
  <2>4. CASE \/ Readback(p) \/ Refuse(p) \/ CheckPrestate(p) \/ FindSatisfied(p)
             \/ FindUnsatisfied(p) \/ PrepareFails(p) \/ Dispatch(p) \/ ReplySuccess(p)
             \/ ReplyRejected(p) \/ ReplyLost(p) \/ ReadAfterSend(p)
    BY <2>4 DEF Readback, Refuse, CheckPrestate, FindSatisfied, FindUnsatisfied, PrepareFails,
                Dispatch, ReplySuccess, ReplyRejected, ReplyLost, ReadAfterSend
  <2> QED BY <1>4, <2>1, <2>2, <2>3, <2>4 DEF Advance
<1>5. ASSUME NEW a \in Rows, HostApproves(a) PROVE [StoreNext]_store
  BY <1>5 DEF HostApproves, StoreNext
<1>6. ASSUME NEW a \in Rows, ApprovalLapses(a) PROVE [StoreNext]_store
  BY <1>6 DEF ApprovalLapses, StoreNext
<1>7. ASSUME \/ \E p \in Procs : Crash(p)
             \/ \E w \in Workers, i \in Intents : Recall(w, i)
             \/ \E w \in Workers, a \in Rows : Execute(w, a)
             \/ \E a \in Rows : HostReconciles(a) \/ HostAbandons(a)
             \/ \E a \in Rows : OdooCommits(a) \/ RequestLost(a)
             \/ \E r \in Resources, v \in Values : OtherEdit(r, v)
      PROVE  UNCHANGED store
  BY <1>7 DEF Crash, Recall, Execute, HostReconciles, HostAbandons, OdooCommits, RequestLost,
              OtherEdit
<1>8. CASE UNCHANGED vars
  BY <1>8 DEF vars
<1> QED
  BY <1>1, <1>2, <1>3, <1>4, <1>5, <1>6, <1>7, <1>8 DEF Next, Environment

\* The registered key of a row stays one.
LEMMA KeysStay ==
  ASSUME StoreTypeOK, [StoreNext]_store, \A a \in Rows : status[a] # "none" => key[a] \in Keys
  PROVE  \A a \in Rows : status'[a] # "none" => key'[a] \in Keys
<1> USE DEF StoreTypeOK
<1>1. ASSUME NEW b \in Rows, NEW k \in Keys, NEW r \in Resources,
             NEW src \in DOMAIN GrantOf, Register(b, k, r, src)
      PROVE  \A a \in Rows : status'[a] # "none" => key'[a] \in Keys
  <2>1. CASE ReuseRow(b, k)
    BY <2>1, ExpiryOnlyOfWaiting DEF ReuseRow, Waiting
  <2>2. CASE InsertRow(b, k, r, src)
    BY <2>2, ExpiryOnlyOfWaiting DEF InsertRow, Waiting, AfterExpiry
  <2> QED BY <1>1, <2>1, <2>2 DEF Register
<1>2. ASSUME key' = key, \A a \in Rows : status'[a] # "none" => status[a] # "none"
      PROVE  \A a \in Rows : status'[a] # "none" => key'[a] \in Keys
  BY <1>2
<1>3. ASSUME NEW b \in Rows, Claim(b)
      PROVE  \A a \in Rows : status'[a] # "none" => key'[a] \in Keys
  BY <1>2, <1>3 DEF Claim
<1>4. ASSUME NEW b \in Rows, \/ Lapse(b) \/ MarkSending(b)
                             \/ \E src \in {"desktop_host"} \cup SelfSources : Approve(b, src)
                             \/ \E s \in Terminal, result \in BOOLEAN : Finish(b, s, result)
      PROVE  \A a \in Rows : status'[a] # "none" => key'[a] \in Keys
  BY <1>2, <1>4 DEF Lapse, MarkSending, Approve, Finish
<1>5. ASSUME RecoverInterrupted
      PROVE  \A a \in Rows : status'[a] # "none" => key'[a] \in Keys
  BY <1>2, <1>5 DEF RecoverInterrupted
<1>6. CASE UNCHANGED store
  BY <1>6 DEF store
<1> QED
  BY <1>1, <1>3, <1>4, <1>5, <1>6 DEF StoreNext

LocalOK ==
  /\ pc \in [Procs -> Phases]
  /\ cur \in [Procs -> Rows \cup {NoRow}]
  /\ snapResult \in [Procs -> BOOLEAN]
  /\ verdict \in [Procs -> Verdicts]
  /\ InCall

\* The ways a step changes where a process is, and that each is in order.
LEMMA LocalShapes ==
  ASSUME WellFormed, StoreTypeOK', [StoreNext]_store, NEW p \in Procs
  PROVE  /\ UNCHANGED local => LocalOK'
         /\ Return(p) => LocalOK'
         /\ \A phase \in Phases :
              /\ pc[p] \notin {"dead", "idle"} \/ phase \in {"dead", "idle"}
              /\ Goto(p, phase) /\ UNCHANGED <<cur, snapResult, verdict>>
              => LocalOK'
         /\ \A s \in Terminal, result \in BOOLEAN :
              pc[p] \notin {"dead", "idle"} /\ Conclude(p, s, result) => LocalOK'
         /\ \A a \in Rows, phase \in Phases :
              status[a] # "none" \/ status'[a] # "none" => (Enter(p, a, phase) => LocalOK')
<1> USE DEF WellFormed, TypeOK, Goto, LocalOK, InCall
<1>r. \A a \in Rows : status[a] # "none" => status'[a] # "none"
  BY RowsStay
<1>1. UNCHANGED local => LocalOK'
  BY <1>r DEF local
<1>2. ASSUME Return(p) PROVE LocalOK'
  <2>1. NoVerdict \in Verdicts /\ "idle" \in Phases
    BY DEF NoVerdict, Verdicts, Terminal, Phases
  <2> QED BY <1>2, <2>1, <1>r DEF Return
<1>3. ASSUME NEW phase \in Phases, pc[p] \notin {"dead", "idle"} \/ phase \in {"dead", "idle"},
             Goto(p, phase), UNCHANGED <<cur, snapResult, verdict>>
      PROVE  LocalOK'
  BY <1>3, <1>r
<1>4. ASSUME NEW s \in Terminal, NEW result \in BOOLEAN, pc[p] \notin {"dead", "idle"},
             Conclude(p, s, result)
      PROVE  LocalOK'
  <2>1. [status |-> s, result |-> result] \in Verdicts /\ "closing" \in Phases
    BY DEF Verdicts, Phases
  <2> QED BY <1>4, <2>1, <1>r DEF Conclude
<1>5. ASSUME NEW a \in Rows, NEW phase \in Phases, status[a] # "none" \/ status'[a] # "none",
             Enter(p, a, phase)
      PROVE  LocalOK'
  <2>1. hasResult'[a] \in BOOLEAN
    BY DEF StoreTypeOK
  <2> QED BY <1>5, <2>1, <1>r DEF Enter
<1> QED
  BY <1>1, <1>2, <1>3, <1>4, <1>5

\* A readback answers with truth values.
LEMMA ReadbackIsBoolean ==
  ASSUME TypeOK, NEW a \in Rows, NEW result \in BOOLEAN
  PROVE  Readbacks(a, result) \subseteq BOOLEAN
  BY DEF Readbacks, Appeared

\* What the steps of processes leave in their own variables.
LEMMA LocalStep ==
  ASSUME WellFormed, [Next]_vars, StoreTypeOK', [StoreNext]_store
  PROVE  LocalOK'
<1> USE DEF WellFormed, Phases
<1> DEFINE Away == {"dead", "idle"}
<1>1. ASSUME NEW w \in Workers, Start(w) PROVE LocalOK'
  BY <1>1, LocalShapes DEF Start, Procs
<1>2. ASSUME NEW p \in Procs, Crash(p) PROVE LocalOK'
  <2>1. NoVerdict \in Verdicts
    BY DEF NoVerdict, Verdicts, Terminal
  <2> QED BY <1>2, <2>1 DEF Crash, Goto, LocalOK, InCall, TypeOK, store
<1>3. ASSUME NEW w \in Workers, NEW a \in Rows, status[a] # "none" \/ status'[a] # "none",
             EnterRow(w, a)
      PROVE  LocalOK'
  BY <1>3, LocalShapes DEF EnterRow, Procs
<1>4. ASSUME NEW w \in Workers, NEW i \in Intents, Validate(w, i) PROVE LocalOK'
  BY <1>4, LocalShapes DEF Validate, Procs
<1>5. ASSUME NEW w \in Workers, NEW a \in Rows, Execute(w, a) PROVE LocalOK'
  BY <1>5, <1>3 DEF Execute
<1>6. ASSUME NEW w \in Workers, NEW i \in Intents, Recall(w, i) PROVE LocalOK'
  <2>1. \A a \in SentRows(i) : a \in Rows /\ status[a] # "none"
    BY DEF SentRows
  <2>2. PICK a \in Rows : /\ status[a] # "none"
                          /\ Enter(w, a, "reconciling") \/ EnterRow(w, a)
    BY <1>6, <2>1 DEF Recall, IsNewest
  <2> QED BY <2>2, <1>3, LocalShapes DEF Procs
<1>7. ASSUME NEW w \in Workers, NEW i \in Intents, Invoke(w, i) PROVE LocalOK'
  <2>1. PICK a \in Rows : /\ Register(a, KeyNow(i), SiteOf[i], Grant)
                          /\ UNCHANGED local \/ EnterRow(w, a)
    BY <1>7 DEF Invoke
  <2>2. status'[a] # "none"
    BY <2>1, ExpiryOnlyOfWaiting DEF Register, ReuseRow, InsertRow, IsNewest, ReusableRows,
       AfterExpiry, Reusable, TypeOK, StoreTypeOK
  <2> QED BY <2>1, <2>2, <1>3, LocalShapes DEF Procs
<1>8. ASSUME NEW p \in Procs, Advance(p) PROVE LocalOK'
  <2>t. snapResult[p] \in BOOLEAN /\ (pc[p] \notin Away => cur[p] \in Rows)
    BY DEF TypeOK, InCall
  <2>c. {"verified", "known_failed", "needs_reconciliation"} \subseteq Terminal
    BY DEF Terminal
  <2>1. CASE Readback(p)
    <3>1. PICK satisfied \in {FALSE} \cup Readbacks(cur[p], snapResult[p]) :
            Conclude(p, IF satisfied THEN "verified" ELSE "needs_reconciliation", snapResult[p])
      BY <2>1 DEF Readback
    <3> QED BY <2>1, <3>1, <2>t, <2>c, LocalShapes DEF Readback
  <2>2. CASE ReadAfterSend(p)
    <3>1. PICK satisfied \in {FALSE} \cup Readbacks(cur[p], TRUE) :
            Conclude(p, IF satisfied THEN "verified" ELSE "needs_reconciliation", TRUE)
      BY <2>2 DEF ReadAfterSend
    <3> QED BY <2>2, <3>1, <2>c, LocalShapes DEF ReadAfterSend
  <2>3. CASE Close(p) \/ Refuse(p)
    BY <2>3, LocalShapes DEF Close, Refuse
  <2>4. CASE FindSatisfied(p) \/ PrepareFails(p) \/ ReplyRejected(p) \/ ReplyLost(p)
    BY <2>4, <2>c, LocalShapes DEF FindSatisfied, PrepareFails, ReplyRejected, ReplyLost
  <2>5. CASE CheckPrestate(p) \/ FindUnsatisfied(p) \/ Dispatch(p) \/ ReplySuccess(p)
    BY <2>5, LocalShapes DEF CheckPrestate, FindUnsatisfied, Dispatch, ReplySuccess
  <2>6. CASE ClaimRow(p) \/ MarkRow(p)
    BY <2>6, LocalShapes DEF ClaimRow, MarkRow
  <2> QED BY <1>8, <2>1, <2>2, <2>3, <2>4, <2>5, <2>6 DEF Advance
<1>9. ASSUME NEW a \in Rows, HostReconciles(a) PROVE LocalOK'
  BY <1>9, LocalShapes DEF HostReconciles, Procs
<1>10. ASSUME NEW a \in Rows, HostAbandons(a) PROVE LocalOK'
  <2>1. [status |-> "known_failed", result |-> FALSE] \in Verdicts
    BY DEF Verdicts, Terminal
  <2> QED BY <1>10, <2>1 DEF HostAbandons, Goto, LocalOK, InCall, TypeOK, store, Waiting, Procs
<1>11. ASSUME \/ \E a \in Rows : HostApproves(a)
              \/ Environment
              \/ UNCHANGED vars
       PROVE  UNCHANGED local
  BY <1>11 DEF HostApproves, Environment, OdooCommits, RequestLost, ApprovalLapses, OtherEdit, vars
<1>12. CASE UNCHANGED local
  BY <1>12, LocalShapes DEF Procs
<1> QED
  BY <1>1, <1>2, <1>4, <1>5, <1>6, <1>7, <1>8, <1>9, <1>10, <1>11, <1>12 DEF Next

OdooOK ==
  /\ record \in [Resources -> Values]
  /\ inflight \in [Rows -> Nat]
  /\ effects \in [Rows -> Nat]

\* Odoo and the network keep their types, and carry only rows of the ledger.
LEMMA OdooStep ==
  ASSUME WellFormed, [Next]_vars
  PROVE  /\ OdooOK'
         /\ \A a \in Rows : status[a] = "none" => inflight'[a] = 0 /\ effects'[a] = 0
<1> USE DEF WellFormed, TypeOK, OdooOK, KeysKnown
<1> DEFINE Goal == /\ OdooOK'
                   /\ \A a \in Rows : status[a] = "none" => inflight'[a] = 0 /\ effects'[a] = 0
<1>1. ASSUME NEW w \in Workers, Dispatch(w) PROVE Goal
  <2>1. cur[w] \in Rows /\ status[cur[w]] # "none"
    BY <1>1 DEF Dispatch, InCall, Procs
  <2>2. inflight[cur[w]] + 1 \in Nat
    BY <2>1
  <2> QED BY <1>1, <2>1, <2>2 DEF Dispatch
<1>2. ASSUME NEW a \in Rows, OdooCommits(a) PROVE Goal
  <2>1. status[a] # "none"
    BY <1>2 DEF OdooCommits
  <2>2. IntentOf(a) \in Values
    BY <2>1, ActionAssumption DEF IntentOf, Values
  <2>3. inflight[a] - 1 \in Nat /\ effects[a] + 1 \in Nat
    BY <1>2 DEF OdooCommits
  <2>4. record' \in [Resources -> Values]
    BY <1>2, <2>2 DEF OdooCommits
  <2> QED BY <1>2, <2>1, <2>3, <2>4 DEF OdooCommits
<1>3. ASSUME NEW a \in Rows, inflight[a] > 0, inflight' = [inflight EXCEPT ![a] = @ - 1],
             UNCHANGED <<record, effects>>
      PROVE  Goal
  <2>1. inflight[a] - 1 \in Nat
    BY <1>3
  <2> QED BY <1>3, <2>1
<1>4. ASSUME NEW w \in Workers, ReplyRejected(w) PROVE Goal
  <2>1. cur[w] \in Rows
    BY <1>4 DEF ReplyRejected, InCall, Procs
  <2> QED BY <1>4, <2>1, <1>3 DEF ReplyRejected
<1>5. ASSUME NEW r \in Resources, NEW v \in Values, OtherEdit(r, v) PROVE Goal
  BY <1>5 DEF OtherEdit
<1>6. ASSUME UNCHANGED odoo PROVE Goal
  BY <1>6 DEF odoo
<1>7. ASSUME NEW p \in Procs, Advance(p) PROVE Goal
  <2>1. \/ UNCHANGED odoo
        \/ p \in Workers /\ (Dispatch(p) \/ ReplyRejected(p))
    BY <1>7 DEF Advance, Readback, Close, Refuse, CheckPrestate, FindSatisfied, FindUnsatisfied,
                ClaimRow, PrepareFails, MarkRow, ReplySuccess, ReplyLost, ReadAfterSend
  <2> QED BY <2>1, <1>1, <1>4, <1>6
<1>8. ASSUME Environment PROVE Goal
  <2>1. \/ UNCHANGED odoo
        \/ \E a \in Rows : OdooCommits(a) \/ RequestLost(a)
        \/ \E r \in Resources, v \in Values : OtherEdit(r, v)
    BY <1>8 DEF Environment, ApprovalLapses
  <2>2. ASSUME NEW a \in Rows, RequestLost(a) PROVE Goal
    BY <2>2, <1>3 DEF RequestLost
  <2> QED BY <2>1, <2>2, <1>2, <1>5, <1>6
<1>9. \/ UNCHANGED odoo
      \/ Environment
      \/ \E p \in Procs : Advance(p)
  BY DEF Next, Start, Crash, Validate, Recall, Invoke, Execute, HostApproves, HostReconciles,
         HostAbandons, vars
<1> QED
  BY <1>6, <1>7, <1>8, <1>9

\* The shape of a state is kept by every step of every process and of Odoo.
LEMMA WellFormedStep == WellFormed /\ [Next]_vars => WellFormed'
<1> SUFFICES ASSUME WellFormed, [Next]_vars PROVE WellFormed'
  OBVIOUS
<1>1. [StoreNext]_store
  BY UsesLedger
<1>2. StoreTypeOK'
  BY <1>1, StoreTypeStep DEF WellFormed, TypeOK
<1>3. LocalOK'
  BY <1>1, <1>2, LocalStep
<1>4. TypeOK' /\ InCall'
  BY <1>2, <1>3, OdooStep DEF TypeOK, LocalOK, OdooOK
<1>5. \A a \in Rows : status'[a] # "none" => key'[a] \in Keys
  BY <1>1, KeysStay DEF WellFormed, TypeOK, KeysKnown
<1>6. \A a \in Rows : status'[a] = "none" => status[a] = "none"
  BY <1>1, RowsStay DEF WellFormed, TypeOK
<1> QED
  BY <1>4, <1>5, <1>6, OdooStep DEF WellFormed, KeysKnown

LEMMA WellFormedInit == Init => WellFormed
<1> SUFFICES ASSUME Init PROVE WellFormed
  OBVIOUS
<1>1. StoreTypeOK
  BY DEF Init, StoreInit, StoreTypeOK, Statuses, Sources
<1>2. NoVerdict \in Verdicts
  BY DEF NoVerdict, Verdicts, Terminal
<1>3. TypeOK
  BY <1>1, <1>2 DEF Init, TypeOK, Values, Phases
<1> QED
  BY <1>3 DEF Init, StoreInit, WellFormed, InCall, KeysKnown

\* Every variable keeps its type, in every behaviour of workers, host and Odoo.
THEOREM NativeTyped == Spec => []TypeOK
<1>1. WellFormed => TypeOK
  BY DEF WellFormed
<1> QED
  BY <1>1, WellFormedInit, WellFormedStep, PTL DEF Spec

\* What workers and host do to the ledger is a behaviour of the ledger.
THEOREM NativeUsesLedger == Spec => StoreSpec
<1>1. Init => StoreInit
  BY DEF Init
<1>2. WellFormed /\ [Next]_vars => [StoreNext]_store
  BY UsesLedger
<1> QED
  BY <1>1, <1>2, WellFormedInit, WellFormedStep, PTL DEF Spec, StoreSpec

-----------------------------------------------------------------------------
(* One approval, one effect.                                               *)

Traffic(a) == inflight[a] + effects[a]

\* Why a row cannot be dispatched twice: only a sent row has traffic, and the
\* one process that may still dispatch it is the one that set the marker.
OneShot ==
  /\ \A a \in Rows : Traffic(a) <= 1 /\ (~sent[a] => Traffic(a) = 0)
  /\ \A p \in Procs : pc[p] = "marked" => sent[cur[p]] /\ Traffic(cur[p]) = 0
  /\ \A p, q \in Procs : p # q /\ pc[p] = "marked" /\ pc[q] = "marked" => cur[p] # cur[q]

\* The marker is written by mark_sending() and never taken back.
LEMMA MarkersStay ==
  ASSUME StoreTypeOK, [StoreNext]_store
  PROVE  \A a \in Rows : sent[a] => sent'[a]
  BY DEF StoreTypeOK, StoreNext, store, Register, ReuseRow, InsertRow, Approve, Lapse, Claim,
         MarkSending, Finish, RecoverInterrupted

\* A process that is about to dispatch has just set the marker, or was there
\* before the step.
LEMMA OnlyMarkRowMarks ==
  ASSUME WellFormed, [Next]_vars, NEW p \in Procs, pc'[p] = "marked"
  PROVE  (pc[p] = "marked" /\ cur'[p] = cur[p]) \/ (p \in Workers /\ MarkRow(p))
<1> USE DEF WellFormed, TypeOK, Goto
<1>1. ASSUME NEW q \in Procs, Return(q) PROVE pc[p] = "marked" /\ cur'[p] = cur[p]
  BY <1>1 DEF Return
<1>2. ASSUME NEW q \in Procs, NEW s \in Terminal, NEW result, Conclude(q, s, result)
      PROVE  pc[p] = "marked" /\ cur'[p] = cur[p]
  BY <1>2 DEF Conclude
<1>3. ASSUME NEW q \in Procs, NEW a \in Rows, NEW phase, phase # "marked", Enter(q, a, phase)
      PROVE  pc[p] = "marked" /\ cur'[p] = cur[p]
  BY <1>3 DEF Enter
<1>4. ASSUME NEW q \in Procs, NEW phase, phase # "marked", Goto(q, phase), UNCHANGED cur
      PROVE  pc[p] = "marked" /\ cur'[p] = cur[p]
  BY <1>4
<1>5. ASSUME UNCHANGED local PROVE pc[p] = "marked" /\ cur'[p] = cur[p]
  BY <1>5 DEF local
<1>6. ASSUME NEW q \in Workers, NEW a \in Rows, EnterRow(q, a)
      PROVE  pc[p] = "marked" /\ cur'[p] = cur[p]
  BY <1>3, <1>5, <1>6 DEF EnterRow, Procs
<1>7. ASSUME NEW q \in Procs, Advance(q)
      PROVE  (pc[p] = "marked" /\ cur'[p] = cur[p]) \/ (p \in Workers /\ MarkRow(p))
  <2>1. CASE Close(q) \/ Refuse(q)
    BY <2>1, <1>1 DEF Close, Refuse
  <2>2. CASE \/ Readback(q) \/ ReadAfterSend(q) \/ FindSatisfied(q) \/ PrepareFails(q)
             \/ ReplyRejected(q) \/ ReplyLost(q)
    <3>1. \E s, result : Conclude(q, s, result)
      BY <2>2 DEF Readback, ReadAfterSend, FindSatisfied, PrepareFails, ReplyRejected, ReplyLost
    <3> QED BY <3>1 DEF Conclude
  <2>3. CASE CheckPrestate(q) \/ FindUnsatisfied(q) \/ Dispatch(q) \/ ReplySuccess(q)
    BY <2>3, <1>4 DEF CheckPrestate, FindUnsatisfied, Dispatch, ReplySuccess
  <2>4. CASE ClaimRow(q)
    BY <2>4, <1>1, <1>4 DEF ClaimRow
  <2>5. CASE q \in Workers /\ MarkRow(q)
    <3>1. CASE p = q
      BY <2>5, <3>1
    <3>2. CASE p # q
      BY <2>5, <3>2, <1>1 DEF MarkRow
    <3> QED BY <3>1, <3>2
  <2> QED BY <1>7, <2>1, <2>2, <2>3, <2>4, <2>5 DEF Advance
<1>8. CASE \E w \in Workers : Start(w)
  BY <1>8, <1>4 DEF Start, Procs
<1>9. CASE \E q \in Procs : Crash(q)
  BY <1>9 DEF Crash
<1>10. CASE \E w \in Workers, i \in Intents : Validate(w, i) \/ Recall(w, i) \/ Invoke(w, i)
  BY <1>10, <1>3, <1>5, <1>6 DEF Validate, Recall, Invoke, Procs
<1>11. CASE \E w \in Workers, a \in Rows : Execute(w, a)
  BY <1>11, <1>6 DEF Execute
<1>12. CASE \E a \in Rows : HostReconciles(a) \/ HostAbandons(a)
  BY <1>12, <1>3, <1>4 DEF HostReconciles, HostAbandons, Procs
<1>13. CASE (\E a \in Rows : HostApproves(a)) \/ Environment \/ UNCHANGED vars
  BY <1>13, <1>5 DEF HostApproves, Environment, OdooCommits, RequestLost, ApprovalLapses,
                     OtherEdit, vars
<1> QED
  BY <1>7, <1>8, <1>9, <1>10, <1>11, <1>12, <1>13 DEF Next

\* Only a dispatch adds traffic to a row; the network and Odoo only move it on.
LEMMA OnlyDispatchAdds ==
  ASSUME WellFormed, [Next]_vars, NEW a \in Rows
  PROVE  \/ Traffic(a)' <= Traffic(a)
         \/ \E w \in Workers : Dispatch(w) /\ cur[w] = a /\ Traffic(a)' = Traffic(a) + 1
<1> USE DEF WellFormed, TypeOK, Traffic
<1> DEFINE Goal == \/ Traffic(a)' <= Traffic(a)
                   \/ \E w \in Workers :
                        Dispatch(w) /\ cur[w] = a /\ Traffic(a)' = Traffic(a) + 1
<1>t. inflight[a] \in Nat /\ effects[a] \in Nat
  OBVIOUS
<1>1. ASSUME UNCHANGED odoo PROVE Goal
  BY <1>1, <1>t DEF odoo
<1>2. ASSUME NEW w \in Workers, Dispatch(w) PROVE Goal
  <2>1. effects' = effects /\ inflight' = [inflight EXCEPT ![cur[w]] = @ + 1]
    BY <1>2 DEF Dispatch
  <2>2. CASE cur[w] = a
    BY <1>2, <2>1, <2>2, <1>t
  <2>3. CASE cur[w] # a
    BY <2>1, <2>3, <1>t
  <2> QED BY <2>2, <2>3
<1>3. ASSUME NEW b \in Rows, inflight[b] > 0, inflight' = [inflight EXCEPT ![b] = @ - 1],
             effects' = effects
      PROVE  Goal
  <2>1. inflight'[a] <= inflight[a]
    BY <1>3, <1>t
  <2> QED BY <2>1, <1>3, <1>t
<1>4. ASSUME NEW b \in Rows, OdooCommits(b) PROVE Goal
  <2>1. Traffic(a)' = Traffic(a)
    BY <1>4, <1>t DEF OdooCommits
  <2> QED BY <2>1, <1>t
<1>5. ASSUME NEW w \in Workers, ReplyRejected(w) PROVE Goal
  <2>1. cur[w] \in Rows
    BY <1>5 DEF ReplyRejected, InCall, Procs
  <2> QED BY <1>5, <2>1, <1>3 DEF ReplyRejected
<1>6. ASSUME NEW b \in Rows, RequestLost(b) PROVE Goal
  BY <1>6, <1>3 DEF RequestLost
<1>7. ASSUME NEW r \in Resources, NEW v \in Values, OtherEdit(r, v) PROVE Goal
  BY <1>7, <1>t DEF OtherEdit
<1>8. ASSUME NEW p \in Procs, Advance(p) PROVE Goal
  <2>1. \/ UNCHANGED odoo
        \/ p \in Workers /\ (Dispatch(p) \/ ReplyRejected(p))
    BY <1>8 DEF Advance, Readback, Close, Refuse, CheckPrestate, FindSatisfied, FindUnsatisfied,
                ClaimRow, PrepareFails, MarkRow, ReplySuccess, ReplyLost, ReadAfterSend
  <2> QED BY <2>1, <1>1, <1>2, <1>5
<1>9. CASE Environment
  BY <1>9, <1>1, <1>4, <1>6, <1>7 DEF Environment, ApprovalLapses
<1>10. \/ UNCHANGED odoo
       \/ Environment
       \/ \E p \in Procs : Advance(p)
  BY DEF Next, Start, Crash, Validate, Recall, Invoke, Execute, HostApproves, HostReconciles,
         HostAbandons, vars
<1> QED
  BY <1>1, <1>8, <1>9, <1>10

LEMMA OneShotStep ==
  ASSUME WellFormed, SentNeverRearmed, OneShot, [Next]_vars
  PROVE  OneShot'
<1> USE DEF WellFormed, TypeOK
<1>t. \A a \in Rows : Traffic(a) \in Nat /\ Traffic(a)' \in Nat
  BY OdooStep DEF Traffic, OdooOK
<1>m. \A a \in Rows : sent[a] => sent'[a]
  BY MarkersStay, UsesLedger
<1>c. \A p \in Procs : pc[p] = "marked" => cur[p] \in Rows
  BY DEF InCall
\* A process that has just set the marker holds a row nobody else has marked.
<1>f. ASSUME NEW p \in Workers, MarkRow(p), pc'[p] = "marked"
      PROVE  /\ cur' = cur /\ cur[p] \in Rows /\ ~sent[cur[p]] /\ sent'[cur[p]]
             /\ UNCHANGED odoo
  <2>1. cur[p] \in Rows
    BY <1>f DEF MarkRow, InCall, Procs
  <2>2. status[cur[p]] = "executing" /\ MarkSending(cur[p]) /\ cur' = cur
    BY <1>f, <2>1 DEF MarkRow, Return, Goto, Procs
  <2>3. ~sent[cur[p]]
    BY <2>1, <2>2 DEF SentNeverRearmed, Terminal
  <2>4. sent'[cur[p]]
    BY <2>1, <2>2 DEF MarkSending, StoreTypeOK
  <2> QED BY <1>f, <2>1, <2>2, <2>3, <2>4 DEF MarkRow
<1>1. ASSUME NEW a \in Rows PROVE Traffic(a)' <= 1 /\ (~sent'[a] => Traffic(a)' = 0)
  <2>1. CASE Traffic(a)' <= Traffic(a)
    BY <2>1, <1>t, <1>m DEF OneShot
  <2>2. CASE \E w \in Workers : Dispatch(w) /\ cur[w] = a /\ Traffic(a)' = Traffic(a) + 1
    <3>1. PICK w \in Workers : Dispatch(w) /\ cur[w] = a /\ Traffic(a)' = Traffic(a) + 1
      BY <2>2
    <3>2. sent[a] /\ Traffic(a) = 0
      BY <3>1 DEF Dispatch, OneShot, Procs
    <3> QED BY <3>1, <3>2, <1>m
  <2> QED BY <2>1, <2>2, OnlyDispatchAdds
<1>2. ASSUME NEW p \in Procs, pc'[p] = "marked", NEW a, a = cur'[p]
      PROVE  sent'[a] /\ Traffic(a)' = 0
  <2>1. CASE pc[p] = "marked" /\ cur'[p] = cur[p]
    <3>1. a \in Rows /\ sent[a] /\ Traffic(a) = 0
      BY <1>2, <2>1, <1>c DEF OneShot
    <3>2. ASSUME NEW w \in Workers, Dispatch(w), cur[w] = a PROVE FALSE
      <4>1. w # p
        BY <3>2, <1>2 DEF Dispatch, Goto, Procs
      <4> QED BY <3>2, <4>1, <1>2, <2>1 DEF Dispatch, OneShot, Procs
    <3>3. Traffic(a)' <= Traffic(a)
      BY <3>1, <3>2, OnlyDispatchAdds
    <3>4. Traffic(a)' = 0
      BY <3>1, <3>3, <1>t
    <3> QED BY <3>1, <3>4, <1>m
  <2>2. CASE p \in Workers /\ MarkRow(p)
    <3>1. a = cur[p] /\ a \in Rows /\ ~sent[a] /\ sent'[a] /\ UNCHANGED odoo
      BY <2>2, <1>2, <1>f
    <3>2. Traffic(a) = 0
      BY <3>1 DEF OneShot
    <3> QED BY <3>1, <3>2 DEF Traffic, odoo
  <2> QED BY <1>2, <2>1, <2>2, OnlyMarkRowMarks
<1>3. ASSUME NEW p \in Procs, NEW q \in Procs, p # q, pc'[p] = "marked", pc'[q] = "marked"
      PROVE  cur'[p] # cur'[q]
  <2>1. ASSUME NEW x \in Procs, NEW y \in Procs, x # y, pc'[x] = "marked", pc'[y] = "marked",
               x \in Workers, MarkRow(x)
        PROVE  cur'[x] # cur'[y]
    <3>1. pc[y] = "marked"
      BY <2>1 DEF MarkRow, Goto, Return
    <3> QED BY <2>1, <3>1, <1>f DEF OneShot
  <2>2. CASE pc[p] = "marked" /\ cur'[p] = cur[p] /\ pc[q] = "marked" /\ cur'[q] = cur[q]
    BY <1>3, <2>2 DEF OneShot
  <2>3. CASE p \in Workers /\ MarkRow(p)
    BY <1>3, <2>1, <2>3
  <2>4. CASE q \in Workers /\ MarkRow(q)
    BY <1>3, <2>1, <2>4
  <2> QED BY <1>3, <2>2, <2>3, <2>4, OnlyMarkRowMarks
<1>4. \A p \in Procs : pc'[p] = "marked" => sent'[cur'[p]] /\ (Traffic(cur[p]) = 0)'
  <2> SUFFICES ASSUME NEW p \in Procs, pc'[p] = "marked"
               PROVE  sent'[cur'[p]] /\ inflight'[cur'[p]] + effects'[cur'[p]] = 0
    BY DEF Traffic
  <2> QED BY <1>2 DEF Traffic
<1> QED
  BY <1>1, <1>3, <1>4 DEF OneShot

\* One trusted approval buys at most one effect in Odoo, for any number of
\* workers and orphans, crashes, recoveries, repeated calls and lost replies.
THEOREM OneEffect == Spec => []OneEffectPerApproval
<1>1. Init => OneShot
  BY DEF Init, OneShot, Traffic
<1>2. WellFormed /\ SentNeverRearmed /\ OneShot /\ [Next]_vars => OneShot'
  BY OneShotStep
<1>3. WellFormed /\ OneShot /\ SendIsAuthorised => OneEffectPerApproval
  BY DEF WellFormed, OneShot, SendIsAuthorised, OneEffectPerApproval, Traffic
<1> QED
  BY <1>1, <1>2, <1>3, WellFormedInit, WellFormedStep, NativeUsesLedger, SentStaysOut,
     SendsAreAuthorised, PTL DEF Spec

-----------------------------------------------------------------------------
(* The calls of a live host.                                               *)

Calling(p) == pc[p] \notin {"dead", "idle"}

\* Where a worker lives nobody else does anything.
Alone ==
  \A w \in Workers : pc[w] # "dead" =>
    pc[Host] = "idle" /\ \A v \in Workers \ {w} : pc[v] = "dead"

\* The rows _execute_row() goes on with, and those it or _reconcile() only reads
\* back.  A row that was closed is opened again only by id.
Openable(a) ==
  \/ status[a] \in Waiting \cup {"executing"}
  \/ status[a] \in {"expired", "known_failed"} /\ KindOf[IntentOf(a)] \in ById
Readable(a) ==
  \/ status[a] \in {"sending", "needs_reconciliation"}
  \/ status[a] = "verified" /\ KindOf[IntentOf(a)] = "method"

\* The row of a call is as the call last saw it, and the verdict fits the row.
RowFits(p) ==
  /\ pc[p] \in {"fetched", "fresh", "unclaimed"} => Openable(cur[p])
  /\ pc[p] = "claimed" => status[cur[p]] = "executing"
  /\ pc[p] \in {"marked", "waiting", "replied"} => status[cur[p]] = "sending"
  /\ pc[p] = "reconciling" => Readable(cur[p])
VerdictFits(p) ==
  pc[p] = "closing" =>
    /\ verdict[p].status = "known_failed" =>
         /\ status[cur[p]] \in Waiting \cup {"executing", "sending"}
         /\ Traffic(cur[p]) = 0
    /\ verdict[p].status = "needs_reconciliation" => Readable(cur[p])
    /\ verdict[p].status = "verified" => Readable(cur[p]) \/ Openable(cur[p])

\* A row that failed has no effect, and a row of a key besides another is closed
\* for good without one.
FailedQuiet == \A a \in Rows : status[a] = "known_failed" => Traffic(a) = 0
Retired(a) ==
  /\ Traffic(a) = 0
  /\ \/ status[a] \in {"expired", "known_failed"}
     \/ status[a] = "verified" /\ KindOf[IntentOf(a)] # "method"
KeyOnce ==
  \A a, b \in Rows :
    a # b /\ status[a] # "none" /\ status[b] # "none" /\ key[a] = key[b]
    => Retired(a) \/ Retired(b)

\* A call that may still dispatch a method or a wizard does it for the first time.
FirstOfIntent(p) ==
  /\ pc[p] \in {"fetched", "fresh", "unclaimed", "claimed", "marked"}
  /\ KindOf[IntentOf(cur[p])] \in {"method", "wizard"}
  => \A b \in Rows \ {cur[p]} :
       status[b] # "none" /\ IntentOf(b) = IntentOf(cur[p]) => Traffic(b) = 0

CallsInv ==
  /\ Alone
  /\ \A p \in Procs : RowFits(p) /\ VerdictFits(p) /\ FirstOfIntent(p)
  /\ FailedQuiet /\ KeyOnce

\* What is known of a create: an id is stored, or about to be, only of one that
\* happened.
CreateKnown ==
  /\ \A a \in Rows : status[a] = "none" => ~hasResult[a]
  /\ \A a \in Rows :
       status[a] # "none" /\ KindOf[IntentOf(a)] = "create"
       /\ (hasResult[a] \/ status[a] = "verified") => effects[a] > 0
  /\ \A p \in Procs :
       Calling(p) /\ KindOf[IntentOf(cur[p])] = "create"
       /\ \/ pc[p] = "replied"
          \/ snapResult[p] /\ pc[p] # "closing"
          \/ pc[p] = "closing" /\ (verdict[p].result \/ verdict[p].status = "verified")
       => effects[cur[p]] > 0

-----------------------------------------------------------------------------
(* How a step changes rows and processes.                                  *)

\* A row keeps the key it was registered with.
LEMMA KeyStays ==
  ASSUME StoreTypeOK, [StoreNext]_store, NEW a \in Rows, status[a] # "none"
  PROVE  key'[a] = key[a]
<1>1. ASSUME NEW b \in Rows, NEW k \in Keys, NEW r \in Resources,
             NEW src \in DOMAIN GrantOf, Register(b, k, r, src)
      PROVE  key'[a] = key[a]
  BY <1>1 DEF Register, ReuseRow, InsertRow, IsNext, StoreTypeOK
<1> QED
  BY <1>1 DEF StoreNext, store, Approve, Lapse, Claim, MarkSending, Finish, RecoverInterrupted

\* The row a call registers its intent as.
LEMMA RegisterReturns ==
  ASSUME TypeOK, NEW i \in Intents, NEW a \in Rows, Register(a, KeyNow(i), SiteOf[i], Grant)
  PROVE  /\ status'[a] \in Reusable /\ hasResult' = hasResult
         /\ IntentOf(a)' = i
         /\ \A b \in Rows : status'[b] \in Reusable => b = a \/ status[b] = status'[b]
<1>1. KeyNow(i)[1] = i
  BY DEF KeyNow
<1>2. CASE ReuseRow(a, KeyNow(i))
  <2>1. a \in ReusableRows(KeyNow(i)) /\ status' = AfterExpiry /\ key' = key
    BY <1>2 DEF ReuseRow, IsNewest
  <2> QED
    BY <1>1, <1>2, <2>1, ExpiryOnlyOfWaiting
       DEF ReuseRow, ReusableRows, IntentOf, Waiting, Reusable
<1>3. CASE InsertRow(a, KeyNow(i), SiteOf[i], Grant)
  <2>1. /\ status' = [AfterExpiry EXCEPT
                        ![a] = IF GrantOf[Grant] THEN "approved" ELSE "pending_approval"]
        /\ key' = [key EXCEPT ![a] = KeyNow(i)] /\ hasResult' = hasResult
    BY <1>3 DEF InsertRow
  <2>2. DOMAIN AfterExpiry = Rows /\ DOMAIN key = Rows
    BY DEF AfterExpiry, TypeOK, StoreTypeOK
  <2>3. /\ status'[a] \in {"approved", "pending_approval"} /\ key'[a] = KeyNow(i)
        /\ \A b \in Rows : b # a => status'[b] = AfterExpiry[b]
    BY <2>1, <2>2
  <2> QED
    BY <1>1, <2>1, <2>3, ExpiryOnlyOfWaiting DEF IntentOf, Reusable
<1> QED
  BY <1>2, <1>3 DEF Register

\* A step of process p, as the other processes see it.
OthersStay(p) ==
  \A q \in Procs : q # p => /\ pc'[q] = pc[q] /\ cur'[q] = cur[q]
                            /\ snapResult'[q] = snapResult[q] /\ verdict'[q] = verdict[q]

\* Where a process finds itself on a row it has just taken up.
Entered(p, a) ==
  /\ pc[p] = "idle" /\ cur'[p] = a /\ status'[a] # "none"
  /\ hasResult' = hasResult /\ UNCHANGED odoo
  /\ \/ /\ pc'[p] = "fetched" /\ snapResult'[p] = hasResult[a] /\ Openable(a)'
        /\ \E i \in Intents : /\ IntentOf(a)' = i
                              /\ KindOf[i] \in {"method", "wizard"} => SentRows(i) = {}
     \/ pc'[p] = "reconciling" /\ snapResult'[p] = hasResult[a] /\ Readable(a)'
     \/ /\ pc'[p] = "closing" /\ status'[a] \in Waiting
        /\ verdict'[p] = [status |-> "known_failed", result |-> FALSE]

LEMMA EnterIs ==
  ASSUME TypeOK, NEW p \in Procs, NEW a \in Rows, NEW phase, Enter(p, a, phase)
  PROVE  /\ pc'[p] = phase /\ cur'[p] = a /\ snapResult'[p] = hasResult'[a]
         /\ OthersStay(p)
  BY DEF Enter, Goto, TypeOK, OthersStay

\* A worker or the host takes up a row.
LEMMA TakesUp ==
  ASSUME WellFormed, NEW p \in Procs,
         \/ p \in Workers /\ \E a \in Rows : Execute(p, a)
         \/ p \in Workers /\ \E i \in Intents : Recall(p, i) \/ Invoke(p, i)
         \/ p = Host /\ \E a \in Rows : HostReconciles(a) \/ HostAbandons(a)
  PROVE  /\ UNCHANGED local \/ \E a \in Rows : Entered(p, a)
         /\ OthersStay(p)
<1> USE DEF WellFormed
<1> DEFINE Taken == UNCHANGED local \/ \E a \in Rows : Entered(p, a)
<1>1. UNCHANGED local => OthersStay(p)
  BY DEF local, OthersStay
<1>2. \A a \in Rows : status[a] # "none" => IntentOf(a) \in Intents
  BY ActionAssumption DEF KeysKnown, IntentOf
\* _execute_row() goes on with the row, or only reads it back.
<1>3. ASSUME NEW a \in Rows, pc[p] = "idle", hasResult' = hasResult, UNCHANGED odoo,
             EnterRow(p, a), status'[a] \in Statuses \ {"none"},
             KindOf[IntentOf(a)'] \in ById \/ status'[a] \in Reusable,
             NEW i \in Intents, IntentOf(a)' = i,
             status'[a] \in {"sending", "needs_reconciliation", "verified"}
             \/ (KindOf[i] \in {"method", "wizard"} => SentRows(i) = {})
      PROVE  Taken /\ OthersStay(p)
  <2>1. CASE status'[a] = "verified"
    BY <1>1, <1>3, <2>1 DEF EnterRow
  <2>2. CASE status'[a] \in {"sending", "needs_reconciliation"}
    <3>1. Enter(p, a, "reconciling")
      BY <1>3, <2>2 DEF EnterRow
    <3>2. Entered(p, a)
      BY <1>3, <2>2, <3>1, EnterIs DEF Entered, Readable
    <3> QED
      BY <3>1, <3>2, EnterIs
  <2>3. CASE status'[a] \notin {"sending", "needs_reconciliation", "verified"}
    <3>1. Enter(p, a, "fetched")
      BY <1>3, <2>3 DEF EnterRow
    <3>2. Openable(a)'
      BY <1>3, <2>3 DEF Openable, Statuses, Reusable, Terminal, Waiting
    <3>3. pc'[p] = "fetched" /\ cur'[p] = a /\ snapResult'[p] = hasResult[a]
      BY <1>3, <3>1, EnterIs
    <3>4. Entered(p, a)
      BY <1>3, <2>3, <3>2, <3>3 DEF Entered
    <3> QED
      BY <3>1, <3>4, EnterIs
  <2> QED
    BY <2>1, <2>2, <2>3
<1>4. ASSUME NEW a \in Rows, p \in Workers, Execute(p, a)
      PROVE  Taken /\ OthersStay(p)
  <2>1. /\ UNCHANGED <<store, odoo>> /\ pc[p] = "idle" /\ EnterRow(p, a)
        /\ status[a] # "none" /\ KindOf[IntentOf(a)] \in ById
    BY <1>4 DEF Execute
  <2>2. hasResult' = hasResult /\ status' = status /\ IntentOf(a)' = IntentOf(a)
    BY <2>1 DEF store, IntentOf
  <2>3. status[a] \in Statuses /\ IntentOf(a) \in Intents
    BY <1>2, <2>1 DEF TypeOK, StoreTypeOK
  <2>4. KindOf[IntentOf(a)] \notin {"method", "wizard"}
    BY <2>1 DEF ById
  <2> QED
    BY <1>3, <2>1, <2>2, <2>3, <2>4
<1>5. ASSUME NEW i \in Intents, p \in Workers, Recall(p, i)
      PROVE  Taken /\ OthersStay(p)
  <2>1. PICK a \in Rows :
          /\ IsNewest(a, SentRows(i))
          /\ IF KindOf[i] = "method" THEN Enter(p, a, "reconciling") ELSE EnterRow(p, a)
    BY <1>5 DEF Recall
  <2>2. /\ status[a] \in {"sending", "needs_reconciliation", "verified"} /\ IntentOf(a) = i
        /\ UNCHANGED <<store, odoo>> /\ pc[p] = "idle"
    BY <1>5, <2>1 DEF IsNewest, SentRows, Recall
  <2>3. hasResult' = hasResult /\ status' = status /\ IntentOf(a)' = i
    BY <2>2 DEF store, IntentOf
  <2>4. CASE KindOf[i] = "method"
    <3>1. Enter(p, a, "reconciling")
      BY <2>1, <2>4
    <3>2. Readable(a)'
      BY <2>2, <2>3, <2>4 DEF Readable
    <3>3. Entered(p, a)
      BY <2>2, <2>3, <3>1, <3>2, EnterIs DEF Entered
    <3> QED
      BY <3>1, <3>3, EnterIs
  <2>5. CASE KindOf[i] # "method"
    <3>1. EnterRow(p, a) /\ status'[a] \in Reusable /\ status'[a] \in Statuses \ {"none"}
      BY <2>1, <2>2, <2>3, <2>5 DEF Reusable, Statuses
    <3> QED
      BY <1>3, <2>2, <2>3, <3>1
  <2> QED
    BY <2>4, <2>5
<1>6. ASSUME NEW i \in Intents, p \in Workers, Invoke(p, i)
      PROVE  Taken /\ OthersStay(p)
  <2>1. PICK a \in Rows :
          /\ Register(a, KeyNow(i), SiteOf[i], Grant)
          /\ IF status'[a] = "pending_approval" THEN UNCHANGED local ELSE EnterRow(p, a)
    BY <1>6 DEF Invoke
  <2>2. /\ pc[p] = "idle" /\ UNCHANGED odoo
        /\ KindOf[i] \in {"method", "wizard"} => SentRows(i) = {}
    BY <1>6 DEF Invoke
  <2>3. status'[a] \in Reusable /\ hasResult' = hasResult /\ IntentOf(a)' = i
    BY <2>1, RegisterReturns
  <2>4. status'[a] \in Statuses \ {"none"}
    BY <2>3 DEF Reusable, Statuses
  <2>5. CASE UNCHANGED local
    BY <1>1, <2>5
  <2>6. CASE EnterRow(p, a)
    BY <1>3, <2>2, <2>3, <2>4, <2>6
  <2> QED
    BY <2>1, <2>5, <2>6
<1>7. ASSUME NEW a \in Rows, p = Host, HostReconciles(a)
      PROVE  Taken /\ OthersStay(p)
  <2>1. /\ UNCHANGED <<store, odoo>> /\ pc[p] = "idle" /\ Enter(p, a, "reconciling")
        /\ status[a] \in {"sending", "needs_reconciliation"}
    BY <1>7 DEF HostReconciles, HostMayAct
  <2>2. hasResult' = hasResult /\ status' = status
    BY <2>1 DEF store
  <2>3. Entered(p, a)
    BY <2>1, <2>2, EnterIs DEF Entered, Readable
  <2> QED
    BY <2>1, <2>3, EnterIs
<1>8. ASSUME NEW a \in Rows, p = Host, HostAbandons(a)
      PROVE  Taken /\ OthersStay(p)
  <2>1. /\ UNCHANGED <<store, odoo>> /\ pc[p] = "idle" /\ Goto(p, "closing")
        /\ cur' = [cur EXCEPT ![p] = a] /\ UNCHANGED snapResult
        /\ verdict' = [verdict EXCEPT ![p] = [status |-> "known_failed", result |-> FALSE]]
        /\ status[a] \in Waiting
    BY <1>8 DEF HostAbandons, HostMayAct
  <2>2. hasResult' = hasResult /\ status' = status
    BY <2>1 DEF store
  <2>3. Entered(p, a)
    BY <2>1, <2>2 DEF Entered, Waiting, Goto, TypeOK
  <2> QED
    BY <2>1, <2>3 DEF Goto, TypeOK, OthersStay
<1> QED
  BY <1>4, <1>5, <1>6, <1>7, <1>8

\* The three ways in which a process goes on with its call.
LEMMA GoesOn ==
  ASSUME TypeOK, NEW p \in Procs
  PROVE  /\ Return(p) => pc'[p] = "idle" /\ OthersStay(p)
         /\ \A s, result : Conclude(p, s, result) =>
              /\ pc'[p] = "closing" /\ cur'[p] = cur[p] /\ snapResult'[p] = snapResult[p]
              /\ verdict'[p] = [status |-> s, result |-> result] /\ OthersStay(p)
         /\ \A phase : Goto(p, phase) /\ UNCHANGED <<cur, snapResult, verdict>> =>
              /\ pc'[p] = phase /\ cur'[p] = cur[p] /\ snapResult'[p] = snapResult[p]
              /\ verdict'[p] = verdict[p] /\ OthersStay(p)
  BY DEF TypeOK, Return, Conclude, Goto, OthersStay

\* The steps of a call, by what they leave behind of it.
LEMMA AdvanceIs ==
  ASSUME TypeOK, NEW p \in Procs, Advance(p)
  PROVE  /\ Calling(p) /\ OthersStay(p)
         /\ \/ pc'[p] = "idle"
            \/ cur'[p] = cur[p] /\ snapResult'[p] = snapResult[p]
<1> USE GoesOn
<1>1. CASE Close(p) \/ Refuse(p)
  BY <1>1 DEF Close, Refuse, Calling
<1>2. CASE \/ Readback(p) \/ ReadAfterSend(p) \/ FindSatisfied(p) \/ PrepareFails(p)
           \/ ReplyRejected(p) \/ ReplyLost(p)
  <2>1. \E s, result : Conclude(p, s, result)
    BY <1>2 DEF Readback, ReadAfterSend, FindSatisfied, PrepareFails, ReplyRejected, ReplyLost
  <2> QED
    BY <1>2, <2>1 DEF Readback, ReadAfterSend, FindSatisfied, PrepareFails, ReplyRejected,
       ReplyLost, Calling
<1>3. CASE CheckPrestate(p) \/ FindUnsatisfied(p) \/ Dispatch(p) \/ ReplySuccess(p)
  <2>1. \E phase : Goto(p, phase) /\ UNCHANGED <<cur, snapResult, verdict>>
    BY <1>3 DEF CheckPrestate, FindUnsatisfied, Dispatch, ReplySuccess
  <2> QED
    BY <1>3, <2>1 DEF CheckPrestate, FindUnsatisfied, Dispatch, ReplySuccess, Calling
<1>4. CASE ClaimRow(p) \/ MarkRow(p)
  <2>1. \/ Return(p)
        \/ \E phase : Goto(p, phase) /\ UNCHANGED <<cur, snapResult, verdict>>
    BY <1>4 DEF ClaimRow, MarkRow
  <2> QED
    BY <1>4, <2>1 DEF ClaimRow, MarkRow, Calling
<1> QED
  BY <1>1, <1>2, <1>3, <1>4 DEF Advance

\* Every process stays where it is, or moves in one of these ways.
LEMMA ProcessMoves ==
  ASSUME WellFormed, [Next]_vars, NEW p \in Procs
  PROVE  \/ /\ pc'[p] = pc[p] /\ cur'[p] = cur[p]
            /\ snapResult'[p] = snapResult[p] /\ verdict'[p] = verdict[p]
         \/ pc'[p] \in {"dead", "idle"}
         \/ Advance(p)
         \/ \E a \in Rows : Entered(p, a)
<1> DEFINE Same == /\ pc'[p] = pc[p] /\ cur'[p] = cur[p]
                   /\ snapResult'[p] = snapResult[p] /\ verdict'[p] = verdict[p]
<1> USE DEF WellFormed
<1>1. UNCHANGED local => Same
  BY DEF local
<1>2. ASSUME NEW q \in Procs, OthersStay(q)
      PROVE  q = p \/ Same
  BY <1>2 DEF OthersStay
<1>3. CASE \E q \in Procs : Advance(q)
  BY <1>2, <1>3, AdvanceIs
<1>4. ASSUME NEW q \in Procs,
             \/ q \in Workers /\ \E a \in Rows : Execute(q, a)
             \/ q \in Workers /\ \E i \in Intents : Recall(q, i) \/ Invoke(q, i)
             \/ q = Host /\ \E a \in Rows : HostReconciles(a) \/ HostAbandons(a)
      PROVE  Same \/ \E a \in Rows : Entered(p, a)
  <2>1. OthersStay(q)
    BY <1>4, TakesUp
  <2>2. UNCHANGED local \/ \E a \in Rows : Entered(q, a)
    BY <1>4, TakesUp
  <2> QED
    BY <1>1, <1>2, <2>1, <2>2
<1>5. CASE (\E w \in Workers : Start(w)) \/ (\E q \in Procs : Crash(q))
  BY <1>5 DEF Start, Crash, Goto, TypeOK, Procs
<1>6. CASE \/ \E w \in Workers, i \in Intents : Validate(w, i)
           \/ \E a \in Rows : HostApproves(a)
           \/ Environment \/ UNCHANGED vars
  BY <1>1, <1>6 DEF Validate, HostApproves, Environment, OdooCommits, RequestLost,
     ApprovalLapses, OtherEdit, vars
<1> QED
  BY <1>3, <1>4, <1>5, <1>6 DEF Next, Procs

-----------------------------------------------------------------------------
(* A create that is verified did happen.                                   *)

\* Odoo takes nothing back.
LEMMA EffectsGrow ==
  ASSUME WellFormed, [Next]_vars, NEW a \in Rows, effects[a] > 0
  PROVE  effects'[a] > 0
<1>1. ASSUME NEW b \in Rows, OdooCommits(b)
      PROVE  effects'[a] > 0
  BY <1>1 DEF OdooCommits, WellFormed, TypeOK
<1>2. effects' = effects \/ \E b \in Rows : OdooCommits(b)
  BY DEF Next, Start, Crash, Validate, Recall, Invoke, Execute, HostApproves, HostReconciles,
     HostAbandons, Environment, RequestLost, ApprovalLapses, OtherEdit, Advance, Readback, Close,
     Refuse, CheckPrestate, FindSatisfied, FindUnsatisfied, ClaimRow, PrepareFails, MarkRow,
     Dispatch, ReplySuccess, ReplyRejected, ReplyLost, ReadAfterSend, vars, odoo
<1> QED
  BY <1>1, <1>2

\* finish() alone stores a result, and a row is verified by it alone.
LEMMA OnlyCloseSettles ==
  ASSUME WellFormed, [Next]_vars, NEW a \in Rows, hasResult'[a] \/ status'[a] = "verified"
  PROVE  \/ hasResult[a] \/ status[a] = "verified"
         \/ \E p \in Procs : /\ Close(p) /\ cur[p] = a
                             /\ verdict[p].result \/ verdict[p].status = "verified"
<1> DEFINE Before == hasResult[a] \/ status[a] = "verified"
<1> USE DEF WellFormed, TypeOK, StoreTypeOK
<1>1. UNCHANGED store => Before
  BY DEF store
<1>2. ASSUME NEW p \in Procs, Close(p)
      PROVE  \/ Before
             \/ cur[p] = a /\ (verdict[p].result \/ verdict[p].status = "verified")
  <2>1. /\ status' = [status EXCEPT ![cur[p]] = verdict[p].status]
        /\ hasResult' = [hasResult EXCEPT ![cur[p]] = verdict[p].result]
    BY <1>2 DEF Close, Finish
  <2> QED
    BY <2>1
<1>3. ASSUME NEW b \in Rows, NEW k \in Keys, NEW r \in Resources,
             NEW src \in DOMAIN GrantOf, Register(b, k, r, src)
      PROVE  Before
  BY <1>3, ExpiryOnlyOfWaiting DEF Register, ReuseRow, InsertRow, AfterExpiry
<1>4. ASSUME NEW w \in Workers, NEW i \in Intents, Validate(w, i) \/ Invoke(w, i)
      PROVE  Before
  BY <1>3, <1>4, RegisterArguments DEF Validate, Invoke
<1>5. ASSUME NEW p \in Procs, Advance(p), ~Close(p)
      PROVE  Before
  <2>1. UNCHANGED store \/ ClaimRow(p) \/ MarkRow(p)
    BY <1>5 DEF Advance, Readback, Refuse, CheckPrestate, FindSatisfied, FindUnsatisfied,
       PrepareFails, Dispatch, ReplySuccess, ReplyRejected, ReplyLost, ReadAfterSend
  <2>2. CASE ClaimRow(p)
    <3>1. /\ hasResult' = hasResult
          /\ \E s \in {"expired", "executing", status[cur[p]]} :
               status' = [status EXCEPT ![cur[p]] = s]
      BY <2>2 DEF ClaimRow, Claim
    <3> QED
      BY <3>1
  <2>3. CASE MarkRow(p)
    <3>1. UNCHANGED store \/ (hasResult' = hasResult
                               /\ status' = [status EXCEPT ![cur[p]] = "sending"])
      BY <2>3 DEF MarkRow, MarkSending
    <3> QED
      BY <1>1, <3>1
  <2> QED
    BY <1>1, <2>1, <2>2, <2>3
<1>6. ASSUME NEW w \in Workers, Start(w)
      PROVE  Before
  BY <1>6 DEF Start, RecoverInterrupted
<1>7. ASSUME NEW b \in Rows, HostApproves(b) \/ ApprovalLapses(b)
      PROVE  Before
  BY <1>7 DEF HostApproves, Approve, ApprovalLapses, Lapse
<1>8. CASE \/ \E p \in Procs : Crash(p)
           \/ \E w \in Workers, i \in Intents : Recall(w, i)
           \/ \E w \in Workers, b \in Rows : Execute(w, b)
           \/ \E b \in Rows : HostReconciles(b) \/ HostAbandons(b)
           \/ \E b \in Rows : OdooCommits(b) \/ RequestLost(b)
           \/ \E r \in Resources, v \in Values : OtherEdit(r, v)
           \/ UNCHANGED vars
  BY <1>1, <1>8 DEF Crash, Recall, Execute, HostReconciles, HostAbandons, OdooCommits,
     RequestLost, OtherEdit, vars
<1> QED
  BY <1>2, <1>4, <1>5, <1>6, <1>7, <1>8 DEF Next, Environment

\* A call that stores an id, or verifies a create, has seen Odoo commit it.
LEMMA CreateAdvances ==
  ASSUME WellFormed, CreateKnown, NEW p \in Procs, Advance(p), Calling(p)',
         NEW a \in Rows, a = cur[p], KindOf[IntentOf(a)] = "create",
         \/ pc'[p] = "replied"
         \/ snapResult'[p] /\ pc'[p] # "closing"
         \/ pc'[p] = "closing" /\ (verdict'[p].result \/ verdict'[p].status = "verified")
  PROVE  effects[a] > 0
<1> USE DEF WellFormed
<1>1. /\ pc[p] = "replied" \/ (snapResult[p] /\ pc[p] # "closing") => effects[a] > 0
      /\ cur'[p] = cur[p] /\ snapResult'[p] = snapResult[p] /\ Calling(p)
  BY AdvanceIs DEF CreateKnown, Calling
<1>2. \A result \in BOOLEAN : Readbacks(a, result) = {FALSE, result}
  BY DEF Readbacks
<1>3. snapResult[p] \in BOOLEAN
  BY DEF TypeOK
<1>4. CASE Readback(p)
  <2>1. PICK s \in {"verified", "needs_reconciliation"} :
          Conclude(p, s, snapResult[p]) /\ (s = "verified" => snapResult[p])
    <3>1. PICK satisfied \in {FALSE, snapResult[p]} :
            Conclude(p, IF satisfied THEN "verified" ELSE "needs_reconciliation", snapResult[p])
      BY <1>2, <1>3, <1>4 DEF Readback
    <3>2. CASE satisfied
      BY <3>1, <3>2
    <3>3. CASE ~satisfied
      BY <3>1, <3>3
    <3> QED
      BY <3>2, <3>3
  <2>2. pc'[p] = "closing" /\ verdict'[p].result = snapResult[p] /\ verdict'[p].status = s
    BY <2>1 DEF Conclude, Goto, TypeOK
  <2> QED
    BY <1>1, <1>4, <2>1, <2>2 DEF Readback
<1>5. CASE ReadAfterSend(p)
  BY <1>1, <1>5 DEF ReadAfterSend
<1>6. CASE FindSatisfied(p)
  <2>1. TRUE \notin Readbacks(a, FALSE)
    <3>1. Readbacks(a, FALSE) = {FALSE, FALSE}
      BY DEF Readbacks
    <3>2. TRUE \notin {FALSE, FALSE}
      OBVIOUS
    <3> QED
      BY <3>1, <3>2, Zenon
  <2> QED
    BY <1>6, <2>1 DEF FindSatisfied
<1>7. CASE PrepareFails(p) \/ ReplyRejected(p) \/ ReplyLost(p)
  <2>1. PICK s \in {"known_failed", "needs_reconciliation"} : Conclude(p, s, FALSE)
    BY <1>7 DEF PrepareFails, ReplyRejected, ReplyLost
  <2>2. pc'[p] = "closing" /\ verdict'[p].result = FALSE /\ verdict'[p].status = s
    BY <2>1 DEF Conclude, Goto, TypeOK
  <2> QED
    BY <2>1, <2>2
<1>8. CASE ReplySuccess(p)
  BY <1>8 DEF ReplySuccess
<1>9. CASE CheckPrestate(p) \/ FindUnsatisfied(p) \/ Dispatch(p) \/ ClaimRow(p) \/ MarkRow(p)
  <2>1. pc[p] \notin {"closing", "replied"} /\ pc'[p] \notin {"closing", "replied"}
    <3>1. \/ Return(p)
          \/ \E phase \in {"fresh", "unclaimed", "claimed", "marked", "waiting"} :
               Goto(p, phase) /\ UNCHANGED <<cur, snapResult, verdict>>
      BY <1>9 DEF CheckPrestate, FindUnsatisfied, Dispatch, ClaimRow, MarkRow
    <3>2. pc'[p] \notin {"closing", "replied"}
      BY <3>1, GoesOn
    <3> QED
      BY <1>9, <3>2 DEF CheckPrestate, FindUnsatisfied, Dispatch, ClaimRow, MarkRow
  <2> QED
    BY <1>1, <2>1
<1>10. CASE Close(p) \/ Refuse(p)
  BY <1>10, GoesOn DEF Close, Refuse, Calling
<1> QED
  BY <1>4, <1>5, <1>6, <1>7, <1>8, <1>9, <1>10 DEF Advance

LEMMA CreateStep ==
  ASSUME WellFormed, [Next]_vars, CreateKnown
  PROVE  CreateKnown'
<1> USE DEF WellFormed
<1>1. [StoreNext]_store
  BY UsesLedger
<1>2. \A a \in Rows : status[a] # "none"
        => status'[a] # "none" /\ IntentOf(a)' = IntentOf(a)
  BY <1>1, KeyStays, RowsStay DEF TypeOK, IntentOf
<1>3. ASSUME NEW a \in Rows, hasResult'[a] \/ status'[a] = "verified"
      PROVE  /\ status[a] # "none"
             /\ KindOf[IntentOf(a)] = "create" => effects[a] > 0
  <2>1. CASE hasResult[a] \/ status[a] = "verified"
    BY <2>1 DEF CreateKnown
  <2>2. ASSUME NEW p \in Procs, Close(p), cur[p] = a,
               verdict[p].result \/ verdict[p].status = "verified"
        PROVE  /\ status[a] # "none"
               /\ KindOf[IntentOf(a)] = "create" => effects[a] > 0
    BY <2>2 DEF Close, Calling, CreateKnown, InCall
  <2> QED
    BY <1>3, <2>1, <2>2, OnlyCloseSettles
<1>4. \A a \in Rows : status'[a] = "none" => ~hasResult'[a]
  BY <1>2, <1>3
<1>5. ASSUME NEW a \in Rows, status'[a] # "none", (KindOf[IntentOf(a)] = "create")',
             hasResult'[a] \/ status'[a] = "verified"
      PROVE  effects'[a] > 0
  <2>1. status[a] # "none" /\ (KindOf[IntentOf(a)] = "create" => effects[a] > 0)
    BY <1>3, <1>5
  <2>2. IntentOf(a)' = IntentOf(a)
    BY <1>2, <2>1
  <2> QED
    BY <1>5, <2>1, <2>2, EffectsGrow
<1>6. ASSUME NEW p \in Procs, Calling(p)', (KindOf[IntentOf(cur[p])] = "create")',
             \/ pc'[p] = "replied"
             \/ snapResult'[p] /\ pc'[p] # "closing"
             \/ pc'[p] = "closing" /\ (verdict'[p].result \/ verdict'[p].status = "verified")
      PROVE  effects'[cur'[p]] > 0
  <2> DEFINE a == cur[p]
  <2>1. CASE /\ pc'[p] = pc[p] /\ cur'[p] = cur[p]
             /\ snapResult'[p] = snapResult[p] /\ verdict'[p] = verdict[p]
    <3>1. Calling(p) /\ a \in Rows /\ status[a] # "none"
      BY <1>6, <2>1 DEF Calling, InCall
    <3>2. KindOf[IntentOf(a)] = "create"
      BY <1>2, <1>6, <2>1, <3>1 DEF IntentOf
    <3>3. effects[a] > 0
      BY <1>6, <2>1, <3>1, <3>2 DEF CreateKnown
    <3> QED
      BY <2>1, <3>1, <3>3, EffectsGrow
  <2>2. CASE Advance(p)
    <3>1. Calling(p) /\ cur'[p] = cur[p] /\ a \in Rows /\ status[a] # "none"
      BY <1>6, <2>2, AdvanceIs DEF Calling, InCall
    <3>2. KindOf[IntentOf(a)] = "create"
      BY <1>2, <1>6, <3>1 DEF IntentOf
    <3>3. effects[a] > 0
      BY <1>6, <2>2, <3>1, <3>2, CreateAdvances
    <3> QED
      BY <3>1, <3>3, EffectsGrow
  <2>3. ASSUME NEW b \in Rows, Entered(p, b)
        PROVE  effects'[cur'[p]] > 0
    <3>1. cur'[p] = b /\ status'[b] # "none"
      BY <2>3 DEF Entered
    <3>2. hasResult'[b]
      BY <1>6, <2>3 DEF Entered
    <3>3. (KindOf[IntentOf(b)] = "create")'
      BY <1>6, <3>1 DEF IntentOf
    <3> QED
      BY <1>5, <3>1, <3>2, <3>3
  <2> QED
    BY <1>6, <2>1, <2>2, <2>3, ProcessMoves DEF Calling
<1> QED
  BY <1>4, <1>5, <1>6 DEF CreateKnown

\* A create the host reports as verified has been committed by Odoo, with and
\* without orphaned workers: only a committed create stores an id to look up.
THEOREM CreateHappened == Spec => []VerifiedCreateHappened
<1>1. Init => CreateKnown
  BY DEF Init, StoreInit, CreateKnown, Calling
<1>2. WellFormed /\ CreateKnown => VerifiedCreateHappened
  BY DEF CreateKnown, VerifiedCreateHappened
<1> QED
  BY <1>1, <1>2, CreateStep, WellFormedInit, WellFormedStep, PTL DEF Spec

-----------------------------------------------------------------------------
(* One process at a time is in a call.                                     *)

LEMMA OneCaller ==
  ASSUME Alone, NEW p \in Procs, NEW q \in Procs, Calling(p), Calling(q)
  PROVE  p = q
  BY DEF Alone, Calling, Procs

\* While a process is in a call it alone acts; Odoo and the clock go on.
LEMMA Undisturbed ==
  ASSUME TypeOK, Alone, ~Orphans, [Next]_vars, NEW p \in Procs, Calling(p)
  PROVE  Advance(p) \/ Crash(p) \/ Environment \/ UNCHANGED vars
<1>1. ASSUME NEW q \in Procs, Calling(q)
      PROVE  q = p
  BY <1>1, OneCaller
<1>2. ASSUME NEW q \in Procs, Advance(q)
      PROVE  Advance(p)
  BY <1>1, <1>2, AdvanceIs
<1>3. ASSUME NEW w \in Workers, pc[w] # "dead"
      PROVE  w = p
  BY <1>3 DEF Alone, Calling, Procs
<1>4. ASSUME NEW q \in Procs, Crash(q)
      PROVE  Crash(p)
  BY <1>1, <1>3, <1>4 DEF Crash, Calling
<1>5. ASSUME NEW w \in Workers, Start(w)
      PROVE  FALSE
  BY <1>5 DEF Start, AllDead, Calling, Procs
<1>6. ASSUME NEW w \in Workers, pc[w] = "idle"
      PROVE  FALSE
  BY <1>3, <1>6 DEF Calling
<1>7. ~HostMayAct
  BY DEF HostMayAct, AllDead, Calling, Procs
<1> QED
  BY <1>2, <1>4, <1>5, <1>6, <1>7 DEF Next, Validate, Recall, Invoke, Execute, HostApproves,
     HostReconciles, HostAbandons

LEMMA AloneStep ==
  ASSUME WellFormed, Alone, ~Orphans, [Next]_vars
  PROVE  Alone'
<1> USE DEF WellFormed
<1>1. ASSUME NEW p \in Procs, OthersStay(p), pc[p] # "dead",
             p = Host => \A w \in Workers : pc[w] = "dead"
      PROVE  Alone'
  BY <1>1, ActionAssumption DEF Alone, OthersStay, Procs
<1>2. ASSUME NEW p \in Procs, Calling(p), Advance(p)
      PROVE  Alone'
  BY <1>1, <1>2, AdvanceIs DEF Alone, Calling, Procs
<1>3. ASSUME NEW p \in Procs, Crash(p)
      PROVE  Alone'
  BY <1>3, ActionAssumption DEF Crash, Goto, TypeOK, Alone, Procs
<1>4. ASSUME NEW w \in Workers, Start(w)
      PROVE  Alone'
  BY <1>4, ActionAssumption DEF Start, Goto, TypeOK, Alone, AllDead, Procs
<1>5. ASSUME NEW w \in Workers, \/ \E a \in Rows : Execute(w, a)
                                \/ \E i \in Intents : Recall(w, i) \/ Invoke(w, i)
      PROVE  Alone'
  <2>1. OthersStay(w) /\ pc[w] # "dead" /\ w \in Procs /\ w # Host
    BY <1>5, TakesUp, ActionAssumption DEF Execute, Recall, Invoke, Procs
  <2> QED
    BY <1>1, <2>1
<1>6. ASSUME NEW a \in Rows, HostReconciles(a) \/ HostAbandons(a)
      PROVE  Alone'
  <2>1. OthersStay(Host) /\ Host \in Procs
    BY <1>6, TakesUp DEF Procs
  <2>2. pc[Host] # "dead" /\ \A w \in Workers : pc[w] = "dead"
    BY <1>6 DEF HostReconciles, HostAbandons, HostMayAct, AllDead
  <2> QED
    BY <1>1, <2>1, <2>2
<1>7. CASE pc' = pc
  BY <1>7 DEF Alone
<1>8. CASE \/ \E w \in Workers, i \in Intents : Validate(w, i)
           \/ \E a \in Rows : HostApproves(a)
           \/ Environment \/ UNCHANGED vars
  BY <1>7, <1>8 DEF Validate, HostApproves, Environment, OdooCommits, RequestLost,
     ApprovalLapses, OtherEdit, vars, local
<1> QED
  BY <1>2, <1>3, <1>4, <1>5, <1>6, <1>8, AdvanceIs DEF Next

\* Only the process in a call has anything to keep to.
LEMMA FitsOfOne ==
  ASSUME NEW p \in Procs, \A q \in Procs : q # p => ~Calling(q)',
         RowFits(p)', VerdictFits(p)', FirstOfIntent(p)'
  PROVE  \A q \in Procs : RowFits(q)' /\ VerdictFits(q)' /\ FirstOfIntent(q)'
<1>1. ASSUME NEW q \in Procs, ~Calling(q)'
      PROVE  RowFits(q)' /\ VerdictFits(q)' /\ FirstOfIntent(q)'
  BY <1>1 DEF RowFits, VerdictFits, FirstOfIntent, Calling
<1> QED
  BY <1>1

\* Two rows of a key stay apart while what is closed stays closed.
LEMMA KeyOnceStays ==
  ASSUME KeyOnce,
         \A a \in Rows : status'[a] # "none" => status[a] # "none" /\ key'[a] = key[a],
         \A a \in Rows : status[a] # "none" /\ Retired(a) => Retired(a)'
  PROVE  KeyOnce'
  BY DEF KeyOnce

-----------------------------------------------------------------------------
(* The environment, and the steps that take no row up.                     *)

\* What Odoo, the network and the clock do: no request is added.
LEMMA QuietStep ==
  ASSUME WellFormed, CallsInv, UNCHANGED <<status, key, local>>,
         \A a \in Rows : Traffic(a)' \in Nat /\ Traffic(a)' <= Traffic(a)
  PROVE  CallsInv'
<1> USE DEF WellFormed
<1>1. pc' = pc /\ cur' = cur /\ verdict' = verdict /\ status' = status /\ key' = key
  BY DEF local
<1>2. \A a \in Rows : Traffic(a) = 0 => Traffic(a)' = 0
  BY DEF TypeOK, Traffic
<1>3. \A a \in Rows : IntentOf(a)' = IntentOf(a)
  BY <1>1 DEF IntentOf
<1>4. \A a \in Rows : Retired(a) => Retired(a)'
  BY <1>1, <1>2, <1>3 DEF Retired
<1>5. KeyOnce' /\ FailedQuiet' /\ Alone'
  BY <1>1, <1>2, <1>4 DEF CallsInv, KeyOnce, FailedQuiet, Alone
<1>6. ASSUME NEW p \in Procs, Calling(p)
      PROVE  RowFits(p)' /\ VerdictFits(p)' /\ FirstOfIntent(p)'
  <2> DEFINE a == cur[p]
  <2>1. a \in Rows /\ cur'[p] = a /\ pc'[p] = pc[p] /\ verdict'[p] = verdict[p]
    BY <1>1, <1>6 DEF InCall, Calling
  <2>2. /\ Openable(a)' <=> Openable(a)
        /\ Readable(a)' <=> Readable(a)
    BY <1>1, <1>3, <2>1 DEF Openable, Readable
  <2>3. RowFits(p) /\ VerdictFits(p) /\ FirstOfIntent(p)
    BY DEF CallsInv
  <2>4. Openable(cur[p])' = Openable(a)' /\ Readable(cur[p])' = Readable(a)'
        /\ Traffic(cur[p])' = Traffic(a)' /\ IntentOf(cur[p])' = IntentOf(a)
    BY <1>3, <2>1 DEF Openable, Readable, Traffic, IntentOf
  <2> HIDE DEF a
  <2>5. RowFits(p)'
    BY <1>1, <2>1, <2>2, <2>3, <2>4 DEF RowFits, a
  <2>6. VerdictFits(p)'
    BY <1>1, <1>2, <2>1, <2>2, <2>3, <2>4 DEF VerdictFits, a
  <2>7. FirstOfIntent(p)'
    BY <1>1, <1>2, <1>3, <2>1, <2>3, <2>4 DEF FirstOfIntent, a
  <2> QED
    BY <2>5, <2>6, <2>7
<1>7. ASSUME NEW p \in Procs, ~Calling(p)
      PROVE  RowFits(p)' /\ VerdictFits(p)' /\ FirstOfIntent(p)'
  BY <1>1, <1>7 DEF RowFits, VerdictFits, FirstOfIntent, Calling
<1> QED
  BY <1>5, <1>6, <1>7 DEF CallsInv

LEMMA CallsEnvironment ==
  ASSUME WellFormed, CallsInv, Environment \/ UNCHANGED vars
  PROVE  CallsInv'
<1> USE DEF WellFormed, TypeOK, Traffic
<1>1. ASSUME NEW a \in Rows, OdooCommits(a)
      PROVE  CallsInv'
  <2>1. UNCHANGED <<status, key, local>>
    BY <1>1 DEF OdooCommits, store
  <2>2. \A b \in Rows : Traffic(b)' \in Nat /\ Traffic(b)' <= Traffic(b)
    BY <1>1 DEF OdooCommits
  <2> QED
    BY <2>1, <2>2, QuietStep
<1>2. ASSUME NEW a \in Rows, RequestLost(a)
      PROVE  CallsInv'
  <2>1. UNCHANGED <<status, key, local>>
    BY <1>2 DEF RequestLost, store
  <2>2. \A b \in Rows : Traffic(b)' \in Nat /\ Traffic(b)' <= Traffic(b)
    BY <1>2 DEF RequestLost
  <2> QED
    BY <2>1, <2>2, QuietStep
<1>3. ASSUME UNCHANGED <<status, key, local, inflight, effects>>
      PROVE  CallsInv'
  <2>1. \A b \in Rows : Traffic(b)' \in Nat /\ Traffic(b)' <= Traffic(b)
    BY <1>3
  <2> QED
    BY <1>3, <2>1, QuietStep
<1>4. CASE \/ \E a \in Rows : ApprovalLapses(a)
           \/ \E r \in Resources, v \in Values : OtherEdit(r, v)
           \/ UNCHANGED vars
  BY <1>3, <1>4 DEF ApprovalLapses, Lapse, OtherEdit, vars, store, odoo
<1> QED
  BY <1>1, <1>2, <1>4 DEF Environment

\* What is not sent has no traffic.
LEMMA UnsentIsQuiet ==
  ASSUME SentNeverRearmed, OneShot, NEW a \in Rows,
         status[a] \in {"none", "pending_approval", "approved", "executing", "expired"}
  PROVE  Traffic(a) = 0
  BY DEF SentNeverRearmed, OneShot, Terminal

\* register(): a new row is of a key whose other rows are closed for good.
LEMMA RegisterKeeps ==
  ASSUME WellFormed, SentNeverRearmed, OneShot, KeyOnce, FailedQuiet, UNCHANGED odoo,
         NEW c \in Rows, NEW k \in Keys, NEW r \in Resources, NEW src \in DOMAIN GrantOf,
         Register(c, k, r, src)
  PROVE  KeyOnce' /\ FailedQuiet'
<1> USE DEF WellFormed
<1>1. [StoreNext]_store
  BY DEF StoreNext
<1>2. \A a \in Rows : status[a] # "none" => key'[a] = key[a]
  BY <1>1, KeyStays DEF TypeOK
<1>3. \A a \in Rows : Traffic(a)' = Traffic(a)
  BY DEF Traffic, odoo
<1>4. \A a \in Rows : a = c \/ status'[a] = AfterExpiry[a]
  BY DEF Register, ReuseRow, InsertRow, AfterExpiry
<1>5. ASSUME NEW a \in Rows
      PROVE  \/ AfterExpiry[a] = status[a]
             \/ AfterExpiry[a] = "expired" /\ Traffic(a) = 0
  BY ExpiryOnlyOfWaiting, UnsentIsQuiet DEF Waiting
<1>6. ASSUME NEW a \in Rows, status[a] # "none", Retired(a), status'[a] = AfterExpiry[a]
      PROVE  Retired(a)'
  BY <1>2, <1>3, <1>5, <1>6 DEF Retired, IntentOf
<1>7. CASE ReuseRow(c, k)
  <2>1. status' = AfterExpiry /\ key' = key
    BY <1>7 DEF ReuseRow
  <2>2. \A a \in Rows : status'[a] # "none" => status[a] # "none"
    BY <2>1, ExpiryOnlyOfWaiting DEF Waiting
  <2>3. KeyOnce'
    <3>1. \A a \in Rows : status'[a] # "none" => status[a] # "none" /\ key'[a] = key[a]
      BY <2>1, <2>2
    <3>2. \A a \in Rows : status[a] # "none" /\ Retired(a) => Retired(a)'
      BY <1>6, <2>1
    <3> QED
      BY <3>1, <3>2, KeyOnceStays
  <2>4. FailedQuiet'
    BY <1>3, <1>5, <2>1 DEF FailedQuiet
  <2> QED
    BY <2>3, <2>4
<1>8. CASE InsertRow(c, k, r, src)
  <2>1. /\ ReusableRows(k) = {} /\ status[c] = "none"
        /\ status'[c] \in {"approved", "pending_approval"} /\ key'[c] = k
        /\ \A a \in Rows : a # c => status'[a] = AfterExpiry[a]
    BY <1>8 DEF InsertRow, IsNext, AfterExpiry, TypeOK, StoreTypeOK
  <2>2. ASSUME NEW a \in Rows, a # c, status'[a] # "none"
        PROVE  status[a] # "none" /\ key'[a] = key[a]
    BY <1>2, <2>1, <2>2, ExpiryOnlyOfWaiting DEF Waiting
  <2>3. ASSUME NEW a \in Rows, a # c, status'[a] # "none", key'[a] = k
        PROVE  Retired(a)'
    <3>1. status[a] # "none" /\ key[a] = k /\ status'[a] = AfterExpiry[a]
      BY <2>1, <2>2, <2>3
    <3>2. AfterExpiry[a] \notin Reusable /\ AfterExpiry[a] \in Statuses
      BY <2>1, <3>1, ExpiryOnlyOfWaiting DEF ReusableRows, TypeOK, StoreTypeOK, Statuses
    <3>3. AfterExpiry[a] \in {"expired", "known_failed"}
      BY <3>1, <3>2, <2>3 DEF Statuses, Reusable, Terminal
    <3>4. Traffic(a) = 0
      BY <1>5, <3>3, UnsentIsQuiet DEF FailedQuiet
    <3> QED
      BY <1>3, <3>1, <3>3, <3>4 DEF Retired
  <2>4. KeyOnce'
    <3> SUFFICES ASSUME NEW a \in Rows, NEW b \in Rows, a # b, status'[a] # "none",
                        status'[b] # "none", key'[a] = key'[b]
                 PROVE  Retired(a)' \/ Retired(b)'
      BY DEF KeyOnce
    <3>1. CASE a = c \/ b = c
      BY <2>1, <2>3, <3>1
    <3>2. CASE a # c /\ b # c
      <4>1. /\ status[a] # "none" /\ status[b] # "none" /\ key[a] = key[b]
            /\ status'[a] = AfterExpiry[a] /\ status'[b] = AfterExpiry[b]
        BY <2>1, <2>2, <3>2
      <4>2. Retired(a) \/ Retired(b)
        BY <4>1 DEF KeyOnce
      <4> QED
        BY <1>6, <4>1, <4>2
    <3> QED
      BY <3>1, <3>2
  <2>5. FailedQuiet'
    BY <1>3, <1>5, <2>1 DEF FailedQuiet
  <2> QED
    BY <2>4, <2>5
<1> QED
  BY <1>7, <1>8 DEF Register

\* Steps after which nobody is in a call.
LEMMA CallsEnded ==
  ASSUME WellFormed, CallsInv, Alone', SentNeverRearmed, OneShot, ~Orphans,
         \/ \E w \in Workers : Start(w)
         \/ \E p \in Procs : Crash(p)
         \/ \E w \in Workers, i \in Intents : Validate(w, i)
         \/ \E a \in Rows : HostApproves(a)
  PROVE  CallsInv'
<1> USE DEF WellFormed
<1>1. ASSUME \A p \in Procs : ~Calling(p)', KeyOnce', FailedQuiet'
      PROVE  CallsInv'
  BY <1>1 DEF CallsInv, RowFits, VerdictFits, FirstOfIntent, Calling
<1>2. ASSUME UNCHANGED <<status, key, odoo>>
      PROVE  KeyOnce' /\ FailedQuiet'
  BY <1>2 DEF CallsInv, KeyOnce, FailedQuiet, Retired, Traffic, IntentOf, odoo
<1>3. ASSUME key' = key, UNCHANGED odoo,
             \A a \in Rows : \/ status'[a] = status[a]
                             \/ /\ status[a] \in {"pending_approval", "executing", "sending"}
                                /\ status'[a] \notin {"none", "known_failed"}
      PROVE  KeyOnce' /\ FailedQuiet'
  <2>1. \A a \in Rows : Traffic(a)' = Traffic(a) /\ IntentOf(a)' = IntentOf(a)
    BY <1>3 DEF Traffic, IntentOf, odoo
  <2>2. \A a \in Rows : Retired(a) => Retired(a)'
    BY <1>3, <2>1 DEF Retired
  <2>3. \A a \in Rows : status'[a] # "none" => status[a] # "none" /\ key'[a] = key[a]
    BY <1>3
  <2> QED
    BY <1>3, <2>1, <2>2, <2>3, KeyOnceStays DEF CallsInv, FailedQuiet
<1>4. ASSUME NEW w \in Workers, Start(w)
      PROVE  CallsInv'
  <2>1. pc[Host] = "idle" /\ AllDead /\ pc' = [pc EXCEPT ![w] = "idle"] /\ w # Host
    BY <1>4, ActionAssumption DEF Start, Goto
  <2>2. \A p \in Procs : ~Calling(p)'
    BY <2>1 DEF TypeOK, AllDead, Calling, Procs
  <2>3. KeyOnce' /\ FailedQuiet'
    BY <1>3, <1>4 DEF Start, RecoverInterrupted
  <2> QED
    BY <1>1, <2>2, <2>3
<1>5. ASSUME NEW p \in Procs, Crash(p)
      PROVE  CallsInv'
  <2>1. pc'[p] \in {"dead", "idle"} /\ \A q \in Procs : q # p => pc'[q] = pc[q]
    BY <1>5 DEF Crash, Goto, TypeOK
  <2>2. \A q \in Procs : q # p => ~Calling(q)
    BY <1>5, ActionAssumption DEF Crash, CallsInv, Alone, Calling, Procs
  <2>3. \A q \in Procs : ~Calling(q)'
    BY <2>1, <2>2 DEF Calling
  <2>4. KeyOnce' /\ FailedQuiet'
    BY <1>2, <1>5 DEF Crash, store
  <2> QED
    BY <1>1, <2>3, <2>4
<1>6. ASSUME NEW w \in Workers, NEW i \in Intents, Validate(w, i)
      PROVE  CallsInv'
  <2>1. \A p \in Procs : ~Calling(p)'
    BY <1>6 DEF Validate, local, CallsInv, Alone, Calling, Procs
  <2>2. KeyOnce' /\ FailedQuiet'
    BY <1>6, RegisterKeeps, RegisterArguments DEF Validate, CallsInv
  <2> QED
    BY <1>1, <2>1, <2>2
<1>7. ASSUME NEW a \in Rows, HostApproves(a)
      PROVE  CallsInv'
  <2>1. \A p \in Procs : ~Calling(p)'
    BY <1>7 DEF HostApproves, HostMayAct, AllDead, local, Calling, Procs
  <2>2. KeyOnce' /\ FailedQuiet'
    BY <1>3, <1>7 DEF HostApproves, Approve, TypeOK, StoreTypeOK
  <2> QED
    BY <1>1, <2>1, <2>2
<1> QED
  BY <1>4, <1>5, <1>6, <1>7

-----------------------------------------------------------------------------
(* A row is taken up.                                                      *)

LEMMA CallsTaken ==
  ASSUME WellFormed, CallsInv, Alone', SentNeverRearmed, OneShot, ~Orphans, NEW p \in Procs,
         \/ p \in Workers /\ \E a \in Rows : Execute(p, a)
         \/ p \in Workers /\ \E i \in Intents : Recall(p, i) \/ Invoke(p, i)
         \/ p = Host /\ \E a \in Rows : HostReconciles(a) \/ HostAbandons(a)
  PROVE  CallsInv'
<1> USE DEF WellFormed
<1>1. /\ pc[p] = "idle" /\ UNCHANGED odoo
      /\ \A q \in Procs : ~Calling(q)
  <2>1. CASE p \in Workers
    <3>1. pc[p] = "idle" /\ UNCHANGED odoo
      BY <2>1, ActionAssumption DEF Execute, Recall, Invoke
    <3> QED
      BY <2>1, <3>1 DEF CallsInv, Alone, Calling, Procs
  <2>2. CASE p = Host
    BY <2>2, ActionAssumption DEF HostReconciles, HostAbandons, HostMayAct, AllDead, Calling,
       Procs
  <2> QED
    BY <2>1, <2>2 DEF Procs
<1>2. OthersStay(p) /\ (UNCHANGED local \/ \E a \in Rows : Entered(p, a))
  BY TakesUp
<1>3. \A q \in Procs : q # p => ~Calling(q)'
  BY <1>1, <1>2 DEF OthersStay, Calling
<1>4. KeyOnce' /\ FailedQuiet'
  <2>1. CASE UNCHANGED store
    BY <1>1, <2>1 DEF CallsInv, KeyOnce, FailedQuiet, Retired, Traffic, IntentOf, odoo, store
  <2>2. ASSUME NEW i \in Intents, Invoke(p, i)
        PROVE  KeyOnce' /\ FailedQuiet'
    BY <1>1, <2>2, RegisterKeeps, RegisterArguments DEF Invoke, CallsInv
  <2> QED
    BY <2>1, <2>2 DEF Execute, Recall, HostReconciles, HostAbandons
<1>5. [StoreNext]_store
  <2>1. CASE UNCHANGED store
    BY <2>1
  <2>2. ASSUME NEW i \in Intents, Invoke(p, i)
        PROVE  [StoreNext]_store
    BY <2>2, RegisterArguments DEF Invoke, StoreNext
  <2> QED
    BY <2>1, <2>2 DEF Execute, Recall, HostReconciles, HostAbandons
<1>6. ASSUME NEW a \in Rows, Entered(p, a)
      PROVE  RowFits(p)' /\ VerdictFits(p)' /\ FirstOfIntent(p)'
  <2>1. cur'[p] = a /\ \A b \in Rows : Traffic(b)' = Traffic(b)
    BY <1>1, <1>6 DEF Entered, Traffic, odoo
  <2>2. RowFits(p)'
    BY <1>6, <2>1 DEF Entered, RowFits, Openable, Readable, IntentOf
  <2>3. VerdictFits(p)'
    <3>1. ASSUME pc'[p] = "closing"
          PROVE  /\ status'[a] \in Waiting
                 /\ verdict'[p] = [status |-> "known_failed", result |-> FALSE]
                 /\ Traffic(a) = 0
      <4>1. /\ status'[a] \in Waiting
            /\ verdict'[p] = [status |-> "known_failed", result |-> FALSE]
        BY <1>6, <3>1 DEF Entered
      <4>2. sent'[a] => FALSE
        BY <4>1, <1>5, SentStep DEF Waiting, SentNeverRearmed, Terminal, TypeOK
      <4>3. ~sent[a]
        BY <1>5, <4>2, MarkersStay DEF TypeOK
      <4> QED
        BY <4>1, <4>3 DEF OneShot
    <3> QED
      BY <2>1, <3>1 DEF VerdictFits, Traffic
  <2>4. FirstOfIntent(p)'
    <3> SUFFICES ASSUME pc'[p] \in {"fetched", "fresh", "unclaimed", "claimed", "marked"},
                        (KindOf[IntentOf(cur[p])] \in {"method", "wizard"})',
                        NEW b \in Rows \ {a}, status'[b] # "none",
                        IntentOf(b)' = IntentOf(cur[p])'
                 PROVE  Traffic(b)' = 0
      BY <2>1 DEF FirstOfIntent
    <3>1. PICK i \in Intents : /\ IntentOf(a)' = i
                               /\ KindOf[i] \in {"method", "wizard"} => SentRows(i) = {}
      BY <1>6 DEF Entered
    <3>2. IntentOf(cur[p])' = i
      BY <2>1, <3>1 DEF IntentOf
    <3>3. SentRows(i) = {}
      BY <3>1, <3>2
    <3>4. CASE status[b] = "none"
      BY <2>1, <3>4, UnsentIsQuiet
    <3>5. CASE status[b] # "none"
      <4>1. IntentOf(b) = i
        BY <1>5, <3>2, <3>5, KeyStays DEF IntentOf, TypeOK
      <4>2. status[b] \notin {"sending", "needs_reconciliation", "verified"}
        BY <3>3, <4>1 DEF SentRows
      <4>3. Traffic(b) = 0
        BY <3>5, <4>2, UnsentIsQuiet DEF CallsInv, FailedQuiet, TypeOK, StoreTypeOK, Statuses,
           Reusable, Terminal
      <4> QED
        BY <2>1, <4>3
    <3> QED
      BY <3>4, <3>5
  <2> QED
    BY <2>2, <2>3, <2>4
<1>7. CASE UNCHANGED local
  <2>1. ~Calling(p)'
    BY <1>1, <1>7 DEF local, Calling
  <2> QED
    BY <1>3, <1>4, <2>1 DEF CallsInv, RowFits, VerdictFits, FirstOfIntent, Calling
<1>8. CASE \E a \in Rows : Entered(p, a)
  BY <1>3, <1>4, <1>6, <1>8, FitsOfOne DEF CallsInv
<1> QED
  BY <1>2, <1>7, <1>8

-----------------------------------------------------------------------------
(* A call goes on.                                                         *)

\* Steps that look at Odoo, or give up: nothing changes but the call.
LEMMA CallsLook ==
  ASSUME WellFormed, CallsInv, Alone', SentNeverRearmed, OneShot, NEW p \in Procs,
         \/ Readback(p) \/ Refuse(p) \/ CheckPrestate(p) \/ FindSatisfied(p)
         \/ FindUnsatisfied(p) \/ PrepareFails(p) \/ ReplySuccess(p) \/ ReplyLost(p)
         \/ ReadAfterSend(p) \/ (MarkRow(p) /\ UNCHANGED store)
         \/ (ClaimRow(p) /\ UNCHANGED store),
         Advance(p)
  PROVE  CallsInv'
<1> USE DEF WellFormed
<1> DEFINE a == cur[p]
<1>1. UNCHANGED <<store, odoo>> /\ OthersStay(p) /\ Calling(p)
  BY AdvanceIs DEF Readback, Refuse, CheckPrestate, FindSatisfied, FindUnsatisfied, PrepareFails,
     ReplySuccess, ReplyLost, ReadAfterSend, MarkRow, ClaimRow
<1>2. a \in Rows /\ status[a] # "none" /\ RowFits(p) /\ VerdictFits(p) /\ FirstOfIntent(p)
  BY <1>1 DEF Calling, InCall, CallsInv
<1>3. \A q \in Procs : q # p => ~Calling(q)'
  BY <1>1, OneCaller DEF OthersStay, Calling, CallsInv
<1>4. KeyOnce' /\ FailedQuiet'
  BY <1>1 DEF CallsInv, KeyOnce, FailedQuiet, Retired, Traffic, IntentOf, odoo, store
<1>5. /\ status' = status
      /\ \A b \in Rows : /\ Traffic(b)' = Traffic(b) /\ IntentOf(b)' = IntentOf(b)
                         /\ Openable(b)' = Openable(b) /\ Readable(b)' = Readable(b)
  BY <1>1 DEF Traffic, IntentOf, odoo, store, Openable, Readable
<1>6. ASSUME cur'[p] = a
      PROVE  /\ Openable(cur[p])' = Openable(a) /\ Readable(cur[p])' = Readable(a)
             /\ Traffic(cur[p])' = Traffic(a) /\ IntentOf(cur[p])' = IntentOf(a)
  BY <1>2, <1>5, <1>6 DEF Openable, Readable, Traffic, IntentOf
<1>7. ASSUME pc'[p] = "idle"
      PROVE  RowFits(p)' /\ VerdictFits(p)' /\ FirstOfIntent(p)'
  BY <1>7 DEF RowFits, VerdictFits, FirstOfIntent
\* The call keeps its row and goes on to another step before its conclusion.
<1>8. ASSUME NEW phase \in {"fresh", "unclaimed", "replied"},
             Goto(p, phase) /\ UNCHANGED <<cur, snapResult, verdict>>,
             phase \in {"fresh", "unclaimed"} =>
               Openable(a) /\ pc[p] \in {"fetched", "fresh", "unclaimed"},
             phase = "replied" => status[a] = "sending"
      PROVE  RowFits(p)' /\ VerdictFits(p)' /\ FirstOfIntent(p)'
  <2>1. pc'[p] = phase /\ cur'[p] = a
    BY <1>8, GoesOn
  <2>2. RowFits(p)'
    BY <1>5, <1>6, <1>8, <2>1 DEF RowFits
  <2>3. VerdictFits(p)'
    BY <2>1 DEF VerdictFits
  <2>4. FirstOfIntent(p)'
    <3> SUFFICES ASSUME pc'[p] \in {"fresh", "unclaimed"},
                        (KindOf[IntentOf(cur[p])] \in {"method", "wizard"})',
                        NEW b \in Rows \ {a}, status'[b] # "none",
                        IntentOf(b)' = IntentOf(cur[p])'
                 PROVE  Traffic(b)' = 0
      BY <2>1 DEF FirstOfIntent
    <3>1. /\ pc[p] \in {"fetched", "fresh", "unclaimed"} /\ status[b] # "none"
          /\ KindOf[IntentOf(a)] \in {"method", "wizard"} /\ IntentOf(b) = IntentOf(a)
      BY <1>5, <1>6, <1>8, <2>1
    <3> QED
      BY <1>2, <1>5, <3>1 DEF FirstOfIntent
  <2> QED
    BY <2>2, <2>3, <2>4
\* The call comes to its conclusion.
<1>9. ASSUME NEW s \in Terminal, NEW result \in BOOLEAN, Conclude(p, s, result),
             s = "known_failed" => status[a] = "executing",
             s = "needs_reconciliation" => Readable(a),
             s = "verified" => Readable(a) \/ Openable(a)
      PROVE  RowFits(p)' /\ VerdictFits(p)' /\ FirstOfIntent(p)'
  <2>1. pc'[p] = "closing" /\ cur'[p] = a /\ verdict'[p].status = s
    BY <1>9 DEF Conclude, Goto, TypeOK
  <2>2. s = "known_failed" => Traffic(a) = 0
    BY <1>2, <1>9, UnsentIsQuiet
  <2>3. VerdictFits(p)'
    BY <1>5, <1>6, <1>9, <2>1, <2>2 DEF VerdictFits
  <2> QED
    BY <2>1, <2>3 DEF RowFits, FirstOfIntent
<1>10. RowFits(p)' /\ VerdictFits(p)' /\ FirstOfIntent(p)'
  <2>1. CASE Refuse(p) \/ (ClaimRow(p) /\ Return(p)) \/ (MarkRow(p) /\ Return(p))
    BY <1>7, <2>1, GoesOn DEF Refuse
  <2>2. CASE CheckPrestate(p) \/ FindUnsatisfied(p)
    <3>1. Openable(a)
      BY <1>2, <2>2 DEF RowFits, CheckPrestate, FindUnsatisfied
    <3> QED
      BY <1>8, <2>2, <3>1 DEF CheckPrestate, FindUnsatisfied
  <2>3. CASE ReplySuccess(p)
    BY <1>2, <1>8, <2>3 DEF RowFits, ReplySuccess
  <2>4. CASE FindSatisfied(p)
    <3>1. Openable(a) /\ Conclude(p, "verified", TRUE)
      BY <1>2, <2>4 DEF RowFits, FindSatisfied
    <3> QED
      BY <1>9, <3>1 DEF Terminal
  <2>5. CASE PrepareFails(p)
    <3>1. status[a] = "executing" /\ Conclude(p, "known_failed", FALSE)
      BY <1>2, <2>5 DEF RowFits, PrepareFails
    <3> QED
      BY <1>9, <3>1 DEF Terminal
  <2>6. CASE ReplyLost(p)
    <3>1. Readable(a) /\ Conclude(p, "needs_reconciliation", FALSE)
      BY <1>2, <2>6 DEF RowFits, ReplyLost, Readable
    <3> QED
      BY <1>9, <3>1 DEF Terminal
  <2>7. CASE ReadAfterSend(p) \/ Readback(p)
    <3>1. Readable(a)
      BY <1>2, <2>7 DEF RowFits, ReadAfterSend, Readback, Readable
    <3>2. snapResult[p] \in BOOLEAN
      BY DEF TypeOK
    <3>3. PICK s \in {"verified", "needs_reconciliation"}, result \in BOOLEAN :
            Conclude(p, s, result)
      <4>1. ASSUME NEW result \in BOOLEAN, NEW S,
                   \E satisfied \in S :
                     Conclude(p, IF satisfied THEN "verified" ELSE "needs_reconciliation", result)
            PROVE  \E s \in {"verified", "needs_reconciliation"} : Conclude(p, s, result)
        BY <4>1
      <4> QED
        BY <2>7, <3>2, <4>1 DEF ReadAfterSend, Readback
    <3> QED
      BY <1>9, <3>1, <3>3 DEF Terminal
  <2>8. CASE MarkRow(p) /\ UNCHANGED store
    <3>1. Return(p)
      <4>1. CASE status[a] = "executing"
        <5>1. status'[a] = "sending"
          BY <1>2, <2>8, <4>1 DEF MarkRow, MarkSending, TypeOK, StoreTypeOK
        <5> QED
          BY <1>5, <4>1, <5>1
      <4>2. CASE status[a] # "executing"
        BY <2>8, <4>2 DEF MarkRow
      <4> QED
        BY <4>1, <4>2
    <3> QED
      BY <1>7, <3>1, GoesOn
  <2>9. CASE ClaimRow(p) /\ UNCHANGED store
    <3>1. Return(p)
      <4>1. CASE ClaimOutcome(a) = "executing"
        <5>1. status'[a] = "executing" /\ status[a] = "approved"
          BY <1>2, <2>9, <4>1 DEF ClaimRow, Claim, ClaimOutcome, TypeOK, StoreTypeOK
        <5> QED
          BY <1>5, <5>1
      <4>2. CASE ClaimOutcome(a) # "executing"
        BY <2>9, <4>2 DEF ClaimRow
      <4> QED
        BY <4>1, <4>2
    <3> QED
      BY <1>7, <3>1, GoesOn
  <2> QED
    BY <2>1, <2>2, <2>3, <2>4, <2>5, <2>6, <2>7, <2>8, <2>9
<1> QED
  BY <1>3, <1>4, <1>10, FitsOfOne DEF CallsInv

\* Steps that write: to the ledger, or to the network.
LEMMA CallsWrite ==
  ASSUME WellFormed, CallsInv, Alone', SentNeverRearmed, OneShot, NEW p \in Procs,
         NEW a \in Rows, a = cur[p], Advance(p),
         \/ ClaimRow(p) /\ ClaimOutcome(a) \in {"executing", "expired"}
         \/ MarkRow(p) /\ status[a] = "executing"
         \/ Dispatch(p) \/ ReplyRejected(p) \/ Close(p)
  PROVE  CallsInv'
<1> USE DEF WellFormed
<1>1. OthersStay(p) /\ Calling(p) /\ key' = key
  BY AdvanceIs DEF ClaimRow, Claim, MarkRow, MarkSending, Dispatch, ReplyRejected, Close, Finish,
     store
<1>2. status[a] # "none" /\ RowFits(p) /\ VerdictFits(p) /\ FirstOfIntent(p)
  BY <1>1 DEF Calling, InCall, CallsInv
<1>3. \A q \in Procs : q # p => ~Calling(q)'
  BY <1>1, OneCaller DEF OthersStay, Calling, CallsInv
<1>4. \A b \in Rows : IntentOf(b)' = IntentOf(b)
  BY <1>1 DEF IntentOf
\* What is left to show: the row is no longer closed for good only if it was not.
<1>5. ASSUME \A b \in Rows : b # a => status'[b] = status[b] /\ Traffic(b)' = Traffic(b),
             status'[a] # "none", Retired(a) => Retired(a)',
             status'[a] = "known_failed" => Traffic(a)' = 0,
             RowFits(p)', VerdictFits(p)', FirstOfIntent(p)'
      PROVE  CallsInv'
  <2>1. \A b \in Rows : status'[b] # "none" => status[b] # "none" /\ key'[b] = key[b]
    BY <1>1, <1>2, <1>5
  <2>2. \A b \in Rows : status[b] # "none" /\ Retired(b) => Retired(b)'
    BY <1>4, <1>5 DEF Retired
  <2>3. KeyOnce'
    BY <2>1, <2>2, KeyOnceStays DEF CallsInv
  <2>4. FailedQuiet'
    BY <1>5 DEF CallsInv, FailedQuiet
  <2> QED
    BY <1>3, <1>5, <2>3, <2>4, FitsOfOne DEF CallsInv
<1>6. CASE ClaimRow(p) /\ ClaimOutcome(a) = "executing"
  <2>1. /\ pc[p] = "unclaimed" /\ status[a] = "approved" /\ UNCHANGED odoo
        /\ status' = [status EXCEPT ![a] = "executing"]
        /\ Goto(p, "claimed") /\ UNCHANGED <<cur, snapResult, verdict>>
    BY <1>6 DEF ClaimRow, Claim, ClaimOutcome
  <2>2. pc'[p] = "claimed" /\ cur'[p] = a
    BY <2>1, GoesOn
  <2>3. status'[a] = "executing" /\ \A b \in Rows : b # a => status'[b] = status[b]
    BY <2>1 DEF TypeOK, StoreTypeOK
  <2>4. \A b \in Rows : Traffic(b)' = Traffic(b)
    BY <2>1 DEF Traffic, odoo
  <2>5. RowFits(p)' /\ VerdictFits(p)'
    BY <2>2, <2>3 DEF RowFits, VerdictFits
  <2>6. FirstOfIntent(p)'
    <3>1. IntentOf(cur[p])' = IntentOf(a)
      BY <1>4, <2>2 DEF IntentOf
    <3> QED
      BY <1>2, <1>4, <2>1, <2>2, <2>3, <2>4, <3>1 DEF FirstOfIntent
  <2> QED
    BY <1>5, <2>1, <2>3, <2>4, <2>5, <2>6 DEF Retired
<1>7. CASE MarkRow(p) /\ status[a] = "executing"
  <2>1. /\ pc[p] = "claimed" /\ UNCHANGED odoo
        /\ status' = [status EXCEPT ![a] = "sending"]
        /\ Goto(p, "marked") /\ UNCHANGED <<cur, snapResult, verdict>>
    BY <1>7 DEF MarkRow, MarkSending
  <2>2. pc'[p] = "marked" /\ cur'[p] = a
    BY <2>1, GoesOn
  <2>3. status'[a] = "sending" /\ \A b \in Rows : b # a => status'[b] = status[b]
    BY <2>1 DEF TypeOK, StoreTypeOK
  <2>4. \A b \in Rows : Traffic(b)' = Traffic(b)
    BY <2>1 DEF Traffic, odoo
  <2>5. RowFits(p)' /\ VerdictFits(p)'
    BY <2>2, <2>3 DEF RowFits, VerdictFits
  <2>6. FirstOfIntent(p)'
    <3>1. IntentOf(cur[p])' = IntentOf(a)
      BY <1>4, <2>2 DEF IntentOf
    <3> QED
      BY <1>2, <1>4, <2>1, <2>2, <2>3, <2>4, <3>1 DEF FirstOfIntent
  <2> QED
    BY <1>5, <1>7, <2>3, <2>4, <2>5, <2>6 DEF Retired
<1>8. CASE Dispatch(p)
  <2>1. /\ pc[p] = "marked" /\ status' = status /\ effects' = effects
        /\ inflight' = [inflight EXCEPT ![a] = inflight[a] + 1]
        /\ Goto(p, "waiting") /\ UNCHANGED <<cur, snapResult, verdict>>
    BY <1>8 DEF Dispatch, store
  <2>2. pc'[p] = "waiting" /\ cur'[p] = a
    BY <2>1, GoesOn
  <2>3. status[a] = "sending"
    BY <1>2, <2>1 DEF RowFits
  <2>4. \A b \in Rows : b # a => Traffic(b)' = Traffic(b)
    BY <2>1 DEF Traffic, TypeOK
  <2>5. RowFits(p)' /\ VerdictFits(p)' /\ FirstOfIntent(p)'
    BY <2>1, <2>2, <2>3 DEF RowFits, VerdictFits, FirstOfIntent
  <2> QED
    BY <1>5, <2>1, <2>3, <2>4, <2>5 DEF Retired
<1>9. CASE ReplyRejected(p)
  <2>1. /\ pc[p] = "waiting" /\ status' = status /\ effects' = effects
        /\ inflight[a] > 0 /\ inflight' = [inflight EXCEPT ![a] = inflight[a] - 1]
        /\ Conclude(p, "known_failed", FALSE)
    BY <1>9 DEF ReplyRejected, store
  <2>2. pc'[p] = "closing" /\ cur'[p] = a /\ verdict'[p].status = "known_failed"
    BY <2>1 DEF Conclude, Goto, TypeOK
  <2>3. status[a] = "sending"
    BY <1>2, <2>1 DEF RowFits
  <2>4. \A b \in Rows : b # a => Traffic(b)' = Traffic(b)
    BY <2>1 DEF Traffic, TypeOK
  <2>5. Traffic(a)' = 0
    <3>1. Traffic(a) <= 1
      BY DEF OneShot
    <3> QED
      BY <2>1, <3>1 DEF Traffic, TypeOK
  <2>6. VerdictFits(p)'
    <3>1. Traffic(cur[p])' = 0
      BY <2>2, <2>5 DEF Traffic
    <3> QED
      BY <2>1, <2>2, <2>3, <3>1 DEF VerdictFits
  <2>7. RowFits(p)' /\ FirstOfIntent(p)'
    BY <2>2 DEF RowFits, FirstOfIntent
  <2> QED
    BY <1>5, <2>1, <2>3, <2>4, <2>6, <2>7 DEF Retired
<1>10. CASE Close(p)
  <2> DEFINE s == verdict[p].status
  <2>1. /\ pc[p] = "closing" /\ status' = [status EXCEPT ![a] = s] /\ UNCHANGED odoo
        /\ pc'[p] = "idle"
    BY <1>10, GoesOn DEF Close, Finish
  <2>2. s \in Terminal
    BY <1>10 DEF Close, Finish
  <2> HIDE DEF s
  <2>3. status'[a] = s /\ \A b \in Rows : b # a => status'[b] = status[b]
    BY <2>1 DEF TypeOK, StoreTypeOK
  <2>4. \A b \in Rows : Traffic(b)' = Traffic(b)
    BY <2>1 DEF Traffic, odoo
  <2>5. RowFits(p)' /\ VerdictFits(p)' /\ FirstOfIntent(p)'
    BY <2>1 DEF RowFits, VerdictFits, FirstOfIntent
  <2>6. s = "known_failed" =>
          status[a] \in Waiting \cup {"executing", "sending"} /\ Traffic(a) = 0
    BY <1>2, <2>1 DEF VerdictFits, s
  <2>7. s = "needs_reconciliation" => Readable(a)
    BY <1>2, <2>1 DEF VerdictFits, s
  <2>8. s = "verified" => Readable(a) \/ Openable(a)
    BY <1>2, <2>1 DEF VerdictFits, s
  <2>9. Retired(a) => Retired(a)'
    <3> SUFFICES ASSUME Retired(a)
                 PROVE  Retired(a)'
      OBVIOUS
    <3>1. ~Readable(a) /\ status[a] \notin Waiting \cup {"executing", "sending"}
      BY DEF Retired, Readable, Waiting
    <3>2. s = "verified" /\ KindOf[IntentOf(a)] \in ById
      BY <2>2, <2>6, <2>7, <2>8, <3>1 DEF Terminal, Openable
    <3> QED
      BY <1>4, <2>3, <2>4, <3>2 DEF Retired, ById
  <2> QED
    BY <1>5, <2>2, <2>3, <2>4, <2>5, <2>6, <2>9 DEF Terminal
<1>11. CASE ClaimRow(p) /\ ClaimOutcome(a) = "expired"
  <2>1. /\ status[a] \in Waiting /\ UNCHANGED odoo /\ Return(p)
        /\ status' = [status EXCEPT ![a] = "expired"]
    BY <1>11 DEF ClaimRow, Claim, ClaimOutcome
  <2>2. status'[a] = "expired" /\ \A b \in Rows : b # a => status'[b] = status[b]
    BY <2>1 DEF TypeOK, StoreTypeOK
  <2>3. \A b \in Rows : Traffic(b)' = Traffic(b)
    BY <2>1 DEF Traffic, odoo
  <2>4. RowFits(p)' /\ VerdictFits(p)' /\ FirstOfIntent(p)'
    BY <2>1, GoesOn DEF RowFits, VerdictFits, FirstOfIntent
  <2> QED
    BY <1>5, <2>1, <2>2, <2>3, <2>4 DEF Retired, Waiting
<1> QED
  BY <1>6, <1>7, <1>8, <1>9, <1>10, <1>11

LEMMA CallsAdvance ==
  ASSUME WellFormed, CallsInv, Alone', SentNeverRearmed, OneShot, NEW p \in Procs, Advance(p)
  PROVE  CallsInv'
<1>1. Calling(p) /\ cur[p] \in Rows
  BY AdvanceIs DEF WellFormed, InCall, Calling
<1>2. CASE ClaimRow(p)
  <2>1. CASE ClaimOutcome(cur[p]) \in {"executing", "expired"}
    BY <1>1, <1>2, <2>1, CallsWrite
  <2>2. CASE ClaimOutcome(cur[p]) \notin {"executing", "expired"}
    <3>1. UNCHANGED store
      BY <1>1, <1>2, <2>2 DEF ClaimRow, Claim, store, WellFormed, TypeOK, StoreTypeOK
    <3> QED
      BY <1>2, <3>1, CallsLook
  <2> QED
    BY <2>1, <2>2
<1>3. CASE MarkRow(p)
  <2>1. UNCHANGED store \/ status[cur[p]] = "executing"
    BY <1>3 DEF MarkRow
  <2> QED
    BY <1>1, <1>3, <2>1, CallsLook, CallsWrite
<1>4. CASE Dispatch(p) \/ ReplyRejected(p) \/ Close(p)
  BY <1>1, <1>4, CallsWrite
<1> QED
  BY <1>2, <1>3, <1>4, CallsLook DEF Advance

LEMMA CallsStep ==
  ASSUME WellFormed, CallsInv, SentNeverRearmed, OneShot, ~Orphans, [Next]_vars
  PROVE  CallsInv'
<1>1. Alone'
  BY AloneStep DEF CallsInv
<1> QED
  BY <1>1, CallsAdvance, CallsTaken, CallsEnded, CallsEnvironment DEF Next, Procs

LEMMA CallsInit == Init => CallsInv
  BY DEF Init, StoreInit, CallsInv, Alone, RowFits, VerdictFits, FirstOfIntent, FailedQuiet,
     KeyOnce, Procs

\* The shape of a state, and what the ledger and the calls keep to while no
\* worker outlives the host that started it.
CallsIInv == WellFormed /\ SentNeverRearmed /\ OneShot /\ CallsInv

THEOREM CallsInvariant == ~Orphans => (Spec => []CallsIInv)
<1> SUFFICES ASSUME ~Orphans
             PROVE  Spec => []CallsIInv
  OBVIOUS
<1>1. Init => CallsIInv
  BY WellFormedInit, CallsInit
     DEF Init, StoreInit, SentNeverRearmed, OneShot, Traffic, CallsIInv
<1>2. CallsIInv /\ [Next]_vars => CallsIInv'
  <2> SUFFICES ASSUME CallsIInv, [Next]_vars
               PROVE  CallsIInv'
    OBVIOUS
  <2>1. SentNeverRearmed'
    BY UsesLedger, SentStep DEF CallsIInv, WellFormed, TypeOK
  <2> QED
    BY <2>1, WellFormedStep, OneShotStep, CallsStep DEF CallsIInv
<1> QED
  BY <1>1, <1>2, PTL DEF Spec

-----------------------------------------------------------------------------
(* The theorems, for a host that outlives its workers.                     *)

\* What the model is told has failed, and may be tried again, has no effect and
\* will have none: whatever was lost, answered late or stopped in between.
THEOREM FailedWithoutEffect == ~Orphans => (Spec => []FailedHasNoEffect)
<1>1. CallsIInv => FailedHasNoEffect
  BY DEF CallsIInv, CallsInv, FailedQuiet, FailedHasNoEffect, Traffic
<1> QED
  BY <1>1, CallsInvariant, PTL

\* An intent is applied once to one state of its record: a second row of the key
\* is only made when the first is closed for good and has no effect.
THEOREM OncePerKey == ~Orphans => (Spec => []AppliedOncePerKey)
<1>1. CallsIInv => AppliedOncePerKey
  <2> SUFFICES ASSUME CallsIInv, NEW a \in Rows, NEW b \in Rows, a # b, status[a] # "none",
                      key[a] = key[b], Traffic(a) > 0
               PROVE  Traffic(b) = 0
    BY DEF AppliedOncePerKey, Traffic
  <2>1. CASE status[b] = "none"
    BY <2>1 DEF CallsIInv, WellFormed, KeysKnown, Traffic
  <2>2. CASE status[b] # "none"
    <3>1. Retired(a) \/ Retired(b)
      BY <2>2 DEF CallsIInv, CallsInv, KeyOnce
    <3> QED
      BY <3>1 DEF Retired
  <2> QED
    BY <2>1, <2>2
<1> QED
  BY <1>1, CallsInvariant, PTL

\* Only a call that may still dispatch adds traffic, and it is the first of its
\* intent to do so.
LEMMA MethodStep ==
  ASSUME CallsIInv, MethodSentOnce, [Next]_vars
  PROVE  MethodSentOnce'
<1> USE DEF CallsIInv
<1> SUFFICES ASSUME NEW a \in Rows, NEW b \in Rows, a # b, status'[a] # "none",
                    status'[b] # "none", IntentOf(a)' = IntentOf(b)',
                    KindOf[IntentOf(a)'] \in {"method", "wizard"}, Traffic(a)' > 0
             PROVE  Traffic(b)' = 0
  BY DEF MethodSentOnce, Traffic
<1>1. \A c \in Rows : Traffic(c) \in Nat /\ Traffic(c)' \in Nat
  BY OdooStep DEF WellFormed, TypeOK, Traffic, OdooOK
<1>2. \A c \in Rows : status[c] = "none" => Traffic(c)' = 0
  BY OdooStep DEF Traffic
<1>3. CASE status[b] = "none"
  BY <1>2, <1>3
<1>4. CASE status[b] # "none"
  <2>1. status[a] # "none"
    BY <1>2
  <2>2. key'[a] = key[a] /\ key'[b] = key[b]
    BY <1>4, <2>1, UsesLedger, KeyStays DEF WellFormed, TypeOK
  <2>3. IntentOf(a) = IntentOf(b) /\ KindOf[IntentOf(a)] \in {"method", "wizard"}
    BY <2>2 DEF IntentOf
  <2>4. Traffic(a) > 0 => Traffic(b) = 0
    BY <1>4, <2>1, <2>3 DEF MethodSentOnce, Traffic
  <2>5. ASSUME NEW w \in Workers, NEW c \in Rows, Dispatch(w), cur[w] = c, c \in {a, b}
        PROVE  \A d \in {a, b} : d # c => Traffic(d) = 0
    <3>1. pc[w] = "marked" /\ FirstOfIntent(w)
      BY <2>5 DEF Dispatch, CallsInv, Procs
    <3> QED
      BY <1>4, <2>1, <2>3, <2>5, <3>1 DEF FirstOfIntent
  <2>6. Traffic(b) = 0
    BY <1>1, <2>4, <2>5, OnlyDispatchAdds DEF WellFormed
  <2>7. CASE Traffic(b)' <= Traffic(b)
    BY <1>1, <2>6, <2>7
  <2>8. ASSUME NEW w \in Workers, Dispatch(w), cur[w] = b
        PROVE  FALSE
    <3>1. Traffic(a) = 0
      BY <2>5, <2>8
    <3>2. Traffic(a)' = Traffic(a)
      BY <2>8 DEF Dispatch, Traffic, WellFormed, TypeOK
    <3> QED
      BY <3>1, <3>2
  <2> QED
    BY <2>7, <2>8, OnlyDispatchAdds
<1> QED
  BY <1>3, <1>4

\* A method or a wizard that reached Odoo is not sent again for the same intent,
\* whatever has become of the record, the row and the process since.
THEOREM MethodOnce == ~Orphans => (Spec => []MethodSentOnce)
<1> SUFFICES ASSUME ~Orphans
             PROVE  Spec => []MethodSentOnce
  OBVIOUS
<1>1. Init => MethodSentOnce
  BY DEF Init, MethodSentOnce
<1> QED
  BY <1>1, CallsInvariant, MethodStep, PTL DEF Spec

\* Only finish() moves a row whose outcome is unknown, and never to a failure.
LEMMA UncertainStep ==
  ASSUME CallsIInv, [Next]_vars, NEW a \in Rows, status[a] = "needs_reconciliation"
  PROVE  status'[a] \in {"needs_reconciliation", "verified"}
<1> USE DEF CallsIInv, WellFormed, TypeOK, StoreTypeOK
<1>1. UNCHANGED store => status'[a] = status[a]
  BY DEF store
<1>2. ASSUME NEW p \in Procs, Close(p)
      PROVE  status'[a] \in {status[a], "verified"}
  <2>1. /\ status' = [status EXCEPT ![cur[p]] = verdict[p].status]
        /\ verdict[p].status \in Terminal /\ pc[p] = "closing"
    BY <1>2 DEF Close, Finish
  <2>2. cur[p] = a => verdict[p].status # "known_failed"
    BY <2>1 DEF CallsInv, VerdictFits, Waiting
  <2> QED
    BY <2>1, <2>2 DEF Terminal
<1>3. ASSUME NEW b \in Rows, NEW k \in Keys, NEW r \in Resources,
             NEW src \in DOMAIN GrantOf, Register(b, k, r, src)
      PROVE  status'[a] = status[a]
  BY <1>3 DEF Register, ReuseRow, InsertRow, IsNext, AfterExpiry, Waiting
<1>4. ASSUME NEW w \in Workers, NEW i \in Intents, Validate(w, i) \/ Invoke(w, i)
      PROVE  status'[a] = status[a]
  BY <1>3, <1>4, RegisterArguments DEF Validate, Invoke
<1>5. ASSUME NEW p \in Procs, Advance(p), ~Close(p)
      PROVE  status'[a] = status[a]
  <2>1. UNCHANGED store \/ ClaimRow(p) \/ MarkRow(p)
    BY <1>5 DEF Advance, Readback, Refuse, CheckPrestate, FindSatisfied, FindUnsatisfied,
       PrepareFails, Dispatch, ReplySuccess, ReplyRejected, ReplyLost, ReadAfterSend
  <2>2. CASE ClaimRow(p)
    BY <2>2 DEF ClaimRow, Claim, ClaimOutcome, Waiting
  <2>3. CASE MarkRow(p)
    <3>1. UNCHANGED store \/ (status[cur[p]] = "executing"
                               /\ status' = [status EXCEPT ![cur[p]] = "sending"])
      BY <2>3 DEF MarkRow, MarkSending
    <3> QED
      BY <1>1, <3>1
  <2> QED
    BY <1>1, <2>1, <2>2, <2>3
<1>6. ASSUME NEW w \in Workers, Start(w)
      PROVE  status'[a] = status[a]
  BY <1>6 DEF Start, RecoverInterrupted
<1>7. ASSUME NEW b \in Rows, HostApproves(b) \/ ApprovalLapses(b)
      PROVE  status'[a] = status[a]
  BY <1>7 DEF HostApproves, Approve, ApprovalLapses, Lapse, Waiting
<1>8. CASE \/ \E p \in Procs : Crash(p)
           \/ \E w \in Workers, i \in Intents : Recall(w, i)
           \/ \E w \in Workers, b \in Rows : Execute(w, b)
           \/ \E b \in Rows : HostReconciles(b) \/ HostAbandons(b)
           \/ \E b \in Rows : OdooCommits(b) \/ RequestLost(b)
           \/ \E r \in Resources, v \in Values : OtherEdit(r, v)
           \/ UNCHANGED vars
  BY <1>1, <1>8 DEF Crash, Recall, Execute, HostReconciles, HostAbandons, OdooCommits,
     RequestLost, OtherEdit, vars
<1> QED
  BY <1>2, <1>4, <1>5, <1>6, <1>7, <1>8 DEF Next, Environment

\* Once its outcome is unknown an action is settled by a readback that shows the
\* effect, and by nothing else (store.py:8: "can only be reconciled").
THEOREM UncertainStays == ~Orphans => (Spec => UncertainOnlyReadBack)
<1> SUFFICES ASSUME ~Orphans
             PROVE  Spec => UncertainOnlyReadBack
  OBVIOUS
<1>1. ASSUME CallsIInv, [Next]_vars
      PROVE  [\A a \in Rows : status[a] = "needs_reconciliation"
                => status'[a] \in {"needs_reconciliation", "verified"}]_vars
  BY <1>1, UncertainStep
<1> QED
  BY <1>1, CallsInvariant, PTL DEF Spec, UncertainOnlyReadBack
=============================================================================
