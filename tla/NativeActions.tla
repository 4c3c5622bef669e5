---------------------------- MODULE NativeActions ----------------------------
(***************************************************************************)
(* The execution of ledger actions against Odoo: class NativeActions of    *)
(* src/src/erp_harness/erp/actions.py, run by worker processes, and the    *)
(* trusted host's entries into the same ledger.  A tool call is split      *)
(* where another process or Odoo can act between two of its steps: each    *)
(* Odoo request and each ledger transaction is one step, and the row a     *)
(* call reads at its start stays a snapshot until the call ends.           *)
(*                                                                         *)
(* The branch for invoice mail is left out.                                *)
(* Refusals that change no state (identity, policy, token, confirm, write  *)
(* switch, task stage) are one action, Refuse.                             *)
(***************************************************************************)
EXTENDS ActionStore

CONSTANTS
  Workers,   \* worker processes that may ever be started on this ledger
  Host,      \* the desktop host, as a caller of this module
  Intents,   \* what a model may propose: kind, target and values
  KindOf,    \* the kind of each intent, a member of Kinds
  SiteOf,    \* the resource an intent works on
  Other,     \* a state of an Odoo record that satisfies no intent
  Grant,     \* the approval mode: a member of DOMAIN GrantOf
  Orphans,   \* TRUE: a worker may outlive the host that started it
  NoRow      \* the row of a process between two calls

\* A write and a create name their action by id, a chatter message too.  The
\* others are business methods, executed by calling them again: "method" has a
\* known final state (_KNOWN_METHOD_STATES), "wizard" is consumed by its first
\* use (ONE_SHOT_METHODS), "business" is any other reviewed method.
ById == {"write", "create", "chatter"}
Kinds == ById \cup {"method", "wizard", "business"}

ASSUME ActionAssumption ==
  /\ KindOf \in [Intents -> Kinds]
  /\ SiteOf \in [Intents -> Resources]
  /\ Other \notin Intents
  /\ Keys = Intents \X (Intents \cup {Other})
  /\ Host \notin Workers
  /\ Grant \in DOMAIN GrantOf
  /\ Orphans \in BOOLEAN
  /\ NoRow \notin Rows

Procs == Workers \cup {Host}
Values == Intents \cup {Other}

VARIABLES
  record,     \* Odoo: the state of each record, the last intent that wrote it
  inflight,   \* Odoo: dispatches of a row still on the network
  effects,    \* Odoo: how often a row's write was committed
  pc,         \* where each process is in a call
  cur,        \* the row of the call
  snapResult, \* row["result"], as read at the start of the call
  verdict     \* what the call is about to write with finish()

odoo  == <<record, inflight, effects>>
local == <<pc, cur, snapResult, verdict>>
vars  == <<store, odoo, local>>

Phases == {"dead", "idle", "fetched", "fresh", "unclaimed", "claimed", "marked",
           "waiting", "replied", "reconciling", "closing"}
Verdicts == [status : Terminal, result : BOOLEAN]
NoVerdict == [status |-> "needs_reconciliation", result |-> FALSE]

TypeOK ==
  /\ StoreTypeOK
  /\ record \in [Resources -> Values]
  /\ inflight \in [Rows -> Nat]
  /\ effects \in [Rows -> Nat]
  /\ pc \in [Procs -> Phases]
  /\ cur \in [Procs -> Rows \cup {NoRow}]
  /\ snapResult \in [Procs -> BOOLEAN]
  /\ verdict \in [Procs -> Verdicts]

Init ==
  /\ StoreInit
  /\ record = [r \in Resources |-> Other]
  /\ inflight = [a \in Rows |-> 0]
  /\ effects = [a \in Rows |-> 0]
  /\ pc = [p \in Procs |-> IF p = Host THEN "idle" ELSE "dead"]
  /\ cur = [p \in Procs |-> NoRow]
  /\ snapResult = [p \in Procs |-> FALSE]
  /\ verdict = [p \in Procs |-> NoVerdict]

-----------------------------------------------------------------------------
(* Odoo as a call sees it.                                                 *)

IntentOf(a) == key[a][1]

\* _prestate(): a create has no record yet, the others read what they change.
Prestate(i) == IF KindOf[i] = "create" THEN Other ELSE record[SiteOf[i]]
KeyNow(i) == <<i, Prestate(i)>>

\* What a row's new objects look like: they stay found after later edits.
Appeared(a) == effects[a] > 0 \/ record[SiteOf[IntentOf(a)]] = IntentOf(a)

\* Mutation: the create is taken to have happened without a stored id.
ReadbacksTrusting(a, result) ==
  CASE KindOf[IntentOf(a)] = "create" -> {FALSE, TRUE}
    [] KindOf[IntentOf(a)] \in {"chatter", "wizard"} -> {FALSE, Appeared(a)}
    [] OTHER -> {record[SiteOf[IntentOf(a)]] = IntentOf(a)}

\* _verify(): what it may answer.  A create can only be looked up by the ids
\* of its stored result; a message or a wizard's product is searched among
\* what was added since the prestate; otherwise the record is compared.
Readbacks(a, result) ==
  CASE KindOf[IntentOf(a)] = "create" -> {FALSE, result}
    [] KindOf[IntentOf(a)] \in {"chatter", "wizard"} -> {FALSE, Appeared(a)}
    [] OTHER -> {record[SiteOf[IntentOf(a)]] = IntentOf(a)}

\* Mutation: a verified dispatch is not found again.
SentRowsForgetVerified(i) ==
  {a \in Rows : status[a] \in {"sending", "needs_reconciliation"} /\ IntentOf(a) = i}

\* find_sent(): a dispatched row of the same intent, whatever its prestate.
SentRows(i) ==
  {a \in Rows : /\ status[a] \in {"sending", "needs_reconciliation", "verified"}
                /\ IntentOf(a) = i}

Goto(p, phase) == pc' = [pc EXCEPT ![p] = phase]

\* The call returns to its caller: nothing of it is left.
Return(p) ==
  /\ Goto(p, "idle")
  /\ cur' = [cur EXCEPT ![p] = NoRow]
  /\ snapResult' = [snapResult EXCEPT ![p] = FALSE]
  /\ verdict' = [verdict EXCEPT ![p] = NoVerdict]

\* The call is about to finish() its row with the given status and result.
Conclude(p, s, result) ==
  /\ Goto(p, "closing")
  /\ verdict' = [verdict EXCEPT ![p] = [status |-> s, result |-> result]]
  /\ UNCHANGED <<cur, snapResult>>

\* Starting _execute_row or _reconcile on row a, as read in this step.
Enter(p, a, phase) ==
  /\ Goto(p, phase)
  /\ cur' = [cur EXCEPT ![p] = a]
  /\ snapResult' = [snapResult EXCEPT ![p] = hasResult'[a]]
  /\ UNCHANGED verdict

AllDead == \A w \in Workers : pc[w] = "dead"

-----------------------------------------------------------------------------
(* Worker processes.                                                       *)

\* runner.run(): a worker recovers the ledger before its first tool call.  The
\* host starts one when no other is known to it.
Start(w) ==
  /\ pc[w] = "dead"
  /\ pc[Host] = "idle"
  /\ Orphans \/ AllDead
  /\ RecoverInterrupted
  /\ Goto(w, "idle")
  /\ UNCHANGED <<odoo, cur, snapResult, verdict>>

\* A process is killed, cancelled or lost between any two steps; what it has
\* committed to the ledger or sent to Odoo stays.
Crash(p) ==
  /\ pc[p] \notin {"dead", "idle"} \/ (p \in Workers /\ pc[p] = "idle")
  /\ Goto(p, IF p = Host THEN "idle" ELSE "dead")
  /\ cur' = [cur EXCEPT ![p] = NoRow]
  /\ snapResult' = [snapResult EXCEPT ![p] = FALSE]
  /\ verdict' = [verdict EXCEPT ![p] = NoVerdict]
  /\ UNCHANGED <<store, odoo>>

\* validate_write(), or chatter_post() without approval: registers only.
Validate(w, i) ==
  /\ pc[w] = "idle"
  /\ KindOf[i] \in ById
  /\ \E a \in Rows : Register(a, KeyNow(i), SiteOf[i], Grant)
  /\ UNCHANGED <<odoo, local>>

\* _execute_row(), as entered: a verified row is replayed, an uncertain one is
\* only read back.
EnterRow(p, a) ==
  IF status'[a] = "verified" THEN UNCHANGED local
  ELSE Enter(p, a, IF status'[a] \in {"sending", "needs_reconciliation"}
                   THEN "reconciling" ELSE "fetched")

\* execute_approved_write(), or chatter_post() with approval, of a row the
\* model names.
Execute(w, a) ==
  /\ pc[w] = "idle"
  /\ status[a] # "none"
  /\ KindOf[IntentOf(a)] \in ById
  /\ UNCHANGED <<store, odoo>>
  /\ EnterRow(w, a)

\* execute_method() of an intent already sent in this run: a known final state
\* is read again even when it was verified, a consumed wizard is replayed.
Recall(w, i) ==
  /\ pc[w] = "idle"
  /\ KindOf[i] \in {"method", "wizard"}
  /\ UNCHANGED <<store, odoo>>
  /\ \E a \in Rows :
       /\ IsNewest(a, SentRows(i))
       /\ IF KindOf[i] = "method" THEN Enter(w, a, "reconciling") ELSE EnterRow(w, a)

\* execute_method() otherwise: registered and, once approved, executed in the
\* same call.
Invoke(w, i) ==
  /\ pc[w] = "idle"
  /\ KindOf[i] \notin ById
  /\ KindOf[i] \in {"method", "wizard"} => SentRows(i) = {}
  /\ UNCHANGED odoo
  /\ \E a \in Rows :
       /\ Register(a, KeyNow(i), SiteOf[i], Grant)
       /\ IF status'[a] = "pending_approval" THEN UNCHANGED local ELSE EnterRow(w, a)

\* A guard refuses, or a read it needs fails, before anything is claimed.
Refuse(w) ==
  /\ pc[w] \in {"fetched", "fresh"}
  /\ Return(w)
  /\ UNCHANGED <<store, odoo>>

\* The state the action was validated against must still be there.
CheckPrestate(w) ==
  /\ pc[w] = "fetched"
  /\ Prestate(IntentOf(cur[w])) = key[cur[w]][2]
  /\ Goto(w, "fresh")
  /\ UNCHANGED <<store, odoo, cur, snapResult, verdict>>

\* Somebody else has already done it: the row is closed without a claim.
FindSatisfied(w) ==
  /\ pc[w] = "fresh"
  /\ TRUE \in Readbacks(cur[w], FALSE)
  /\ Conclude(w, "verified", TRUE)
  /\ UNCHANGED <<store, odoo>>

FindUnsatisfied(w) ==
  /\ pc[w] = "fresh"
  /\ FALSE \in Readbacks(cur[w], FALSE)
  /\ Goto(w, "unclaimed")
  /\ UNCHANGED <<store, odoo, cur, snapResult, verdict>>

\* Mutation: a call whose claim is refused tries again instead of returning.
ClaimRowSpins(w) ==
  /\ pc[w] = "unclaimed"
  /\ Claim(cur[w])
  /\ ClaimOutcome(cur[w]) = "executing"
  /\ Goto(w, "claimed") /\ UNCHANGED <<cur, snapResult, verdict>>
  /\ UNCHANGED odoo

ClaimRow(w) ==
  /\ pc[w] = "unclaimed"
  /\ Claim(cur[w])
  /\ IF ClaimOutcome(cur[w]) = "executing"
     THEN Goto(w, "claimed") /\ UNCHANGED <<cur, snapResult, verdict>>
     ELSE Return(w)
  /\ UNCHANGED odoo

\* prepare() reads the files of a write; failing, it cannot have reached Odoo.
PrepareFails(w) ==
  /\ pc[w] = "claimed"
  /\ KindOf[IntentOf(cur[w])] \in ById \ {"chatter"}
  /\ Conclude(w, "known_failed", FALSE)
  /\ UNCHANGED <<store, odoo>>

\* The durable marker comes before the request; without it there is none.
MarkRow(w) ==
  /\ pc[w] = "claimed"
  /\ IF status[cur[w]] = "executing"
     THEN /\ MarkSending(cur[w])
          /\ Goto(w, "marked") /\ UNCHANGED <<cur, snapResult, verdict>>
     ELSE Return(w) /\ UNCHANGED store
  /\ UNCHANGED odoo

\* _send(): the only path to Odoo.
Dispatch(w) ==
  /\ pc[w] = "marked"
  /\ inflight' = [inflight EXCEPT ![cur[w]] = @ + 1]
  /\ Goto(w, "waiting")
  /\ UNCHANGED <<store, record, effects, cur, snapResult, verdict>>

ReplySuccess(w) ==
  /\ pc[w] = "waiting"
  /\ effects[cur[w]] > 0
  /\ Goto(w, "replied")
  /\ UNCHANGED <<store, odoo, cur, snapResult, verdict>>

\* Odoo answers with a structured error: its transaction was rolled back.
ReplyRejected(w) ==
  /\ pc[w] = "waiting"
  /\ inflight[cur[w]] > 0
  /\ inflight' = [inflight EXCEPT ![cur[w]] = @ - 1]
  /\ Conclude(w, "known_failed", FALSE)
  /\ UNCHANGED <<store, record, effects>>

\* Mutation: a lost connection is taken for a rejection.
ReplyLostIsRejection(w) ==
  /\ pc[w] = "waiting"
  /\ Conclude(w, "known_failed", FALSE)
  /\ UNCHANGED <<store, odoo>>

\* A transport error, a timeout or a cancellation: the outcome is unknown.
ReplyLost(w) ==
  /\ pc[w] = "waiting"
  /\ Conclude(w, "needs_reconciliation", FALSE)
  /\ UNCHANGED <<store, odoo>>

\* The readback after a send; one that fails proves nothing.
ReadAfterSend(w) ==
  /\ pc[w] = "replied"
  /\ \E satisfied \in {FALSE} \cup Readbacks(cur[w], TRUE) :
       Conclude(w, IF satisfied THEN "verified" ELSE "needs_reconciliation", TRUE)
  /\ UNCHANGED <<store, odoo>>

\* _reconcile(): the same for a row found uncertain, by a worker or the host.
Readback(p) ==
  /\ pc[p] = "reconciling"
  /\ \E satisfied \in {FALSE} \cup Readbacks(cur[p], snapResult[p]) :
       Conclude(p, IF satisfied THEN "verified" ELSE "needs_reconciliation", snapResult[p])
  /\ UNCHANGED <<store, odoo>>

\* finish() writes the conclusion, whatever the row has become meanwhile.
Close(p) ==
  /\ pc[p] = "closing"
  /\ Finish(cur[p], verdict[p].status, verdict[p].result)
  /\ Return(p)
  /\ UNCHANGED odoo

-----------------------------------------------------------------------------
(* The host, with no worker of its own running.                            *)

HostMayAct == pc[Host] = "idle" /\ (Orphans \/ AllDead)

\* decide_approval(): store.approve on behalf of the user.
HostApproves(a) ==
  /\ HostMayAct
  /\ Approve(a, "desktop_host")
  /\ UNCHANGED <<odoo, local>>

\* NativeActions.reconcile(), from reconcile_action().
HostReconciles(a) ==
  /\ HostMayAct
  /\ status[a] \in {"sending", "needs_reconciliation"}
  /\ UNCHANGED <<store, odoo>>
  /\ Enter(Host, a, "reconciling")

\* Mutation: the status of the row is not looked at.
HostAbandonsAny(a) ==
  /\ HostMayAct
  /\ status[a] \notin {"none", "verified"}
  /\ UNCHANGED <<store, odoo>>
  /\ Goto(Host, "closing")
  /\ cur' = [cur EXCEPT ![Host] = a]
  /\ verdict' = [verdict EXCEPT ![Host] = [status |-> "known_failed", result |-> FALSE]]
  /\ UNCHANGED snapResult

\* _terminalize_action() of a row that still waits: get() now, finish() later.
HostAbandons(a) ==
  /\ HostMayAct
  /\ status[a] \in Waiting
  /\ UNCHANGED <<store, odoo>>
  /\ Goto(Host, "closing")
  /\ cur' = [cur EXCEPT ![Host] = a]
  /\ verdict' = [verdict EXCEPT ![Host] = [status |-> "known_failed", result |-> FALSE]]
  /\ UNCHANGED snapResult

-----------------------------------------------------------------------------
(* Odoo, the network and the clock.                                        *)

OdooCommits(a) ==
  /\ inflight[a] > 0
  /\ inflight' = [inflight EXCEPT ![a] = @ - 1]
  /\ effects' = [effects EXCEPT ![a] = @ + 1]
  /\ record' = IF KindOf[IntentOf(a)] = "create" THEN record
               ELSE [record EXCEPT ![resource[a]] = IntentOf(a)]
  /\ UNCHANGED <<store, local>>

\* The request never arrives, or is rejected when nobody waits any more.
RequestLost(a) ==
  /\ inflight[a] > 0
  /\ inflight' = [inflight EXCEPT ![a] = @ - 1]
  /\ UNCHANGED <<store, record, effects, local>>

\* Another user of Odoo edits the record, to any state an intent aims at too.
OtherEdit(r, v) ==
  /\ record[r] # v
  /\ record' = [record EXCEPT ![r] = v]
  /\ UNCHANGED <<store, inflight, effects, local>>

ApprovalLapses(a) == Lapse(a) /\ UNCHANGED <<odoo, local>>

-----------------------------------------------------------------------------
Advance(p) ==
  \/ Readback(p) \/ Close(p)
  \/ /\ p \in Workers
     /\ \/ Refuse(p) \/ CheckPrestate(p) \/ FindSatisfied(p) \/ FindUnsatisfied(p)
        \/ ClaimRow(p) \/ PrepareFails(p) \/ MarkRow(p) \/ Dispatch(p)
        \/ ReplySuccess(p) \/ ReplyRejected(p) \/ ReplyLost(p) \/ ReadAfterSend(p)

Environment ==
  \/ \E a \in Rows : OdooCommits(a) \/ RequestLost(a) \/ ApprovalLapses(a)
  \/ \E r \in Resources, v \in Values : OtherEdit(r, v)

Next ==
  \/ \E w \in Workers : Start(w)
  \/ \E p \in Procs : Crash(p) \/ Advance(p)
  \/ \E w \in Workers, i \in Intents : Validate(w, i) \/ Recall(w, i) \/ Invoke(w, i)
  \/ \E w \in Workers, a \in Rows : Execute(w, a)
  \/ \E a \in Rows : HostApproves(a) \/ HostReconciles(a) \/ HostAbandons(a)
  \/ Environment

Spec == Init /\ [][Next]_vars

\* A live process goes on with its call: Odoo requests end by reply or timeout.
FairSpec == Spec /\ \A p \in Procs : WF_vars(Advance(p))

-----------------------------------------------------------------------------
(* Properties.                                                             *)

\* One trusted approval buys at most one effect in Odoo, and nothing buys none:
\* over crashes, recoveries, repeated calls and lost replies
\* (actions.py:1337-1359, store.py:104-124).
OneEffectPerApproval ==
  \A a \in Rows :
    inflight[a] + effects[a] <= IF source[a] \in Authorities THEN 1 ELSE 0

\* An action reported as known to have failed, which the model is told it may
\* retry (actions.py:1349-1359), has had no effect and will have none.
FailedHasNoEffect ==
  \A a \in Rows : status[a] = "known_failed" => inflight[a] + effects[a] = 0

\* The same intent against the same prestate reaches Odoo at most once, however
\* often it is proposed, approved and executed (actions.py:512-530, store.py:154-162).
AppliedOncePerKey ==
  \A a, b \in Rows :
    /\ a # b /\ status[a] # "none" /\ key[a] = key[b]
    /\ inflight[a] + effects[a] > 0
    => inflight[b] + effects[b] = 0

\* A method with a final state, or a wizard, that reached Odoo is not sent again
\* for the same intent, not even when the prestate, and so the key of the
\* action, has changed since (actions.py:2015-2074).
MethodSentOnce ==
  \A a, b \in Rows :
    /\ a # b /\ status[a] # "none" /\ status[b] # "none"
    /\ IntentOf(a) = IntentOf(b) /\ KindOf[IntentOf(a)] \in {"method", "wizard"}
    /\ inflight[a] + effects[a] > 0
    => inflight[b] + effects[b] = 0

\* A create is only reported as verified when Odoo did create the record.
VerifiedCreateHappened ==
  \A a \in Rows :
    /\ status[a] = "verified" /\ KindOf[IntentOf(a)] = "create"
    => effects[a] > 0

\* Once its outcome is unknown an action is only ever settled by a readback
\* that shows the effect (store.py:8: "can only be reconciled").
UncertainOnlyReadBack ==
  [][\A a \in Rows : status[a] = "needs_reconciliation"
                    => status'[a] \in {"needs_reconciliation", "verified"}]_vars

\* A tool call comes back to the model, or its process dies.
CallReturns ==
  \A p \in Procs : pc[p] \notin {"dead", "idle"} ~> pc[p] \in {"dead", "idle"}
=============================================================================
