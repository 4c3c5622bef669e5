----------------------------- MODULE ActionStore -----------------------------
(***************************************************************************)
(* The durable action ledger of src/src/erp_harness/erp/store.py: one      *)
(* SQLite table whose rows are the writes a model proposed.  Every method  *)
(* of the class runs in one BEGIN IMMEDIATE transaction, so each is one    *)
(* atomic step here.  Spec is the most general client of the table: any    *)
(* number of processes, calling any method in any order.                   *)
(*                                                                         *)
(* Abstractions.  A row is a number in creation order (action_id and       *)
(* created_at); an action_key and a resource_key are members of a set      *)
(* (the digests are taken to be collision free); expires_at < now is the   *)
(* flag "lapsed"; sent_at IS NOT NULL is the flag "sent"; the stored       *)
(* result is only known to be there or not.                                *)
(***************************************************************************)
EXTENDS Naturals, FiniteSets

CONSTANTS
  MaxRows,     \* bound: how many rows the table may hold
  Keys,        \* the values of action_key
  Resources,   \* the values of resource_key
  NoKey,       \* the key of a row not yet inserted
  NoResource   \* the resource of a row not yet inserted

ASSUME StoreAssumption ==
  /\ MaxRows \in Nat
  /\ NoKey \notin Keys
  /\ NoResource \notin Resources

Rows == 1 .. MaxRows

VARIABLES
  status,      \* the status column, "none" before the row is inserted
  key,         \* action_key
  resource,    \* resource_key
  source,      \* approval_source
  lapsed,      \* expires_at < now
  sent,        \* sent_at IS NOT NULL
  hasResult    \* result IS NOT NULL

store == <<status, key, resource, source, lapsed, sent, hasResult>>

Blocking == {"executing", "sending", "needs_reconciliation"}
Reusable == {"pending_approval", "approved", "executing", "sending",
             "needs_reconciliation", "verified"}
Terminal == {"verified", "known_failed", "needs_reconciliation"}
Waiting  == {"pending_approval", "approved"}
Statuses == {"none", "expired"} \cup Reusable \cup Terminal

\* The sources register() is called with, and whether each is a grant.
GrantOf == [trusted_host_required |-> FALSE, bench_auto_disposable |-> TRUE]
\* The names approve() refuses: a model cannot authorise its own action.
SelfSources == {"model", "agent", "confirm"}
\* Sources that stand for somebody entitled to authorise.
Authorities == {"desktop_host", "bench_auto_disposable"}
Sources == {"nobody", "desktop_host"} \cup SelfSources \cup DOMAIN GrantOf

-----------------------------------------------------------------------------
StoreTypeOK ==
  /\ status \in [Rows -> Statuses]
  /\ key \in [Rows -> Keys \cup {NoKey}]
  /\ resource \in [Rows -> Resources \cup {NoResource}]
  /\ source \in [Rows -> Sources]
  /\ lapsed \in [Rows -> BOOLEAN]
  /\ sent \in [Rows -> BOOLEAN]
  /\ hasResult \in [Rows -> BOOLEAN]

StoreInit ==
  /\ status = [a \in Rows |-> "none"]
  /\ key = [a \in Rows |-> NoKey]
  /\ resource = [a \in Rows |-> NoResource]
  /\ source = [a \in Rows |-> "nobody"]
  /\ lapsed = [a \in Rows |-> FALSE]
  /\ sent = [a \in Rows |-> FALSE]
  /\ hasResult = [a \in Rows |-> FALSE]

Registered == {a \in Rows : status[a] # "none"}
IsNewest(a, S) == a \in S /\ \A b \in S : b <= a
IsNext(a) == status[a] = "none" /\ \A b \in Rows : b < a => status[b] # "none"

\* The clock passes expires_at of a row.
Lapse(a) ==
  /\ status[a] # "none" /\ ~lapsed[a]
  /\ lapsed' = [lapsed EXCEPT ![a] = TRUE]
  /\ UNCHANGED <<status, key, resource, source, sent, hasResult>>

\* register(): overdue rows that still wait are expired first, in the same
\* transaction; then a row with the same key is reused or a new one inserted.
AfterExpiry ==
  [a \in Rows |-> IF status[a] \in Waiting /\ lapsed[a] THEN "expired" ELSE status[a]]

\* Mutation: the lookup forgets actions whose outcome is unknown.
ReusableRowsForgetUncertain(k) ==
  {a \in Rows : key[a] = k /\ AfterExpiry[a] \in Reusable \ {"needs_reconciliation"}}

ReusableRows(k) == {a \in Rows : key[a] = k /\ AfterExpiry[a] \in Reusable}

ReuseRow(a, k) ==
  /\ IsNewest(a, ReusableRows(k))
  /\ status' = AfterExpiry
  /\ UNCHANGED <<key, resource, source, lapsed, sent, hasResult>>

InsertRow(a, k, r, src) ==
  /\ ReusableRows(k) = {}
  /\ IsNext(a)
  /\ status' = [AfterExpiry EXCEPT
                  ![a] = IF GrantOf[src] THEN "approved" ELSE "pending_approval"]
  /\ key' = [key EXCEPT ![a] = k]
  /\ resource' = [resource EXCEPT ![a] = r]
  /\ source' = [source EXCEPT ![a] = src]
  /\ UNCHANGED <<lapsed, sent, hasResult>>

\* register() returns row a.
Register(a, k, r, src) == ReuseRow(a, k) \/ InsertRow(a, k, r, src)

\* Mutation: a source naming the model itself is accepted.
ApproveAnySource(a, src) ==
  /\ status[a] = "pending_approval"
  /\ ~lapsed[a]
  /\ status' = [status EXCEPT ![a] = "approved"]
  /\ source' = [source EXCEPT ![a] = src]
  /\ UNCHANGED <<key, resource, lapsed, sent, hasResult>>

\* approve(): a pending, unexpired row, and never on the word of the model.
Approve(a, src) ==
  /\ src \notin SelfSources
  /\ status[a] = "pending_approval"
  /\ ~lapsed[a]
  /\ status' = [status EXCEPT ![a] = "approved"]
  /\ source' = [source EXCEPT ![a] = src]
  /\ UNCHANGED <<key, resource, lapsed, sent, hasResult>>

\* Mutation: an action already on the wire no longer blocks its resource.
BusyIgnoresSending(a) ==
  \E b \in Rows \ {a} : resource[b] = resource[a] /\ status[b] \in Blocking \ {"sending"}

\* Another unresolved action holds the resource of row a.
Busy(a) == \E b \in Rows \ {a} : resource[b] = resource[a] /\ status[b] \in Blocking

\* claim(): what it decides, and its effect.
ClaimOutcome(a) ==
  IF status[a] \in Waiting /\ lapsed[a] THEN "expired"
  ELSE IF status[a] # "approved" THEN "refused"
  ELSE IF Busy(a) THEN "resource_busy"
  ELSE "executing"

\* Mutation: a refusal is written to the row too.
ClaimWritesRefusal(a) ==
  /\ status[a] # "none"
  /\ status' = [status EXCEPT ![a] = ClaimOutcome(a)]
  /\ UNCHANGED <<key, resource, source, lapsed, sent, hasResult>>

Claim(a) ==
  /\ status[a] # "none"
  /\ status' = [status EXCEPT ![a] =
                  IF ClaimOutcome(a) \in {"expired", "executing"} THEN ClaimOutcome(a) ELSE @]
  /\ UNCHANGED <<key, resource, source, lapsed, sent, hasResult>>

\* Mutation: the marker is written without comparing.
MarkSendingUnchecked(a) ==
  /\ status[a] # "none"
  /\ status' = [status EXCEPT ![a] = "sending"]
  /\ sent' = [sent EXCEPT ![a] = TRUE]
  /\ UNCHANGED <<key, resource, source, lapsed, hasResult>>

\* mark_sending(): compare-and-set, committed before Odoo is called.
MarkSending(a) ==
  /\ status[a] = "executing"
  /\ status' = [status EXCEPT ![a] = "sending"]
  /\ sent' = [sent EXCEPT ![a] = TRUE]
  /\ UNCHANGED <<key, resource, source, lapsed, hasResult>>

\* finish(): writes a terminal status whatever the row holds.
Finish(a, s, result) ==
  /\ s \in Terminal
  /\ status[a] # "none"
  /\ status' = [status EXCEPT ![a] = s]
  /\ hasResult' = [hasResult EXCEPT ![a] = result]
  /\ UNCHANGED <<key, resource, source, lapsed, sent>>

\* Mutation: recovery re-arms an action whose request may have left.
RecoverInterruptedRearms ==
  /\ status' = [a \in Rows |->
                  IF status[a] \in {"executing", "sending"}
                    THEN IF lapsed[a] THEN "expired" ELSE "approved"
                    ELSE status[a]]
  /\ UNCHANGED <<key, resource, source, lapsed, sent, hasResult>>

\* recover_interrupted(): a claim alone is safe, a sending marker is not.
RecoverInterrupted ==
  /\ status' = [a \in Rows |->
                  CASE status[a] = "executing" -> IF lapsed[a] THEN "expired" ELSE "approved"
                    [] status[a] = "sending" -> "needs_reconciliation"
                    [] OTHER -> status[a]]
  /\ UNCHANGED <<key, resource, source, lapsed, sent, hasResult>>

-----------------------------------------------------------------------------
StoreNext ==
  \/ \E a \in Rows, k \in Keys, r \in Resources, src \in DOMAIN GrantOf :
        Register(a, k, r, src)
  \/ \E a \in Rows, src \in {"desktop_host"} \cup SelfSources : Approve(a, src)
  \/ \E a \in Rows : Lapse(a) \/ Claim(a) \/ MarkSending(a)
  \/ \E a \in Rows, s \in Terminal, result \in BOOLEAN : Finish(a, s, result)
  \/ RecoverInterrupted

StoreSpec == StoreInit /\ [][StoreNext]_store

-----------------------------------------------------------------------------
(* What every client can rely on.                                          *)

\* store.py:8: a row whose sending marker was ever committed is never again in
\* a state from which it could be claimed: not after a crash and recovery, not
\* after an expiry, not after a second registration of the same intent.
SentNeverRearmed ==
  \A a \in Rows : sent[a] => status[a] \in {"sending"} \cup Terminal

\* store.py:242-269: of two actions on one resource at most one is claimed or
\* on the wire, however the claims of different processes interleave.
InFlightExclusive ==
  \A a, b \in Rows :
    /\ a # b /\ resource[a] = resource[b]
    /\ status[a] \in {"executing", "sending"}
    => status[b] \notin {"executing", "sending"}

\* store.py:215-229: whatever may be sent, or ever was, carries the approval
\* of a trusted authority; a model, an agent or a confirm flag is none.
SendIsAuthorised ==
  \A a \in Rows :
    sent[a] \/ status[a] \in {"approved", "executing", "sending"} => source[a] \in Authorities

\* The phase of a row in the contract the ledger is to keep.
PhaseIn(s, wasSent) ==
  CASE s = "none" -> "absent"
    [] s = "pending_approval" -> "proposed"
    [] s \in {"approved", "executing"} -> "granted"
    [] OTHER -> IF wasSent THEN "dispatched" ELSE "retired"

Phase(a) == PhaseIn(status[a], sent[a])

Contract == INSTANCE ActionContract WITH phase <- [a \in Rows |-> Phase(a)]

\* store.py:5-11: the ledger implements ActionContract.  What was dispatched or
\* retired is so for good, and nothing is dispatched that was not granted.
KeepsContract == Contract!Spec
=============================================================================
