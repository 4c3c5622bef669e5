---------------------------- MODULE ActionContract ----------------------------
(***************************************************************************)
(* What the ledger promises whoever proposes, approves and executes        *)
(* writes (the comment at the head of                                      *)
(* src/src/erp_harness/erp/store.py): a proposal is granted by somebody    *)
(* entitled to, a granted action is dispatched to Odoo at most once, one   *)
(* dispatch at a time, and what was dispatched or retired stays so through *)
(* crashes, restarts and repeated calls.                                   *)
(***************************************************************************)
CONSTANT Rows

VARIABLE phase

Phases == {"absent", "proposed", "granted", "dispatched", "retired"}

\* How the phase of one row may change in one step.
Moves == [absent     |-> {"proposed", "granted"},
          proposed   |-> {"granted", "retired"},
          granted    |-> {"dispatched", "retired"},
          dispatched |-> {},
          retired    |-> {}]

Init == phase = [a \in Rows |-> "absent"]

Dispatched(a) == phase[a] # "dispatched" /\ phase'[a] = "dispatched"

\* Several overdue rows may retire while one row is proposed, but a step
\* dispatches one row at most.
Next ==
  /\ \A a \in Rows : phase'[a] = phase[a] \/ phase'[a] \in Moves[phase[a]]
  /\ \A a, b \in Rows : Dispatched(a) /\ Dispatched(b) => a = b

Spec == Init /\ [][Next]_phase
=============================================================================
