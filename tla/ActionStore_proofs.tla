-------------------------- MODULE ActionStore_proofs --------------------------
(***************************************************************************)
(* What the action ledger guarantees for any number of rows, keys and      *)
(* resources.  The type invariant comes first; SentNeverRearmed,           *)
(* InFlightExclusive and SendIsAuthorised are each inductive given it, and *)
(* together they show that the ledger implements ActionContract.           *)
(***************************************************************************)
EXTENDS ActionStore, TLAPS

\* The type of the ledger is kept by every method of ActionStore.
LEMMA StoreTypeStep == StoreTypeOK /\ [StoreNext]_store => StoreTypeOK'
<1> SUFFICES ASSUME StoreTypeOK, [StoreNext]_store PROVE StoreTypeOK'
  OBVIOUS
<1> USE DEF StoreTypeOK, Statuses, Reusable, Terminal, Waiting, Sources, SelfSources
<1>r. AfterExpiry \in [Rows -> Statuses]
  BY DEF AfterExpiry
<1>g. \A src \in DOMAIN GrantOf : src \in Sources
  BY DEF GrantOf
<1>1. ASSUME NEW a \in Rows, NEW k \in Keys, NEW r \in Resources,
             NEW src \in DOMAIN GrantOf, Register(a, k, r, src)
      PROVE  StoreTypeOK'
  <2>1. CASE ReuseRow(a, k)
    BY <2>1, <1>r DEF ReuseRow
  <2>2. CASE InsertRow(a, k, r, src)
    BY <2>2, <1>r, <1>g DEF InsertRow
  <2> QED BY <1>1, <2>1, <2>2 DEF Register
<1>2. ASSUME NEW a \in Rows, NEW src \in {"desktop_host"} \cup SelfSources, Approve(a, src)
      PROVE  StoreTypeOK'
  BY <1>2 DEF Approve
<1>3. ASSUME NEW a \in Rows, Lapse(a) PROVE StoreTypeOK'
  BY <1>3 DEF Lapse
<1>4. ASSUME NEW a \in Rows, Claim(a) PROVE StoreTypeOK'
  BY <1>4 DEF Claim
<1>5. ASSUME NEW a \in Rows, MarkSending(a) PROVE StoreTypeOK'
  BY <1>5 DEF MarkSending
<1>6. ASSUME NEW a \in Rows, NEW s \in Terminal, NEW result \in BOOLEAN, Finish(a, s, result)
      PROVE  StoreTypeOK'
  BY <1>6 DEF Finish
<1>7. ASSUME RecoverInterrupted PROVE StoreTypeOK'
  BY <1>7 DEF RecoverInterrupted
<1>8. CASE UNCHANGED store
  BY <1>8 DEF store
<1> QED
  BY <1>1, <1>2, <1>3, <1>4, <1>5, <1>6, <1>7, <1>8 DEF StoreNext

\* The ledger is always well typed.
THEOREM StoreTyped == StoreSpec => []StoreTypeOK
<1>1. StoreInit => StoreTypeOK
  BY DEF StoreInit, StoreTypeOK, Statuses, Sources
<1> QED
  BY <1>1, StoreTypeStep, PTL DEF StoreSpec

\* Registration expires rows that wait, and only those.
LEMMA ExpiryOnlyOfWaiting ==
  ASSUME NEW a \in Rows
  PROVE  AfterExpiry[a] = status[a] \/ (status[a] \in Waiting /\ AfterExpiry[a] = "expired")
  BY DEF AfterExpiry

\* What was sent stays out of the claimable states in every step.
LEMMA SentStep ==
  StoreTypeOK /\ SentNeverRearmed /\ [StoreNext]_store => SentNeverRearmed'
<1> SUFFICES ASSUME StoreTypeOK, SentNeverRearmed, [StoreNext]_store,
                    NEW b \in Rows, sent'[b]
             PROVE  status'[b] \in {"sending"} \cup Terminal
  BY DEF SentNeverRearmed
<1> USE DEF StoreTypeOK, SentNeverRearmed, Terminal, Waiting
<1>1. ASSUME NEW a \in Rows, NEW k \in Keys, NEW r \in Resources,
             NEW src \in DOMAIN GrantOf, Register(a, k, r, src)
      PROVE  status'[b] \in {"sending"} \cup Terminal
  <2>1. sent[b] /\ (status'[b] = AfterExpiry[b] \/ (b = a /\ IsNext(a)))
    BY <1>1 DEF Register, ReuseRow, InsertRow, AfterExpiry
  <2> QED BY <2>1, ExpiryOnlyOfWaiting DEF IsNext
<1>2. ASSUME NEW a \in Rows, NEW src \in {"desktop_host"} \cup SelfSources, Approve(a, src)
      PROVE  status'[b] \in {"sending"} \cup Terminal
  BY <1>2 DEF Approve
<1>3. ASSUME NEW a \in Rows, Lapse(a) PROVE status'[b] \in {"sending"} \cup Terminal
  BY <1>3 DEF Lapse
<1>4. ASSUME NEW a \in Rows, Claim(a) PROVE status'[b] \in {"sending"} \cup Terminal
  BY <1>4 DEF Claim, ClaimOutcome
<1>5. ASSUME NEW a \in Rows, MarkSending(a) PROVE status'[b] \in {"sending"} \cup Terminal
  BY <1>5 DEF MarkSending
<1>6. ASSUME NEW a \in Rows, NEW s \in Terminal, NEW result \in BOOLEAN, Finish(a, s, result)
      PROVE  status'[b] \in {"sending"} \cup Terminal
  BY <1>6 DEF Finish
<1>7. ASSUME RecoverInterrupted PROVE status'[b] \in {"sending"} \cup Terminal
  BY <1>7 DEF RecoverInterrupted
<1>8. CASE UNCHANGED store
  BY <1>8 DEF store
<1> QED
  BY <1>1, <1>2, <1>3, <1>4, <1>5, <1>6, <1>7, <1>8 DEF StoreNext

\* A row that was sent stays out of every state it could be claimed from.
THEOREM SentStaysOut == StoreSpec => []SentNeverRearmed
<1>1. StoreInit => SentNeverRearmed
  BY DEF StoreInit, SentNeverRearmed
<1> QED
  BY <1>1, SentStep, StoreTyped, PTL DEF StoreSpec

\* At most one action per resource is claimed or on the wire.
THEOREM OneInFlightPerResource == StoreSpec => []InFlightExclusive
<1> DEFINE Flying == {"executing", "sending"}
<1>1. StoreInit => InFlightExclusive
  BY DEF StoreInit, InFlightExclusive
<1>2. StoreTypeOK /\ InFlightExclusive /\ [StoreNext]_store => InFlightExclusive'
  <2> SUFFICES ASSUME StoreTypeOK, InFlightExclusive, [StoreNext]_store,
                      NEW b \in Rows, NEW c \in Rows, b # c, resource'[b] = resource'[c],
                      status'[b] \in Flying, status'[c] \in Flying
               PROVE  FALSE
    BY DEF InFlightExclusive
  <2> USE DEF StoreTypeOK, InFlightExclusive, Waiting
  \* A step that keeps the resources and puts no row in flight is harmless.
  <2>0. ASSUME \A d \in {b, c} : resource'[d] = resource[d] /\ status[d] \in Flying
        PROVE  FALSE
    BY <2>0
  <2>1. ASSUME NEW a \in Rows, NEW k \in Keys, NEW r \in Resources,
               NEW src \in DOMAIN GrantOf, Register(a, k, r, src)
        PROVE  FALSE
    <3>1. CASE ReuseRow(a, k)
      BY <3>1, <2>0, ExpiryOnlyOfWaiting DEF ReuseRow
    <3>2. CASE InsertRow(a, k, r, src)
      <4>1. b # a /\ c # a
        BY <3>2 DEF InsertRow, AfterExpiry
      <4> QED BY <3>2, <4>1, <2>0, ExpiryOnlyOfWaiting DEF InsertRow
    <3> QED BY <2>1, <3>1, <3>2 DEF Register
  <2>2. ASSUME NEW a \in Rows, NEW src \in {"desktop_host"} \cup SelfSources, Approve(a, src)
        PROVE  FALSE
    BY <2>2, <2>0 DEF Approve
  <2>3. ASSUME NEW a \in Rows, Lapse(a) PROVE FALSE
    BY <2>3, <2>0 DEF Lapse
  <2>4. ASSUME NEW a \in Rows, Claim(a) PROVE FALSE
    <3>1. CASE ClaimOutcome(a) = "executing"
      <4>1. ~Busy(a)
        BY <3>1 DEF ClaimOutcome
      <4>2. \A d \in Rows \ {a} : resource[d] = resource[a] => status[d] \notin Flying
        BY <4>1 DEF Busy, Blocking
      <4> QED BY <2>4, <4>2, <2>0 DEF Claim
    <3>2. CASE ClaimOutcome(a) # "executing"
      BY <2>4, <3>2, <2>0 DEF Claim
    <3> QED BY <3>1, <3>2
  <2>5. ASSUME NEW a \in Rows, MarkSending(a) PROVE FALSE
    BY <2>5, <2>0 DEF MarkSending
  <2>6. ASSUME NEW a \in Rows, NEW s \in Terminal, NEW result \in BOOLEAN, Finish(a, s, result)
        PROVE  FALSE
    BY <2>6, <2>0 DEF Finish, Terminal
  <2>7. ASSUME RecoverInterrupted PROVE FALSE
    <3>1. \A d \in Rows : status'[d] \notin Flying
      BY <2>7 DEF RecoverInterrupted
    <3> QED BY <3>1
  <2>8. CASE UNCHANGED store
    BY <2>8, <2>0 DEF store
  <2> QED
    BY <2>1, <2>2, <2>3, <2>4, <2>5, <2>6, <2>7, <2>8 DEF StoreNext
<1> QED
  BY <1>1, <1>2, StoreTyped, PTL DEF StoreSpec

\* Whatever may be sent, or was, carries the approval of a trusted authority.
\* A row that is only now inserted was never sent: that is SentNeverRearmed.
THEOREM SendsAreAuthorised == StoreSpec => []SendIsAuthorised
<1> DEFINE Armed == {"approved", "executing", "sending"}
<1>1. StoreInit => SendIsAuthorised
  BY DEF StoreInit, SendIsAuthorised
<1>2. StoreTypeOK /\ SentNeverRearmed /\ SendIsAuthorised /\ [StoreNext]_store
      => SendIsAuthorised'
  <2> SUFFICES ASSUME StoreTypeOK, SentNeverRearmed, SendIsAuthorised, [StoreNext]_store,
                      NEW b \in Rows, sent'[b] \/ status'[b] \in Armed
               PROVE  source'[b] \in Authorities
    BY DEF SendIsAuthorised
  <2> USE DEF StoreTypeOK, SendIsAuthorised, Waiting
  \* A step that keeps the source of a row and does not arm it is harmless.
  <2>0. ASSUME source'[b] = source[b], sent[b] \/ status[b] \in Armed
        PROVE  source'[b] \in Authorities
    BY <2>0
  <2>1. ASSUME NEW a \in Rows, NEW k \in Keys, NEW r \in Resources,
               NEW src \in DOMAIN GrantOf, Register(a, k, r, src)
        PROVE  source'[b] \in Authorities
    <3>1. CASE ReuseRow(a, k)
      BY <3>1, <2>0, ExpiryOnlyOfWaiting DEF ReuseRow
    <3>2. CASE InsertRow(a, k, r, src) /\ b # a
      BY <3>2, <2>0, ExpiryOnlyOfWaiting DEF InsertRow
    <3>3. CASE InsertRow(a, k, r, src) /\ b = a
      <4>1. ~sent'[b]
        BY <3>3 DEF InsertRow, IsNext, SentNeverRearmed, Terminal
      <4>2. GrantOf[src]
        BY <3>3, <4>1 DEF InsertRow, AfterExpiry
      <4> QED BY <3>3, <4>2 DEF InsertRow, GrantOf, Authorities
    <3> QED BY <2>1, <3>1, <3>2, <3>3 DEF Register
  <2>2. ASSUME NEW a \in Rows, NEW src \in {"desktop_host"} \cup SelfSources, Approve(a, src)
        PROVE  source'[b] \in Authorities
    BY <2>2, <2>0 DEF Approve, Authorities
  <2>3. ASSUME NEW a \in Rows, Lapse(a) PROVE source'[b] \in Authorities
    BY <2>3, <2>0 DEF Lapse
  <2>4. ASSUME NEW a \in Rows, Claim(a) PROVE source'[b] \in Authorities
    BY <2>4, <2>0 DEF Claim, ClaimOutcome
  <2>5. ASSUME NEW a \in Rows, MarkSending(a) PROVE source'[b] \in Authorities
    BY <2>5, <2>0 DEF MarkSending
  <2>6. ASSUME NEW a \in Rows, NEW s \in Terminal, NEW result \in BOOLEAN, Finish(a, s, result)
        PROVE  source'[b] \in Authorities
    BY <2>6, <2>0 DEF Finish, Terminal
  <2>7. ASSUME RecoverInterrupted PROVE source'[b] \in Authorities
    BY <2>7, <2>0 DEF RecoverInterrupted
  <2>8. CASE UNCHANGED store
    BY <2>8, <2>0 DEF store
  <2> QED
    BY <2>1, <2>2, <2>3, <2>4, <2>5, <2>6, <2>7, <2>8 DEF StoreNext
<1> QED
  BY <1>1, <1>2, StoreTyped, SentStaysOut, PTL DEF StoreSpec

\* The phase, one status at a time.
LEMMA PhaseOf ==
  ASSUME NEW s, NEW x
  PROVE  /\ s = "none" => PhaseIn(s, x) = "absent"
         /\ s = "pending_approval" => PhaseIn(s, x) = "proposed"
         /\ s \in {"approved", "executing"} => PhaseIn(s, x) = "granted"
         /\ s \notin {"none", "pending_approval", "approved", "executing"}
            => PhaseIn(s, x) = IF x THEN "dispatched" ELSE "retired"
  BY DEF PhaseIn

\* How the phase of a row may move, without the table of ActionContract.
May(p, q) ==
  \/ q = p
  \/ p = "absent" /\ q \in {"proposed", "granted"}
  \/ p = "proposed" /\ q \in {"granted", "retired"}
  \/ p = "granted" /\ q \in {"dispatched", "retired"}

LEMMA MayMoves ==
  ASSUME NEW p, NEW q, May(p, q)
  PROVE  q = p \/ q \in Contract!Moves[p]
  BY DEF May, Contract!Moves

\* Every step of the ledger is a step, or a stutter, of ActionContract.
THEOREM LedgerKeepsContract == StoreSpec => KeepsContract
<1> DEFINE phases == [a \in Rows |-> Phase(a)]
<1>1. StoreInit => Contract!Init
  <2>1. ASSUME StoreInit, NEW a \in Rows PROVE Phase(a) = "absent"
    <3>1. status[a] = "none"
      BY <2>1 DEF StoreInit
    <3> QED BY <3>1, PhaseOf DEF Phase
  <2> QED BY <2>1 DEF Contract!Init
<1>2. StoreTypeOK /\ SentNeverRearmed /\ [StoreNext]_store => [Contract!Next]_phases
  <2> SUFFICES ASSUME StoreTypeOK, SentNeverRearmed, [StoreNext]_store
               PROVE  Contract!Next
    OBVIOUS
  <2>t. StoreTypeOK'
    BY StoreTypeStep
  <2> USE DEF StoreTypeOK, Waiting, Terminal
  <2> DEFINE Moves(b) == May(PhaseIn(status[b], sent[b]), PhaseIn(status'[b], sent'[b]))
             NewlySent(b) == sent'[b] /\ ~sent[b]
  \* It is enough that each row moves as it may, and only one is newly sent.
  <2>s. ASSUME \A b \in Rows : Moves(b), \A b, c \in Rows : NewlySent(b) /\ NewlySent(c) => b = c
        PROVE  Contract!Next
    <3>p. \A b \in Rows : /\ phases[b] = PhaseIn(status[b], sent[b])
                           /\ phases'[b] = PhaseIn(status'[b], sent'[b])
      BY DEF Phase
    <3>1. \A b \in Rows : phases'[b] = "dispatched" => sent'[b]
      BY <3>p, <2>t, PhaseOf
    <3>2. \A b \in Rows : sent[b] => phases[b] = "dispatched"
      BY <3>p, PhaseOf DEF SentNeverRearmed
    <3>3. \A b \in Rows : Contract!Dispatched(b) => NewlySent(b)
      BY <3>1, <3>2 DEF Contract!Dispatched
    <3>4. \A b \in Rows : phases'[b] = phases[b] \/ phases'[b] \in Contract!Moves[phases[b]]
      BY <2>s, <3>p, MayMoves
    <3> QED BY <2>s, <3>3, <3>4 DEF Contract!Next
  \* A row whose status and marker stay does not move.
  <2>m. \A b \in Rows : status'[b] = status[b] /\ sent'[b] = sent[b] => Moves(b)
    BY DEF May
  \* A row that expires while it waits was never sent, and is retired.
  <2>x. \A b \in Rows : status[b] \in Waiting /\ status'[b] = "expired" /\ sent'[b] = sent[b]
                         => Moves(b)
    BY PhaseOf DEF May, SentNeverRearmed
  <2>1. ASSUME NEW a \in Rows, NEW k \in Keys, NEW r \in Resources,
               NEW src \in DOMAIN GrantOf, Register(a, k, r, src)
        PROVE  Contract!Next
    <3>1. sent' = sent
      BY <2>1 DEF Register, ReuseRow, InsertRow
    <3>2. \A b \in Rows : status'[b] = AfterExpiry[b] => Moves(b)
      BY <3>1, <2>m, <2>x, ExpiryOnlyOfWaiting
    <3>3. CASE ReuseRow(a, k)
      BY <3>1, <3>2, <3>3, <2>s DEF ReuseRow
    <3>4. CASE InsertRow(a, k, r, src)
      <4>1. status[a] = "none" /\ status'[a] \in {"approved", "pending_approval"}
        BY <3>4 DEF InsertRow, IsNext, AfterExpiry
      <4>2. Moves(a)
        BY <4>1, PhaseOf DEF May
      <4>3. \A b \in Rows \ {a} : status'[b] = AfterExpiry[b]
        BY <3>4 DEF InsertRow
      <4> QED BY <3>1, <3>2, <4>2, <4>3, <2>s
    <3> QED BY <2>1, <3>3, <3>4 DEF Register
  <2>2. ASSUME NEW a \in Rows, NEW src \in {"desktop_host"} \cup SelfSources, Approve(a, src)
        PROVE  Contract!Next
    <3>1. sent' = sent /\ \A b \in Rows \ {a} : status'[b] = status[b]
      BY <2>2 DEF Approve
    <3>2. status[a] = "pending_approval" /\ status'[a] = "approved"
      BY <2>2 DEF Approve
    <3>3. Moves(a)
      BY <3>2, PhaseOf DEF May
    <3> QED BY <3>1, <3>3, <2>m, <2>s
  <2>3. ASSUME NEW a \in Rows, Lapse(a) PROVE Contract!Next
    BY <2>3, <2>m, <2>s DEF Lapse
  <2>4. ASSUME NEW a \in Rows, Claim(a) PROVE Contract!Next
    <3>1. sent' = sent /\ \A b \in Rows \ {a} : status'[b] = status[b]
      BY <2>4 DEF Claim
    <3>2. \/ status'[a] = status[a]
          \/ status[a] \in Waiting /\ status'[a] = "expired"
          \/ status[a] = "approved" /\ status'[a] = "executing"
      BY <2>4 DEF Claim, ClaimOutcome
    <3>3. Moves(a)
      BY <3>1, <3>2, <2>m, <2>x, PhaseOf DEF May
    <3> QED BY <3>1, <3>3, <2>m, <2>s
  <2>5. ASSUME NEW a \in Rows, MarkSending(a) PROVE Contract!Next
    <3>1. \A b \in Rows \ {a} : status'[b] = status[b] /\ sent'[b] = sent[b]
      BY <2>5 DEF MarkSending
    <3>2. status[a] = "executing" /\ status'[a] = "sending" /\ sent'[a] = TRUE
      BY <2>5 DEF MarkSending
    <3>3. /\ PhaseIn(status[a], sent[a]) = "granted"
          /\ PhaseIn(status'[a], sent'[a]) = "dispatched"
      BY <3>2, PhaseOf
    <3>4. Moves(a)
      BY <3>3 DEF May
    <3> QED BY <3>1, <3>4, <2>m, <2>s
  <2>6. ASSUME NEW a \in Rows, NEW s \in Terminal, NEW result \in BOOLEAN, Finish(a, s, result)
        PROVE  Contract!Next
    <3>1. sent' = sent /\ \A b \in Rows \ {a} : status'[b] = status[b]
      BY <2>6 DEF Finish
    <3>2. status[a] # "none" /\ status'[a] \in Terminal
      BY <2>6 DEF Finish
    <3>3. CASE sent[a]
      <4>1. /\ PhaseIn(status[a], sent[a]) = "dispatched"
            /\ PhaseIn(status'[a], sent'[a]) = "dispatched"
        BY <3>1, <3>2, <3>3, PhaseOf DEF SentNeverRearmed
      <4>2. Moves(a)
        BY <4>1 DEF May
      <4> QED BY <3>1, <4>2, <2>m, <2>s
    <3>4. CASE ~sent[a]
      <4>1. PhaseIn(status'[a], sent'[a]) = "retired"
        BY <3>1, <3>2, <3>4, PhaseOf
      <4>2. PhaseIn(status[a], sent[a]) \in {"proposed", "granted", "retired"}
        BY <3>2, <3>4, PhaseOf
      <4>3. Moves(a)
        BY <4>1, <4>2 DEF May
      <4> QED BY <3>1, <4>3, <2>m, <2>s
    <3> QED BY <3>3, <3>4
  <2>7. ASSUME RecoverInterrupted PROVE Contract!Next
    <3>1. sent' = sent
      BY <2>7 DEF RecoverInterrupted
    <3>2. \A b \in Rows : \/ status'[b] = status[b]
                          \/ status[b] = "executing" /\ status'[b] \in {"approved", "expired"}
                          \/ status[b] = "sending" /\ status'[b] = "needs_reconciliation"
      BY <2>7 DEF RecoverInterrupted
    <3>3. ASSUME NEW b \in Rows PROVE Moves(b)
      <4>1. CASE status'[b] = status[b]
        BY <3>1, <4>1, <2>m
      <4>2. CASE status[b] = "executing" /\ status'[b] \in {"approved", "expired"}
        <5>1. ~sent[b]
          BY <4>2 DEF SentNeverRearmed
        <5> QED BY <3>1, <4>2, <5>1, PhaseOf DEF May
      <4>3. CASE status[b] = "sending" /\ status'[b] = "needs_reconciliation"
        BY <3>1, <4>3, PhaseOf DEF May
      <4> QED BY <3>2, <4>1, <4>2, <4>3
    <3> QED BY <3>1, <3>3, <2>s
  <2>8. CASE UNCHANGED store
    BY <2>8, <2>m, <2>s DEF store
  <2> QED
    BY <2>1, <2>2, <2>3, <2>4, <2>5, <2>6, <2>7, <2>8 DEF StoreNext
<1> QED
  BY <1>1, <1>2, StoreTyped, SentStaysOut, PTL DEF StoreSpec, KeepsContract, Contract!Spec
=============================================================================
