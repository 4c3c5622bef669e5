-------------------------- MODULE Conversation_proofs --------------------------
(***************************************************************************)
(* Theorems about the conversation of a session, for any number of         *)
(* businesses, conversations, runs, notes and proposals.                   *)
(*                                                                         *)
(* The argument rests on two orders.  At most one job is under way, so no  *)
(* user speaks between the start of a conversation and its proposals; and  *)
(* a goal is confirmed only while the user's last words are among its      *)
(* sources, so the goals of a business are confirmed in the order in which *)
(* they were proposed.                                                     *)
(***************************************************************************)
EXTENDS Conversation, FiniteSetTheorems, SequenceTheorems, WellFoundedInduction, TLAPS

\* A job has a process exactly while the host knows one, and then no other job has
\* a process or is active; a conversation that has not begun, or has ended well, has
\* none.
OneJob ==
  /\ \A j \in Jobs : worker[j] # "none" <=> j \in procs
  /\ \A j, k \in procs : j = k
  /\ \A c \in Convs : conv[c].status \in Active => procs \subseteq {<<"conv", c>>}
  /\ \A r \in Runs : run[r].status \in Active => procs \subseteq {<<"run", r>>}
  /\ \A c \in Convs : conv[c].status \in {"absent", "completed"} => <<"conv", c>> \notin procs

\* A conversation lists its proposals in their order.
Listed ==
  /\ \A c \in Convs :
       LET ps == conv[c].proposals
       IN  /\ \A k \in DOMAIN ps : ps[k] \in Proposals /\ messages[ps[k]].conv = c
           /\ \A k, l \in DOMAIN ps : k < l => ps[k] < ps[l]
  /\ \A p \in Proposals : p \in Range(conv[messages[p].conv].proposals)

\* Sources are messages, and those of a proposal came before it.
SourcesBefore ==
  /\ \A c \in Convs : conv[c].sources \subseteq DOMAIN messages
  /\ \A b \in Businesses : business[b].words \subseteq DOMAIN messages
  /\ \A p \in Proposals : \A i \in messages[p].sources : i < p

\* Between proposals of two conversations the user has spoken; and since those of
\* other conversations, when one is under way.
SpokenBetween ==
  /\ \A p, q \in Proposals : messages[p].conv # messages[q].conv /\ p < q
       => \E u \in Users : p < u /\ u < q
  /\ \A c \in Convs : <<"conv", c>> \in procs
       => \A p \in Proposals : messages[p].conv # c => \E u \in Users : p < u

\* A word of the user is a source of a proposal that follows, unless a goal was
\* confirmed in between; and of the conversation under way.
WordsCovered ==
  /\ \A p \in Proposals, i \in Spoken :
       i < p /\ i \notin messages[p].sources => \E q \in Confirmed : i < q /\ q < p
  /\ \A c \in Convs, i \in Spoken :
       <<"conv", c>> \in procs /\ i \notin conv[c].sources => \E q \in Confirmed : i < q

\* A proposal names a business that is known; the goal of a business is a proposal
\* that was confirmed, or that of an older state file.
TargetsKnown ==
  \A p \in Proposals : messages[p].target # NoBusiness => Known(messages[p].target)
GoalsConfirmed ==
  \A b \in Businesses : business[b].goal = 0 \/ business[b].goal \in Confirmed

\* What is said, proposed and confirmed.
TalkInv ==
  /\ Listed /\ SourcesBefore /\ SpokenBetween /\ WordsCovered /\ TargetsKnown
  /\ GoalsConfirmed /\ OneGoalPerConversation /\ GoalIsNewest

\* Runs begin in order, of businesses that are known; one that has not begun has
\* left no trace.
RunsBegun ==
  \A r \in Runs :
    /\ run[r].words \subseteq {0} \cup DOMAIN messages
    /\ IF run[r].status = "absent"
       THEN /\ run[r].business = NoBusiness /\ run[r].words = {} /\ ~run[r].touched
            /\ <<"run", r>> \notin procs
            /\ \A q \in Runs : r < q => run[q].status = "absent"
       ELSE run[r].business \in Businesses /\ Known(run[r].business)

\* The goal a business has submitted is that of its latest run.
LatestRunsGoal ==
  \A r \in Runs, b \in Businesses :
    /\ run[r].business = b /\ business[b].goalSubmitted
    /\ \A q \in Runs : run[q].business = b => q <= r
    => run[r].goal = business[b].goal

\* A run that came to nothing and cannot be resumed.
Retired(r) ==
  /\ run[r].status = "failed" /\ ~run[r].touched
  /\ <<"run", r>> \notin procs
  /\ \/ ~business[run[r].business].goalSubmitted
     \/ \E q \in Runs : r < q /\ run[q].business = run[r].business

\* The words of a run carry its mark, unless it is retired.
WordsMarked ==
  \A r \in Runs : \A i \in run[r].words \cap Users : messages[i].by = r \/ Retired(r)

\* What the runs were given.
RunInv == RunsBegun /\ LatestRunsGoal /\ RunsWorkTheConfirmedGoal /\ WordsMarked

IInv == TypeOK /\ SessionNamesItsJob /\ OneJob /\ TalkInv /\ RunInv

-----------------------------------------------------------------------------
(* Numbers.                                                                *)

\* A set of positions in a sequence has a greatest.
LEMMA MaxOf ==
  ASSUME NEW n \in Nat, NEW S \in SUBSET (1..n), S # {}
  PROVE  Max(S) \in S /\ \A x \in S : x <= Max(S)
<1> DEFINE less == {ss \in Nat \X Nat : ss[1] < ss[2]}
           T == {k \in Nat : n - k \in S}
<1>1. IsWellFoundedOn(less, Nat)
  BY NatLessThanWellFounded DEF OpToRel
<1>2. \A x \in S : n - x \in T
  <2> TAKE x \in S
  <2>1. x \in 1..n /\ n - x \in Nat /\ n - (n - x) = x
    OBVIOUS
  <2> QED
    BY <2>1
<1>3. T \subseteq Nat /\ T # {}
  BY <1>2
<1>4. PICK m \in T : \A y \in T : ~(<<y, m>> \in less)
  <2> HIDE DEF T, less
  <2> QED
    BY <1>1, <1>3, WFMin
<1>5. ASSUME NEW y \in T
      PROVE  m <= y
  <2>1. \A a, b \in Nat : a < b => <<a, b>> \in less
    OBVIOUS
  <2>2. y \in Nat /\ m \in Nat /\ ~(y < m)
    <3> HIDE DEF less
    <3> QED
      BY <2>1, <1>4, <1>5
  <2> QED
    BY <2>2
<1>6. n - m \in S
  OBVIOUS
<1>7. \A y \in S : y <= n - m
  <2> TAKE y \in S
  <2>1. m <= n - y /\ y \in 1..n
    BY <1>2, <1>5
  <2> QED
    BY <2>1
<1> QED
  BY <1>6, <1>7 DEF Max

-----------------------------------------------------------------------------
(* Messages.                                                               *)

\* What a message is made of.
LEMMA MessageFacts ==
  ASSUME NEW m \in Message
  PROVE  /\ m.role \in {"user", "proposal"}
         /\ m.role = "user" =>
              m.business \in Businesses \cup {NoBusiness} /\ m.by \in {0} \cup Runs
         /\ m.role = "proposal" =>
              /\ m.conv \in Convs /\ m.target \in Businesses \cup {NoBusiness}
              /\ m.sources \subseteq Positions
              /\ m.status \in {"pending", "confirmed", "rejected", "superseded"}
  BY DEF Message

\* Words with another mark.
LEMMA Remarked ==
  ASSUME NEW m \in Message, m.role = "user", NEW r \in {0} \cup Runs,
         NEW n, n = [m EXCEPT !.by = r]
  PROVE  n \in Message /\ n.role = "user" /\ n.business = m.business /\ n.by = r
  BY DEF Message

\* A card in another state.
LEMMA Answered ==
  ASSUME NEW m \in Message, m.role = "proposal",
         NEW s \in {"confirmed", "rejected", "superseded"},
         NEW n, n = [m EXCEPT !.status = s]
  PROVE  /\ n \in Message /\ n.role = "proposal" /\ n.conv = m.conv /\ n.target = m.target
         /\ n.sources = m.sources /\ n.status = s
  BY DEF Message

\* New messages.
LEMMA UserMessage ==
  ASSUME NEW b \in Businesses \cup {NoBusiness}, NEW r \in {0} \cup Runs
  PROVE  /\ User(b, r) \in Message
         /\ User(b, r).role = "user" /\ User(b, r).business = b /\ User(b, r).by = r
  BY DEF User, Message

LEMMA AppendFacts ==
  ASSUME NEW ms \in Seq(Message), NEW m \in Message
  PROVE  /\ Append(ms, m) \in Seq(Message)
         /\ DOMAIN Append(ms, m) = DOMAIN ms \cup {Len(ms) + 1}
         /\ Len(ms) + 1 \in Positions
         /\ \A i \in DOMAIN ms : i <= Len(ms) /\ i \in Positions /\ Append(ms, m)[i] = ms[i]
         /\ Append(ms, m)[Len(ms) + 1] = m
<1>1. Len(ms) \in Nat /\ DOMAIN ms = 1..Len(ms)
  OBVIOUS
<1>2. Append(ms, m) \in Seq(Message) /\ DOMAIN Append(ms, m) = 1..Len(ms) + 1
  OBVIOUS
<1>3. /\ \A i \in 1..Len(ms) : Append(ms, m)[i] = ms[i]
      /\ Append(ms, m)[Len(ms) + 1] = m
  OBVIOUS
<1>4. /\ 1..Len(ms) + 1 = 1..Len(ms) \cup {Len(ms) + 1}
      /\ \A i \in 1..Len(ms) + 1 : i \in Positions
      /\ \A i \in 1..Len(ms) : i <= Len(ms)
  BY <1>1 DEF Positions
<1> QED
  <2>1. \A i \in DOMAIN ms : i \in 1..Len(ms) + 1
    BY <1>1, <1>4
  <2>2. Len(ms) + 1 \in Positions
    BY <1>1, <1>4
  <2> QED
    BY <1>1, <1>2, <1>3, <1>4, <2>1, <2>2

\* Messages that are changed one by one stay a sequence.
LEMMA Remade ==
  ASSUME NEW ms \in Seq(Message), NEW ns \in [DOMAIN ms -> Message]
  PROVE  ns \in Seq(Message) /\ DOMAIN ns = DOMAIN ms /\ Len(ns) = Len(ms)
<1>1. Len(ms) \in Nat /\ DOMAIN ms = 1..Len(ms)
  OBVIOUS
<1>2. ns \in Seq(Message) /\ DOMAIN ns = 1..Len(ms)
  BY <1>1, SeqDef
<1>3. DOMAIN ns = 1..Len(ns) /\ Len(ns) \in Nat
  BY <1>2
<1> QED
  BY <1>1, <1>2, <1>3, LenProperties

\* The words a run gives back.
LEMMA UnmarkedFacts ==
  ASSUME NEW ms \in Seq(Message), NEW r \in Runs
  PROVE  /\ Unmarked(ms, r) \in Seq(Message)
         /\ DOMAIN Unmarked(ms, r) = DOMAIN ms
         /\ \A i \in DOMAIN ms :
              IF ms[i].role = "user" /\ ms[i].by = r
              THEN /\ Unmarked(ms, r)[i].role = "user"
                   /\ Unmarked(ms, r)[i].business = ms[i].business
                   /\ Unmarked(ms, r)[i].by = 0
              ELSE Unmarked(ms, r)[i] = ms[i]
<1>1. \A i \in DOMAIN ms : ms[i] \in Message
  BY ElementOfSeq
<1> DEFINE ns == Unmarked(ms, r)
<1>2. ASSUME NEW i \in DOMAIN ms
      PROVE  /\ ns[i] \in Message
             /\ IF ms[i].role = "user" /\ ms[i].by = r
                THEN ns[i].role = "user" /\ ns[i].business = ms[i].business /\ ns[i].by = 0
                ELSE ns[i] = ms[i]
  <2>1. ms[i] \in Message
    BY <1>1
  <2>2. CASE ms[i].role = "user" /\ ms[i].by = r
    <3>1. ns[i] = [ms[i] EXCEPT !.by = 0]
      BY <2>2 DEF Unmarked
    <3> QED
      BY <2>1, <2>2, <3>1, Remarked
  <2>3. CASE ~(ms[i].role = "user" /\ ms[i].by = r)
    BY <2>1, <2>3 DEF Unmarked
  <2> QED
    BY <2>2, <2>3
<1>3. ns \in [DOMAIN ms -> Message]
  BY <1>2 DEF Unmarked
<1> QED
  BY <1>2, <1>3, Remade

\* The words a run is launched with.
Marked(ms, r, S) == [i \in DOMAIN ms |-> IF i \in S THEN [ms[i] EXCEPT !.by = r] ELSE ms[i]]

LEMMA MarkedFacts ==
  ASSUME NEW ms \in Seq(Message), NEW r \in Runs, NEW S,
         \A i \in S : i \in DOMAIN ms /\ ms[i].role = "user"
  PROVE  /\ Marked(ms, r, S) \in Seq(Message)
         /\ DOMAIN Marked(ms, r, S) = DOMAIN ms
         /\ \A i \in DOMAIN ms :
              LET n == Marked(ms, r, S)[i]
              IN  IF i \in S
                  THEN n.role = "user" /\ n.business = ms[i].business /\ n.by = r
                  ELSE n = ms[i]
<1> DEFINE ns == Marked(ms, r, S)
<1>1. \A i \in DOMAIN ms : ms[i] \in Message
  BY ElementOfSeq
<1>2. ASSUME NEW i \in DOMAIN ms
      PROVE  /\ ns[i] \in Message
             /\ IF i \in S
                THEN ns[i].role = "user" /\ ns[i].business = ms[i].business /\ ns[i].by = r
                ELSE ns[i] = ms[i]
  <2>1. ms[i] \in Message
    BY <1>1
  <2>2. CASE i \in S
    <3>1. ns[i] = [ms[i] EXCEPT !.by = r]
      BY <2>2 DEF Marked
    <3> HIDE DEF ns
    <3> QED
      BY <2>1, <2>2, <3>1, Remarked
  <2>3. CASE i \notin S
    BY <2>1, <2>3 DEF Marked
  <2> QED
    BY <2>2, <2>3
<1>3. ns \in [DOMAIN ms -> Message]
  BY <1>2 DEF Marked
<1> HIDE DEF ns
<1>4. ns \in Seq(Message) /\ DOMAIN ns = DOMAIN ms
  BY <1>3, Remade
<1>5. \A i \in DOMAIN ms :
        IF i \in S
        THEN ns[i].role = "user" /\ ns[i].business = ms[i].business /\ ns[i].by = r
        ELSE ns[i] = ms[i]
  BY <1>2
<1> QED
  BY <1>4, <1>5 DEF ns

\* The card that the user answers.
LEMMA CardFacts ==
  ASSUME messages \in Seq(Message), NEW p \in DOMAIN messages, messages[p].role = "proposal",
         NEW s \in {"confirmed", "rejected"}, messages' = [messages EXCEPT ![p].status = s]
  PROVE  /\ messages' \in Seq(Message)
         /\ DOMAIN messages' = DOMAIN messages /\ Len(messages') = Len(messages)
         /\ \A i \in DOMAIN messages :
              IF i = p
              THEN /\ messages'[i].role = "proposal" /\ messages'[i].conv = messages[i].conv
                   /\ messages'[i].target = messages[i].target
                   /\ messages'[i].sources = messages[i].sources
                   /\ messages'[i].status = s
              ELSE messages'[i] = messages[i]
<1>1. \A i \in DOMAIN messages : messages[i] \in Message
  BY ElementOfSeq
<1> DEFINE m == [messages[p] EXCEPT !.status = s]
<1>2. /\ m \in Message /\ m.role = "proposal" /\ m.conv = messages[p].conv
      /\ m.target = messages[p].target /\ m.sources = messages[p].sources /\ m.status = s
  <2>1. messages[p] \in Message
    BY <1>1
  <2> QED
    BY <2>1, Answered
<1>3. messages' = [messages EXCEPT ![p] = m]
  OBVIOUS
<1> HIDE DEF m
<1>4. messages' \in [DOMAIN messages -> Message]
  BY <1>1, <1>2, <1>3
<1>5. \A i \in DOMAIN messages : messages'[i] = IF i = p THEN m ELSE messages[i]
  BY <1>3
<1>6. messages' \in Seq(Message) /\ DOMAIN messages' = DOMAIN messages
    /\ Len(messages') = Len(messages)
  BY <1>4, Remade
<1> QED
  BY <1>2, <1>5, <1>6

\* The cards of a conversation that a new one replaces.
LEMMA SupersedeFacts ==
  ASSUME NEW ms \in Seq(Message), NEW c \in Convs,
         \A i \in DOMAIN ms : i \in Range(conv[c].proposals) => ms[i].role = "proposal"
  PROVE  /\ Supersede(ms, c) \in Seq(Message)
         /\ DOMAIN Supersede(ms, c) = DOMAIN ms /\ Len(Supersede(ms, c)) = Len(ms)
         /\ \A i \in DOMAIN ms :
              \/ Supersede(ms, c)[i] = ms[i]
              \/ LET n == Supersede(ms, c)[i]
                 IN  /\ ms[i].role = "proposal" /\ ms[i].status = "pending"
                     /\ n.role = "proposal" /\ n.conv = ms[i].conv
                     /\ n.target = ms[i].target /\ n.sources = ms[i].sources
                     /\ n.status = "superseded"
<1> DEFINE ns == Supersede(ms, c)
           old(i) == i \in Range(conv[c].proposals) /\ ms[i].status = "pending"
<1>1. \A i \in DOMAIN ms : ms[i] \in Message
  BY ElementOfSeq
<1>2. ASSUME NEW i \in DOMAIN ms
      PROVE  /\ ns[i] \in Message
             /\ \/ ns[i] = ms[i]
                \/ /\ ms[i].role = "proposal" /\ ms[i].status = "pending"
                   /\ ns[i].role = "proposal" /\ ns[i].conv = ms[i].conv
                   /\ ns[i].target = ms[i].target /\ ns[i].sources = ms[i].sources
                   /\ ns[i].status = "superseded"
  <2>1. ms[i] \in Message
    BY <1>1
  <2>2. CASE old(i)
    <3>1. ns[i] = [ms[i] EXCEPT !.status = "superseded"]
      BY <2>2 DEF Supersede
    <3>2. ms[i].role = "proposal" /\ ms[i].status = "pending"
      BY <2>2
    <3> HIDE DEF ns
    <3> QED
      BY <2>1, <3>1, <3>2, Answered
  <2>3. CASE ~old(i)
    <3>1. ns[i] = ms[i]
      BY <2>3 DEF Supersede
    <3> QED
      BY <2>1, <3>1
  <2> QED
    BY <2>2, <2>3
<1>3. ns \in [DOMAIN ms -> Message]
  BY <1>2 DEF Supersede
<1>4. ns \in Seq(Message) /\ DOMAIN ns = DOMAIN ms /\ Len(ns) = Len(ms)
  BY <1>3, Remade
<1> HIDE DEF ns
<1>5. \A i \in DOMAIN ms :
        \/ ns[i] = ms[i]
        \/ /\ ms[i].role = "proposal" /\ ms[i].status = "pending"
           /\ ns[i].role = "proposal" /\ ns[i].conv = ms[i].conv
           /\ ns[i].target = ms[i].target /\ ns[i].sources = ms[i].sources
           /\ ns[i].status = "superseded"
  BY <1>2
<1> QED
  BY <1>4, <1>5 DEF ns

-----------------------------------------------------------------------------
(* Types.                                                                  *)

\* The new records of the steps.
ConvRow == [status : {"absent"} \cup Active \cup Ended, sources : SUBSET Positions,
            revision : Businesses \cup {NoBusiness}, proposals : Seq(Positions), stop : BOOLEAN]

BusinessRow ==
  [status : {"absent", "ready", "blocked"} \cup Active \cup Ended, goal : Goals,
   goalSubmitted : BOOLEAN, words : SUBSET Positions, asks : BOOLEAN, active : {0} \cup Runs]

RunRow == [status : {"absent"} \cup Active \cup Ended, business : Businesses \cup {NoBusiness},
           goal : Goals, words : SUBSET Goals, revised : {0} \cup Positions,
           continued : BOOLEAN, touched : BOOLEAN, stop : BOOLEAN]

RowStatuses == {"absent"} \cup Active \cup Ended

\* The row of a conversation, of a business, of a run after a step that writes there.
ConvBecomes(c, status, sources, proposals) ==
  /\ conv' \in [Convs -> ConvRow]
  /\ \A d \in Convs : d # c => conv'[d] = conv[d]
  /\ conv'[c].status = status /\ conv'[c].sources = sources
  /\ conv'[c].proposals = proposals

BusinessBecomes(b, status, active, submitted, goal, words) ==
  /\ business' \in [Businesses -> BusinessRow]
  /\ \A d \in Businesses : d # b => business'[d] = business[d]
  /\ business'[b].status = status /\ business'[b].active = active
  /\ business'[b].goalSubmitted = submitted
  /\ business'[b].goal = goal /\ business'[b].words = words

BusinessMoved(b, status, active, submitted) ==
  BusinessBecomes(b, status, active, submitted, business[b].goal, business[b].words)

RunBecomes(r, status, b, goal, words, touched) ==
  /\ run' \in [Runs -> RunRow]
  /\ \A q \in Runs : q # r => run'[q] = run[q]
  /\ run'[r].status = status /\ run'[r].business = b /\ run'[r].goal = goal
  /\ run'[r].words = words /\ run'[r].touched = touched

\* What the handlers write in the row of a conversation.
LEMMA ConvStarted ==
  ASSUME conv \in [Convs -> ConvRow], NEW c \in Convs, NEW s \in RowStatuses,
         NEW S \in SUBSET Positions, NEW b \in Businesses \cup {NoBusiness},
         conv' = [conv EXCEPT ![c].status = s, ![c].sources = S, ![c].revision = b]
  PROVE  ConvBecomes(c, s, S, conv[c].proposals)
  BY ZenonT(40) DEF ConvRow, RowStatuses, ConvBecomes

LEMMA ConvListed ==
  ASSUME conv \in [Convs -> ConvRow], NEW c \in Convs, NEW p \in Positions,
         conv' = [conv EXCEPT ![c].proposals = Append(@, p)]
  PROVE  ConvBecomes(c, conv[c].status, conv[c].sources, Append(conv[c].proposals, p))
<1>1. \A d \in Convs : Append(conv[d].proposals, p) \in Seq(Positions)
  <2> TAKE d \in Convs
  <2>1. conv[d].proposals \in Seq(Positions)
    BY DEF ConvRow
  <2> QED
    BY <2>1
<1> DEFINE ps == Append(conv[c].proposals, p)
<1>2. ps \in Seq(Positions) /\ conv' = [conv EXCEPT ![c].proposals = ps]
  BY <1>1
<1> HIDE DEF ps
<1>3. /\ conv' \in [Convs -> ConvRow]
      /\ \A d \in Convs : d # c => conv'[d] = conv[d]
      /\ conv'[c].status = conv[c].status /\ conv'[c].sources = conv[c].sources
      /\ conv'[c].proposals = ps
  BY <1>2, ZenonT(40) DEF ConvRow
<1> QED
  BY <1>3 DEF ps, ConvBecomes

LEMMA ConvMoved ==
  ASSUME conv \in [Convs -> ConvRow], NEW c \in Convs, NEW s \in RowStatuses,
         NEW x \in BOOLEAN, conv' = [conv EXCEPT ![c].status = s, ![c].stop = x]
  PROVE  ConvBecomes(c, s, conv[c].sources, conv[c].proposals)
  BY DEF ConvRow, RowStatuses, ConvBecomes

\* What the handlers write in the row of a business.
BusinessStatuses == {"absent", "ready", "blocked"} \cup Active \cup Ended

LEMMA BusinessStatus ==
  ASSUME business \in [Businesses -> BusinessRow], NEW b \in Businesses,
         NEW s \in BusinessStatuses, business' = [business EXCEPT ![b].status = s]
  PROVE  BusinessMoved(b, s, business[b].active, business[b].goalSubmitted)
  BY DEF BusinessRow, BusinessStatuses, BusinessBecomes, BusinessMoved

LEMMA BusinessActive ==
  ASSUME business \in [Businesses -> BusinessRow], NEW b \in Businesses,
         NEW s \in BusinessStatuses, NEW r \in {0} \cup Runs,
         business' = [business EXCEPT ![b].status = s, ![b].active = r]
  PROVE  BusinessMoved(b, s, r, business[b].goalSubmitted)
  BY DEF BusinessRow, BusinessStatuses, BusinessBecomes, BusinessMoved

LEMMA BusinessUsed ==
  ASSUME business \in [Businesses -> BusinessRow], NEW b \in Businesses,
         NEW s \in BusinessStatuses, NEW r \in {0} \cup Runs, NEW x \in BOOLEAN,
         business' = [business EXCEPT ![b].status = s, ![b].active = r, ![b].goalSubmitted = x]
  PROVE  BusinessMoved(b, s, r, x)
  BY ZenonT(40) DEF BusinessRow, BusinessStatuses, BusinessBecomes, BusinessMoved

LEMMA BusinessUnused ==
  ASSUME business \in [Businesses -> BusinessRow], NEW b \in Businesses,
         NEW s \in BusinessStatuses,
         business' = [business EXCEPT ![b].status = s, ![b].goalSubmitted = FALSE]
  PROVE  BusinessMoved(b, s, business[b].active, FALSE)
  BY DEF BusinessRow, BusinessStatuses, BusinessBecomes, BusinessMoved

LEMMA BusinessGoal ==
  ASSUME business \in [Businesses -> BusinessRow], NEW b \in Businesses,
         NEW p \in Goals, NEW S \in SUBSET Positions,
         business' = [business EXCEPT ![b].status = "ready", ![b].goal = p, ![b].asks = FALSE,
                              ![b].words = S, ![b].goalSubmitted = FALSE]
  PROVE  BusinessBecomes(b, "ready", business[b].active, FALSE, p, S)
<1> DEFINE w == [business[b] EXCEPT !.status = "ready", !.goal = p, !.asks = FALSE, !.words = S,
                             !.goalSubmitted = FALSE]
<1>1. business[b] \in BusinessRow
  OBVIOUS
<1>2. /\ w \in BusinessRow
      /\ w.status = "ready" /\ w.active = business[b].active /\ w.goalSubmitted = FALSE
      /\ w.goal = p /\ w.words = S
  BY <1>1 DEF BusinessRow
<1>3. business' = [business EXCEPT ![b] = w]
  BY <1>1 DEF BusinessRow
<1> HIDE DEF w
<1>4. \A d \in Businesses : business'[d] = IF d = b THEN w ELSE business[d]
  BY <1>3
<1>5. business' \in [Businesses -> BusinessRow]
  BY <1>2, <1>3
<1> QED
  BY <1>2, <1>4, <1>5 DEF BusinessBecomes

\* What the handlers write in the row of a run.
LEMMA RunMoved ==
  ASSUME run \in [Runs -> RunRow], NEW r \in Runs, NEW s \in RowStatuses,
         \/ run' = [run EXCEPT ![r].status = s]
         \/ \E x \in BOOLEAN : run' = [run EXCEPT ![r].status = s, ![r].stop = x]
         \/ \E p \in {0} \cup Positions :
              run' = [run EXCEPT ![r].status = s, ![r].continued = TRUE, ![r].revised = p]
  PROVE  RunBecomes(r, s, run[r].business, run[r].goal, run[r].words, run[r].touched)
<1> DEFINE Moved(w) == /\ w \in RunRow /\ w.status = s
                       /\ w.business = run[r].business /\ w.goal = run[r].goal
                       /\ w.words = run[r].words /\ w.touched = run[r].touched
<1>1. run[r] \in RunRow
  OBVIOUS
<1>2. Moved([run[r] EXCEPT !.status = s])
  BY <1>1 DEF RunRow, RowStatuses
<1>3. \A x \in BOOLEAN : Moved([run[r] EXCEPT !.status = s, !.stop = x])
  BY <1>1 DEF RunRow, RowStatuses
<1>4. \A p \in {0} \cup Positions :
        Moved([run[r] EXCEPT !.status = s, !.continued = TRUE, !.revised = p])
  BY <1>1 DEF RunRow, RowStatuses
<1>5. \E w : Moved(w) /\ run' = [run EXCEPT ![r] = w]
  <2>1. CASE run' = [run EXCEPT ![r].status = s]
    BY <1>2, <2>1
  <2>2. ASSUME NEW x \in BOOLEAN, run' = [run EXCEPT ![r].status = s, ![r].stop = x]
        PROVE  \E w : Moved(w) /\ run' = [run EXCEPT ![r] = w]
    <3>1. run' = [run EXCEPT ![r] = [run[r] EXCEPT !.status = s, !.stop = x]]
      BY <1>1, <2>2 DEF RunRow
    <3> QED
      BY <1>3, <3>1
  <2>3. ASSUME NEW p \in {0} \cup Positions,
               run' = [run EXCEPT ![r].status = s, ![r].continued = TRUE, ![r].revised = p]
        PROVE  \E w : Moved(w) /\ run' = [run EXCEPT ![r] = w]
    <3>1. run' = [run EXCEPT ![r] = [run[r] EXCEPT !.status = s, !.continued = TRUE, !.revised = p]]
      BY <1>1, <2>3 DEF RunRow
    <3> QED
      BY <1>4, <3>1
  <2> QED
    BY <2>1, <2>2, <2>3
<1> QED
  BY <1>5 DEF RunBecomes

LEMMA RunBegun ==
  ASSUME run \in [Runs -> RunRow], NEW r \in Runs, NEW s \in RowStatuses,
         NEW b \in Businesses, NEW p \in Goals, NEW S \in SUBSET Goals,
         \/ run' = [run EXCEPT ![r].status = s, ![r].business = b, ![r].goal = p, ![r].words = S]
         \/ /\ run' = [run EXCEPT ![r].status = s, ![r].business = b, ![r].goal = p]
            /\ S = run[r].words
  PROVE  RunBecomes(r, s, b, p, S, run[r].touched)
<1> DEFINE Started(w) == /\ w \in RunRow /\ w.status = s /\ w.business = b /\ w.goal = p
                         /\ w.words = S /\ w.touched = run[r].touched
<1>1. run[r] \in RunRow
  OBVIOUS
<1>2. Started([run[r] EXCEPT !.status = s, !.business = b, !.goal = p, !.words = S])
  BY <1>1 DEF RunRow, RowStatuses
<1>3. S = run[r].words => Started([run[r] EXCEPT !.status = s, !.business = b, !.goal = p])
  BY <1>1 DEF RunRow, RowStatuses
<1>4. \E w : Started(w) /\ run' = [run EXCEPT ![r] = w]
  <2>1. CASE run' = [run EXCEPT ![r].status = s, ![r].business = b, ![r].goal = p, ![r].words = S]
    <3>1. run' = [run EXCEPT ![r] = [run[r] EXCEPT !.status = s, !.business = b, !.goal = p,
                                            !.words = S]]
      BY <1>1, <2>1 DEF RunRow
    <3> QED
      BY <1>2, <3>1
  <2>2. CASE run' = [run EXCEPT ![r].status = s, ![r].business = b, ![r].goal = p]
        /\ S = run[r].words
    <3>1. run' = [run EXCEPT ![r] = [run[r] EXCEPT !.status = s, !.business = b, !.goal = p]]
      BY <1>1, <2>2 DEF RunRow
    <3> QED
      BY <1>3, <2>2, <3>1
  <2> QED
    BY <2>1, <2>2
<1> QED
  BY <1>4 DEF RunBecomes

LEMMA RunTouched ==
  ASSUME run \in [Runs -> RunRow], NEW r \in Runs, run' = [run EXCEPT ![r].touched = TRUE]
  PROVE  RunBecomes(r, run[r].status, run[r].business, run[r].goal, run[r].words, TRUE)
  BY DEF RunRow, RunBecomes

\* The tables of a typed state.
LEMMA Tables ==
  ASSUME TypeOK
  PROVE  /\ conv \in [Convs -> ConvRow]
         /\ business \in [Businesses -> BusinessRow]
         /\ run \in [Runs -> RunRow]
  BY DEF TypeOK, ConvRow, BusinessRow, RunRow

LEMMA TypedByTables ==
  ASSUME messages' \in Seq(Message),
         conv' \in [Convs -> ConvRow],
         business' \in [Businesses -> BusinessRow],
         run' \in [Runs -> RunRow],
         session' \in Jobs \cup {NoJob},
         procs' \subseteq Jobs,
         worker' \in [Jobs -> {"none", "exit0", "exit1"} \cup Alive],
         pipe' \in [Convs -> Seq(Businesses \cup {NoBusiness})],
         told' \in [Businesses -> SUBSET Goals]
  PROVE  TypeOK'
  BY DEF TypeOK, ConvRow, BusinessRow, RunRow

\* What a job is called, and what happens to its process.
LEMMA JobFacts ==
  /\ \A c \in Convs : <<"conv", c>> \in Jobs /\ <<"conv", c>> # NoJob
  /\ \A r \in Runs : <<"run", r>> \in Jobs /\ <<"run", r>> # NoJob
  /\ \A c \in Convs, r \in Runs : <<"conv", c>> # <<"run", r>>
  /\ \A c, d \in Convs : <<"conv", c>> = <<"conv", d>> => c = d
  /\ \A q, r \in Runs : <<"run", q>> = <<"run", r>> => q = r
  /\ \A r \in Runs : r \in Nat /\ r # 0
  BY DEF Jobs, NoJob, Runs

\* An idle session.
LEMMA IdleFacts ==
  ASSUME TypeOK, Idle
  PROVE  /\ procs = {} /\ session = NoJob
         /\ \A d \in Convs : conv[d].status \notin Active
         /\ \A r \in Runs : run[r].status \notin Active
<1>1. <<"run", 0>> \notin Jobs /\ <<"run", 0>> # NoJob
  BY DEF Jobs, Runs, NoJob
<1>2. \A r \in Runs : r \in Runs \ {0}
  BY JobFacts
<1>3. /\ procs = {} /\ session \in {NoJob, <<"run", 0>>}
      /\ \A d \in Convs : conv[d].status \notin Active
      /\ \A r \in Runs \ {0} : run[r].status \notin Active
  BY DEF Idle, IdleBut
<1>4. session \in Jobs \cup {NoJob}
  BY DEF TypeOK
<1> QED
  BY <1>1, <1>2, <1>3, <1>4

LEMMA OpenFacts ==
  ASSUME TypeOK, NEW j \in Jobs, Open(j)
  PROVE  /\ procs' \subseteq Jobs
         /\ worker' \in [Jobs -> {"none", "exit0", "exit1"} \cup Alive]
         /\ OneJob => \A k \in Jobs : worker'[k] # "none" <=> k \in procs'
  BY DEF TypeOK, Open, Alive, OneJob

LEMMA CollectedFacts ==
  ASSUME TypeOK, NEW j \in Jobs, Collected(j)
  PROVE  /\ procs' \subseteq Jobs
         /\ worker' \in [Jobs -> {"none", "exit0", "exit1"} \cup Alive]
         /\ OneJob => \A k \in Jobs : worker'[k] # "none" <=> k \in procs'
  BY DEF TypeOK, Collected, OneJob

-----------------------------------------------------------------------------
(* Steps that say, propose and confirm nothing.                            *)

\* The messages ns are those of ms and notes to businesses: what was there keeps all
\* but its marks and the cards that are closed.
Kept(ms, ns) ==
  /\ DOMAIN ms \subseteq DOMAIN ns
  /\ \A i \in DOMAIN ms :
       /\ ns[i].role = ms[i].role
       /\ ms[i].role = "user" => ns[i].business = ms[i].business
       /\ ms[i].role = "proposal" =>
            /\ ns[i].conv = ms[i].conv /\ ns[i].target = ms[i].target
            /\ ns[i].sources = ms[i].sources
            /\ ns[i].status = "confirmed" <=> ms[i].status = "confirmed"
  /\ \A i \in DOMAIN ns \ DOMAIN ms : ns[i].role = "user" /\ ns[i].business # NoBusiness

LEMMA KeptFacts ==
  ASSUME Kept(messages, messages')
  PROVE  /\ Users \subseteq Users' /\ Proposals' = Proposals /\ Confirmed' = Confirmed
         /\ Spoken' = Spoken
         /\ \A p \in Proposals :
              /\ messages'[p].conv = messages[p].conv
              /\ messages'[p].target = messages[p].target
              /\ messages'[p].sources = messages[p].sources
<1>1. "user" # "proposal"
  OBVIOUS
<1>2. Users \subseteq Users'
  BY DEF Kept, Users, IsUser
<1>3. Proposals' = Proposals
  BY <1>1 DEF Kept, Proposals, IsProposal
<1>4. \A p \in Proposals : /\ messages'[p].conv = messages[p].conv
                           /\ messages'[p].target = messages[p].target
                           /\ messages'[p].sources = messages[p].sources
                           /\ messages'[p].status = "confirmed" <=> messages[p].status = "confirmed"
  BY DEF Kept, Proposals, IsProposal
<1>5. Spoken' = Spoken
  BY DEF Kept, Spoken, Users, IsUser
<1> QED
  BY <1>2, <1>3, <1>4, <1>5 DEF Confirmed

LEMMA KeptSame == Kept(messages, messages)
  BY DEF Kept

LEMMA Quiet ==
  ASSUME IInv, Kept(messages, messages'),
         \A c \in Convs : /\ conv'[c].proposals = conv[c].proposals
                          /\ conv'[c].sources = conv[c].sources
                          /\ conv[c].status = "completed" => conv'[c].status = "completed"
                          /\ <<"conv", c>> \in procs' => <<"conv", c>> \in procs,
         \A b \in Businesses : /\ business'[b].goal = business[b].goal
                               /\ business'[b].words = business[b].words
                               /\ Known(b) => Known(b)'
  PROVE  TalkInv'
<1> USE DEF IInv, TalkInv
<1>0. /\ Users \subseteq Users' /\ Proposals' = Proposals /\ Confirmed' = Confirmed
      /\ Spoken' = Spoken /\ DOMAIN messages \subseteq DOMAIN messages'
      /\ \A p \in Proposals :
           /\ messages'[p].conv = messages[p].conv
           /\ messages'[p].target = messages[p].target
           /\ messages'[p].sources = messages[p].sources
  BY KeptFacts DEF Kept
<1>1. \A p \in Proposals : /\ messages[p].conv \in Convs
                           /\ messages[p].target \in Businesses \cup {NoBusiness}
  BY MessageFacts, ElementOfSeq DEF TypeOK, Proposals, IsProposal
<1>2. Confirmed \subseteq Proposals
  BY DEF Confirmed
<1>3. Listed'
  <2>1. ASSUME NEW c \in Convs
        PROVE  LET ps == conv'[c].proposals
               IN  /\ \A k \in DOMAIN ps : ps[k] \in Proposals' /\ messages'[ps[k]].conv = c
                   /\ \A k, l \in DOMAIN ps : k < l => ps[k] < ps[l]
    <3> DEFINE ps == conv'[c].proposals
    <3>1. ps = conv[c].proposals
      OBVIOUS
    <3> HIDE DEF ps
    <3>2. /\ \A k \in DOMAIN ps : ps[k] \in Proposals /\ messages[ps[k]].conv = c
          /\ \A k, l \in DOMAIN ps : k < l => ps[k] < ps[l]
      BY <3>1 DEF Listed
    <3>3. /\ \A k \in DOMAIN ps : ps[k] \in Proposals' /\ messages'[ps[k]].conv = c
          /\ \A k, l \in DOMAIN ps : k < l => ps[k] < ps[l]
      BY <1>0, <3>2
    <3> QED
      BY <3>3 DEF ps
  <2>2. ASSUME NEW p \in Proposals
        PROVE  p \in Range(conv'[messages'[p].conv].proposals)
    <3>1. p \in Range(conv[messages[p].conv].proposals)
      BY DEF Listed
    <3>2. conv'[messages'[p].conv].proposals = conv[messages[p].conv].proposals
      BY <1>0, <1>1
    <3> QED
      BY <3>1, <3>2
  <2> QED
    BY <1>0, <2>1, <2>2 DEF Listed
<1>4. SourcesBefore'
  BY <1>0 DEF SourcesBefore
<1>5. SpokenBetween'
  BY <1>0 DEF SpokenBetween
<1>6. WordsCovered'
  BY <1>0 DEF WordsCovered
<1>7. TargetsKnown'
  BY <1>0, <1>1 DEF TargetsKnown
<1>8. GoalsConfirmed'
  BY <1>0 DEF GoalsConfirmed
<1>9. OneGoalPerConversation'
  BY <1>0, <1>1, <1>2 DEF OneGoalPerConversation
<1>10. GoalIsNewest'
  BY <1>0, <1>2 DEF GoalIsNewest
<1> QED
  BY <1>3, <1>4, <1>5, <1>6, <1>7, <1>8, <1>9, <1>10

\* Steps that leave the runs alone, and the marks of the words there were.
LEMMA RunsAlone ==
  ASSUME IInv, run' = run, messages' \in Seq(Message),
         DOMAIN messages \subseteq DOMAIN messages',
         \A i \in DOMAIN messages : i \in Users' => i \in Users /\ messages'[i].by = messages[i].by,
         \A r \in Runs : <<"run", r>> \in procs' => <<"run", r>> \in procs,
         \A b \in Businesses : /\ business'[b].goal = business[b].goal
                               /\ business'[b].goalSubmitted = business[b].goalSubmitted
                               /\ Known(b) => Known(b)'
  PROVE  RunInv'
<1> USE DEF IInv, RunInv
<1>1. RunsBegun'
  BY DEF RunsBegun
<1>2. \A r \in Runs : run[r].status # "absent" => run[r].business \in Businesses
  BY DEF RunsBegun
<1>3. LatestRunsGoal'
  BY DEF LatestRunsGoal
<1>4. RunsWorkTheConfirmedGoal'
  BY <1>2 DEF RunsWorkTheConfirmedGoal, Active
<1>5. WordsMarked'
  <2>1. ASSUME NEW r \in Runs, Retired(r)
        PROVE  Retired(r)'
    BY <1>2, <2>1 DEF Retired
  <2>2. \A r \in Runs : \A i \in run[r].words : i \in Users' => i \in DOMAIN messages
    <3>1. 0 \notin Users'
      BY DEF Users
    <3> QED
      BY <3>1 DEF RunsBegun
  <2> QED
    BY <2>1, <2>2 DEF WordsMarked
<1> QED
  BY <1>1, <1>3, <1>4, <1>5

\* A note is added; a card is closed.
LEMMA NoteFacts ==
  ASSUME TypeOK, NEW b \in Businesses, NEW r \in {0} \cup Runs, NEW ms,
         ms = Append(messages, User(b, r))
  PROVE  /\ ms \in Seq(Message) /\ Kept(messages, ms)
         /\ DOMAIN ms = DOMAIN messages \cup {Len(messages) + 1}
         /\ Len(messages) + 1 \in Positions
         /\ Len(messages) + 1 \notin DOMAIN messages
         /\ \A i \in DOMAIN messages : ms[i] = messages[i]
         /\ ms[Len(messages) + 1].by = r
<1>1. /\ User(b, r) \in Message
      /\ User(b, r).role = "user" /\ User(b, r).business = b /\ User(b, r).by = r
  BY UserMessage
<1>2. messages \in Seq(Message) /\ b # NoBusiness
  BY ConversationAssumption DEF TypeOK
<1>3. /\ ms \in Seq(Message)
      /\ DOMAIN ms = DOMAIN messages \cup {Len(messages) + 1}
      /\ Len(messages) + 1 \in Positions
      /\ \A i \in DOMAIN messages : ms[i] = messages[i]
      /\ ms[Len(messages) + 1] = User(b, r)
  BY <1>1, <1>2, AppendFacts
<1>4. Len(messages) + 1 \notin DOMAIN messages
  BY <1>2
<1>5. Kept(messages, ms)
  BY <1>1, <1>2, <1>3 DEF Kept
<1> QED
  BY <1>1, <1>3, <1>4, <1>5

LEMMA SendNoteStep ==
  ASSUME IInv, NEW b \in Businesses, SendNote(b)
  PROVE  IInv'
<1> USE DEF IInv
<1>0. /\ messages' = Append(messages, User(b, 0)) /\ 0 \in {0} \cup Runs
      /\ UNCHANGED <<conv, business, run, session, procs, worker, pipe, told>>
  BY DEF SendNote
<1>1. /\ messages' \in Seq(Message) /\ Kept(messages, messages')
      /\ \A i \in DOMAIN messages : messages'[i] = messages[i]
  <2>1. messages' \in Seq(Message) /\ Kept(messages, messages')
    BY <1>0, NoteFacts
  <2>2. \A i \in DOMAIN messages : messages'[i] = messages[i]
    BY <1>0, NoteFacts
  <2> QED
    BY <2>1, <2>2
<1>2. TypeOK'
  BY <1>0, <1>1 DEF TypeOK
<1>3. SessionNamesItsJob' /\ OneJob'
  BY <1>0, <1>1 DEF SessionNamesItsJob, OneJob
<1>4. TalkInv'
  BY <1>0, <1>1, Quiet DEF Known
<1>5. RunInv'
  <2>1. \A i \in DOMAIN messages :
          i \in Users' => i \in Users /\ messages'[i].by = messages[i].by
    BY <1>1 DEF Users, IsUser
  <2> QED
    BY <1>0, <1>1, <2>1, RunsAlone DEF Known, Kept
<1> QED
  BY <1>2, <1>3, <1>4, <1>5

LEMMA RejectStep ==
  ASSUME IInv, NEW p \in DOMAIN messages, Reject(p)
  PROVE  IInv'
<1> USE DEF IInv
<1>1. UNCHANGED <<conv, business, run, session, procs, worker, pipe, told>>
  BY DEF Reject
<1>2. /\ messages' = [messages EXCEPT ![p].status = "rejected"]
      /\ messages[p].role = "proposal" /\ messages[p].status = "pending"
      /\ messages \in Seq(Message) /\ "rejected" \in {"confirmed", "rejected"}
  BY DEF Reject, Proposals, IsProposal, TypeOK
<1>3. /\ messages' \in Seq(Message)
      /\ DOMAIN messages' = DOMAIN messages
      /\ \A i \in DOMAIN messages :
           IF i = p
           THEN /\ messages'[i].role = "proposal" /\ messages'[i].conv = messages[i].conv
                /\ messages'[i].target = messages[i].target
                /\ messages'[i].sources = messages[i].sources
                /\ messages'[i].status = "rejected"
           ELSE messages'[i] = messages[i]
  <2>1. messages' \in Seq(Message) /\ DOMAIN messages' = DOMAIN messages
    BY <1>2, CardFacts
  <2>2. \A i \in DOMAIN messages :
          IF i = p
          THEN /\ messages'[i].role = "proposal" /\ messages'[i].conv = messages[i].conv
               /\ messages'[i].target = messages[i].target
               /\ messages'[i].sources = messages[i].sources
               /\ messages'[i].status = "rejected"
          ELSE messages'[i] = messages[i]
    BY <1>2, CardFacts
  <2> QED
    BY <2>1, <2>2
<1>4. Kept(messages, messages')
  BY <1>2, <1>3 DEF Kept
<1>5. TypeOK'
  BY <1>1, <1>3 DEF TypeOK
<1>6. SessionNamesItsJob' /\ OneJob'
  BY <1>1 DEF SessionNamesItsJob, OneJob
<1>7. TalkInv'
  BY <1>1, <1>4, Quiet DEF Known
<1>8. RunInv'
  <2>1. \A i \in DOMAIN messages :
          i \in Users' => i \in Users /\ messages'[i].by = messages[i].by
    BY <1>2, <1>3 DEF Users, IsUser
  <2> QED
    BY <1>1, <1>3, <1>4, <2>1, RunsAlone DEF Known, Kept
<1> QED
  BY <1>5, <1>6, <1>7, <1>8

-----------------------------------------------------------------------------
(* The process of a job, and the end of a conversation.                    *)

\* A worker that prints, prompts or ends.
LEMMA ConvProposesStep ==
  ASSUME IInv, NEW c \in Convs, NEW b \in Businesses \cup {NoBusiness}, ConvProposes(c, b)
  PROVE  IInv'
<1> USE DEF IInv
<1>1. UNCHANGED <<messages, conv, business, run, session, procs, worker, told>>
  BY DEF ConvProposes, hostVars
<1>2. TypeOK'
  <2>1. \A d \in Convs : Append(pipe[d], b) \in Seq(Businesses \cup {NoBusiness})
    BY DEF TypeOK
  <2>2. pipe' \in [Convs -> Seq(Businesses \cup {NoBusiness})]
    BY <2>1 DEF TypeOK, ConvProposes
  <2> QED
    BY <1>1, <2>2 DEF TypeOK
<1>3. SessionNamesItsJob' /\ OneJob'
  BY <1>1 DEF SessionNamesItsJob, OneJob
<1>4. TalkInv'
  BY <1>1, KeptSame, Quiet DEF Known
<1>5. RunInv'
  <2>1. Users' = Users
    BY <1>1 DEF Users, IsUser
  <2>2. messages \in Seq(Message)
    BY DEF TypeOK
  <2> QED
    BY <1>1, <2>1, <2>2, RunsAlone DEF Known
<1> QED
  BY <1>2, <1>3, <1>4, <1>5

LEMMA WorkerStep ==
  ASSUME IInv, NEW j \in Jobs, NEW s \in {"exit0", "exit1"} \cup Alive,
         worker[j] \in Alive, worker' = [worker EXCEPT ![j] = s],
         UNCHANGED <<messages, conv, business, run, session, procs, pipe>>,
         told' \in [Businesses -> SUBSET Goals]
  PROVE  IInv'
<1> USE DEF IInv
<1>1. TypeOK'
  BY DEF TypeOK
<1>2. SessionNamesItsJob'
  BY DEF SessionNamesItsJob
<1>3. OneJob'
  <2>1. worker[j] # "none" /\ s # "none"
    BY DEF Alive
  <2>2. \A k \in Jobs : worker'[k] # "none" <=> k \in procs
    BY <2>1 DEF OneJob, TypeOK
  <2> QED
    BY <2>2 DEF OneJob
<1>4. TalkInv'
  BY KeptSame, Quiet DEF Known
<1>5. RunInv'
  <2>1. Users' = Users
    BY DEF Users, IsUser
  <2>2. messages \in Seq(Message)
    BY DEF TypeOK
  <2> QED
    BY <2>1, <2>2, RunsAlone DEF Known
<1> QED
  BY <1>1, <1>2, <1>3, <1>4, <1>5

LEMMA EndsStep ==
  ASSUME IInv, NEW j \in Jobs, NEW code \in {"exit0", "exit1"}, Ends(j, code)
  PROVE  IInv'
<1>1. told' \in [Businesses -> SUBSET Goals]
  BY DEF IInv, TypeOK, Ends
<1> QED
  BY <1>1, WorkerStep DEF Ends, hostVars

LEMMA RunPromptsStep ==
  ASSUME IInv, NEW r \in Runs, RunPrompts(r)
  PROVE  IInv'
<1> DEFINE b == run[r].business
           text == IF ~run[r].continued THEN run[r].words ELSE {run[r].revised} \ {0}
<1>1. text \in SUBSET Goals
  <2>1. run[r] \in RunRow
    BY Tables DEF IInv
  <2> QED
    BY <2>1 DEF RunRow, Goals, Positions
<1>2. told' \in [Businesses -> SUBSET Goals]
  <2>1. told' = [told EXCEPT ![b] = @ \cup text] /\ told \in [Businesses -> SUBSET Goals]
    BY DEF RunPrompts, IInv, TypeOK
  <2> HIDE DEF text, b
  <2> QED
    BY <1>1, <2>1
<1>3. /\ <<"run", r>> \in Jobs
      /\ worker[<<"run", r>>] \in Alive
      /\ worker' = [worker EXCEPT ![<<"run", r>>] = "prompted"] /\ "prompted" \in Alive
      /\ UNCHANGED <<messages, conv, business, run, session, procs, pipe>>
  BY JobFacts DEF RunPrompts, hostVars, Alive
<1> QED
  BY <1>2, <1>3, WorkerStep

\* The end of a conversation.
LEMMA ConvCollectedStep ==
  ASSUME IInv, NEW c \in Convs, ConvCollected(c)
  PROVE  IInv'
<1> USE DEF IInv
<1> DEFINE j == <<"conv", c>>
           status == IF conv[c].stop THEN "cancelled"
                     ELSE IF worker[j] = "exit0" THEN "completed" ELSE "failed"
<1>1. /\ j \in procs /\ j \in Jobs /\ Collected(j)
      /\ conv' = [conv EXCEPT ![c].status = status, ![c].stop = FALSE]
      /\ session' = IF session = j THEN NoJob ELSE session
      /\ UNCHANGED <<messages, business, run, pipe, told>>
  BY JobFacts DEF ConvCollected, ConvFinal
<1>2. status \in RowStatuses /\ status \notin Active
  BY DEF RowStatuses, Active, Ended, Resumable
<1>3. /\ conv' \in [Convs -> ConvRow]
      /\ \A d \in Convs : d # c => conv'[d] = conv[d]
      /\ conv'[c].status = status /\ conv'[c].sources = conv[c].sources
      /\ conv'[c].proposals = conv[c].proposals
  <2>1. conv \in [Convs -> ConvRow]
    BY Tables
  <2> HIDE DEF status, IInv
  <2>2. ConvBecomes(c, status, conv[c].sources, conv[c].proposals)
    BY <1>1, <1>2, <2>1, ConvMoved
  <2> QED
    BY <2>2 DEF ConvBecomes
<1>4. /\ procs' \subseteq Jobs
      /\ worker' \in [Jobs -> {"none", "exit0", "exit1"} \cup Alive]
      /\ \A k \in Jobs : worker'[k] # "none" <=> k \in procs'
  BY <1>1, CollectedFacts
<1>5. procs' = {}
  BY <1>1 DEF Collected, OneJob
<1>6. /\ \A d \in Convs : d # c => conv[d].status \notin Active
      /\ \A r \in Runs : run[r].status \notin Active
      /\ conv[c].status \notin {"absent", "completed"}
  BY <1>1, JobFacts DEF OneJob
<1> HIDE DEF status
<1>7. TypeOK'
  <2>1. session' \in Jobs \cup {NoJob}
    BY <1>1 DEF TypeOK
  <2>2. /\ messages' \in Seq(Message) /\ told' \in [Businesses -> SUBSET Goals]
        /\ pipe' \in [Convs -> Seq(Businesses \cup {NoBusiness})]
    BY <1>1 DEF TypeOK
  <2> QED
    BY <1>1, <1>3, <1>4, <2>1, <2>2, Tables, TypedByTables
<1>8. SessionNamesItsJob'
  BY <1>1, <1>2, <1>3, <1>6 DEF SessionNamesItsJob
<1>9. OneJob'
  BY <1>1, <1>4, <1>5 DEF OneJob
<1>10. TalkInv'
  BY <1>1, <1>3, <1>5, <1>6, KeptSame, Quiet DEF Known
<1>11. RunInv'
  <2>1. Users' = Users
    BY <1>1 DEF Users, IsUser
  <2>2. messages \in Seq(Message)
    BY DEF TypeOK
  <2> QED
    BY <1>1, <1>5, <2>1, <2>2, RunsAlone DEF Known
<1> QED
  BY <1>7, <1>8, <1>9, <1>10, <1>11

LEMMA CancelConvStep ==
  ASSUME IInv, NEW c \in Convs, CancelConv(c)
  PROVE  IInv'
<1> USE DEF IInv
<1> DEFINE j == <<"conv", c>>
<1>1. /\ conv[c].status \in Active
      /\ UNCHANGED <<messages, business, run, procs, worker, pipe, told>>
  BY DEF CancelConv, Active
<1>2. /\ \A d \in Convs : d # c => conv[d].status \notin Active
      /\ \A r \in Runs : run[r].status \notin Active
      /\ session = j
  BY <1>1, JobFacts DEF SessionNamesItsJob
<1>3. \/ /\ ConvBecomes(c, "cancel_requested", conv[c].sources, conv[c].proposals)
         /\ UNCHANGED session
      \/ /\ ConvBecomes(c, "cancelled", conv[c].sources, conv[c].proposals)
         /\ session' = NoJob
  <2>1. conv \in [Convs -> ConvRow] /\ {"cancel_requested", "cancelled"} \subseteq RowStatuses
    BY Tables DEF RowStatuses, Active, Ended, Resumable
  <2>2. CASE /\ conv' = [conv EXCEPT ![c].status = "cancel_requested", ![c].stop = TRUE]
             /\ UNCHANGED session
    BY <2>1, <2>2, ConvMoved
  <2>3. CASE ConvFinal(c, "cancelled")
    BY <1>2, <2>1, <2>3, ConvMoved DEF ConvFinal
  <2> QED
    BY <2>2, <2>3 DEF CancelConv
<1>4. /\ conv' \in [Convs -> ConvRow]
      /\ \A d \in Convs : d # c => conv'[d] = conv[d]
      /\ conv'[c].sources = conv[c].sources /\ conv'[c].proposals = conv[c].proposals
      /\ \/ conv'[c].status = "cancel_requested" /\ session' = j
         \/ conv'[c].status = "cancelled" /\ session' = NoJob
  BY <1>2, <1>3 DEF ConvBecomes
<1>5. TypeOK'
  <2>1. /\ messages' \in Seq(Message) /\ told' \in [Businesses -> SUBSET Goals]
        /\ pipe' \in [Convs -> Seq(Businesses \cup {NoBusiness})]
        /\ worker' \in [Jobs -> {"none", "exit0", "exit1"} \cup Alive] /\ procs' \subseteq Jobs
    BY <1>1 DEF TypeOK
  <2> QED
    BY <1>1, <1>4, <2>1, Tables, TypedByTables, JobFacts
<1>6. SessionNamesItsJob'
  BY <1>1, <1>2, <1>4 DEF SessionNamesItsJob, Active
<1>7. OneJob'
  <2>1. conv[c].status \in Active /\ procs \subseteq {j}
    BY <1>1 DEF OneJob
  <2> QED
    BY <1>1, <1>2, <1>4, <2>1 DEF OneJob, Active
<1>8. TalkInv'
  BY <1>1, <1>4, KeptSame, Quiet DEF Known, Active
<1>9. RunInv'
  <2>1. Users' = Users
    BY <1>1 DEF Users, IsUser
  <2>2. messages \in Seq(Message)
    BY DEF TypeOK
  <2> QED
    BY <1>1, <2>1, <2>2, RunsAlone DEF Known
<1> QED
  BY <1>5, <1>6, <1>7, <1>8, <1>9

-----------------------------------------------------------------------------
(* A proposal is shown.                                                    *)

\* What the messages are after the card n of the conversation c.
CardAdded(n, c, target, sources) ==
  /\ messages' \in Seq(Message)
  /\ n \notin DOMAIN messages /\ DOMAIN messages' = DOMAIN messages \cup {n}
  /\ Users' = Users /\ Spoken' = Spoken /\ Confirmed' = Confirmed
  /\ Proposals' = Proposals \cup {n}
  /\ \A p \in Proposals : /\ messages'[p].conv = messages[p].conv
                          /\ messages'[p].target = messages[p].target
                          /\ messages'[p].sources = messages[p].sources
  /\ messages'[n].conv = c /\ messages'[n].target = target /\ messages'[n].sources = sources
  /\ \A i \in Users : messages'[i] = messages[i]

LEMMA CardIsAdded ==
  ASSUME TypeOK, Listed, NEW c \in Convs, NEW target \in Businesses \cup {NoBusiness},
         NEW sources \in SUBSET Positions,
         messages' = Append(Supersede(messages, c),
                            [role |-> "proposal", conv |-> c, target |-> target,
                             sources |-> sources, status |-> "pending"])
  PROVE  CardAdded(Len(messages) + 1, c, target, sources)
<1> DEFINE n == Len(messages) + 1
           sup == Supersede(messages, c)
           row == [role |-> "proposal", conv |-> c, target |-> target,
                   sources |-> sources, status |-> "pending"]
<1>1. messages \in Seq(Message) /\ "user" # "proposal"
  BY DEF TypeOK
<1>2. \A i \in DOMAIN messages :
        i \in Range(conv[c].proposals) => messages[i].role = "proposal"
  BY DEF Listed, Range, Proposals, IsProposal
<1>3. /\ sup \in Seq(Message) /\ DOMAIN sup = DOMAIN messages /\ Len(sup) = Len(messages)
      /\ \A i \in DOMAIN messages :
           \/ sup[i] = messages[i]
           \/ /\ messages[i].role = "proposal" /\ messages[i].status = "pending"
              /\ sup[i].role = "proposal" /\ sup[i].conv = messages[i].conv
              /\ sup[i].target = messages[i].target /\ sup[i].sources = messages[i].sources
              /\ sup[i].status = "superseded"
  <2>1. sup \in Seq(Message) /\ DOMAIN sup = DOMAIN messages /\ Len(sup) = Len(messages)
    BY <1>1, <1>2, SupersedeFacts
  <2>2. \A i \in DOMAIN messages :
          \/ sup[i] = messages[i]
          \/ /\ messages[i].role = "proposal" /\ messages[i].status = "pending"
             /\ sup[i].role = "proposal" /\ sup[i].conv = messages[i].conv
             /\ sup[i].target = messages[i].target /\ sup[i].sources = messages[i].sources
             /\ sup[i].status = "superseded"
    BY <1>1, <1>2, SupersedeFacts
  <2> QED
    BY <2>1, <2>2
<1>4. /\ row \in Message /\ row.role = "proposal" /\ row.conv = c /\ row.target = target
      /\ row.sources = sources /\ row.status = "pending"
  BY DEF Message
<1>5. /\ messages' \in Seq(Message) /\ DOMAIN messages' = DOMAIN messages \cup {n}
      /\ messages'[n] = row
      /\ \A i \in DOMAIN messages : messages'[i] = sup[i]
  <2> HIDE DEF sup, row
  <2>1. messages' = Append(sup, row)
    BY DEF sup, row
  <2>2. messages' \in Seq(Message) /\ DOMAIN messages' = DOMAIN messages \cup {n}
    BY <1>3, <1>4, <2>1, AppendFacts, ZenonT(40)
  <2>3. messages'[n] = row
    BY <1>3, <1>4, <2>1, AppendFacts
  <2>4. \A i \in DOMAIN messages : messages'[i] = sup[i]
    BY <1>3, <1>4, <2>1, AppendFacts
  <2> QED
    BY <2>2, <2>3, <2>4
<1>6. n \notin DOMAIN messages
  BY <1>1
<1> HIDE DEF n, sup, row
<1>7. Users' = Users /\ \A i \in Users : messages'[i] = messages[i]
  <2>1. \A i \in DOMAIN messages :
          /\ messages'[i].role = messages[i].role
          /\ messages[i].role = "user" => messages'[i] = messages[i]
    BY <1>1, <1>3, <1>5
  <2>2. messages'[n].role # "user"
    BY <1>1, <1>4, <1>5
  <2> QED
    BY <1>5, <2>1, <2>2 DEF Users, IsUser
<1>8. Spoken' = Spoken
  BY <1>7 DEF Spoken
<1>9. Proposals' = Proposals \cup {n}
  BY <1>3, <1>4, <1>5 DEF Proposals, IsProposal
<1>10. /\ \A p \in Proposals : /\ messages'[p].conv = messages[p].conv
                               /\ messages'[p].target = messages[p].target
                               /\ messages'[p].sources = messages[p].sources
                               /\ messages'[p].status = "confirmed"
                                    <=> messages[p].status = "confirmed"
  BY <1>3, <1>5 DEF Proposals
<1>11. Confirmed' = Confirmed
  BY <1>4, <1>5, <1>9, <1>10 DEF Confirmed
<1>12. CardAdded(n, c, target, sources)
  BY <1>4, <1>5, <1>6, <1>7, <1>8, <1>9, <1>10, <1>11 DEF CardAdded
<1> QED
  BY <1>12 DEF n

\* The card comes after all that was said, of the one conversation that is under way.
LEMMA ShownTalk ==
  ASSUME IInv, NEW c \in Convs, NEW target \in Businesses \cup {NoBusiness}, NEW n,
         n = Len(messages) + 1,
         target # NoBusiness => Known(target),
         CardAdded(n, c, target, conv[c].sources),
         ConvBecomes(c, conv[c].status, conv[c].sources, Append(conv[c].proposals, n)),
         <<"conv", c>> \in procs, UNCHANGED <<business, procs>>
  PROVE  TalkInv'
<1> USE DEF IInv, TalkInv
<1>1. /\ n \in Nat /\ n \notin Proposals /\ DOMAIN messages' = DOMAIN messages \cup {n}
      /\ \A i \in DOMAIN messages : i \in Nat /\ i < n
  BY DEF TypeOK, CardAdded, Proposals
<1>2. /\ Users' = Users /\ Spoken' = Spoken /\ Confirmed' = Confirmed
      /\ Proposals' = Proposals \cup {n}
      /\ \A p \in Proposals : /\ messages'[p].conv = messages[p].conv
                              /\ messages'[p].target = messages[p].target
                              /\ messages'[p].sources = messages[p].sources
      /\ messages'[n].conv = c /\ messages'[n].target = target
      /\ messages'[n].sources = conv[c].sources
  BY DEF CardAdded
<1>3. /\ \A d \in Convs : d # c => conv'[d] = conv[d]
      /\ conv'[c].status = conv[c].status /\ conv'[c].sources = conv[c].sources
      /\ conv'[c].proposals = Append(conv[c].proposals, n)
  BY DEF ConvBecomes
<1>4. /\ Users \subseteq DOMAIN messages /\ Proposals \subseteq DOMAIN messages
      /\ Confirmed \subseteq Proposals /\ Spoken \subseteq Users
  BY DEF Users, Proposals, Confirmed, Spoken
<1>5. \A p \in Proposals : /\ messages[p].conv \in Convs
                           /\ messages[p].target \in Businesses \cup {NoBusiness}
  BY MessageFacts, ElementOfSeq DEF TypeOK, Proposals, IsProposal
<1>6. /\ \A d \in Convs : <<"conv", d>> \in procs => d = c
      /\ conv[c].status # "completed"
  BY JobFacts DEF OneJob
<1>7. Listed'
  <2> DEFINE ps == conv[c].proposals
             qs == Append(ps, n)
  <2>1. /\ \A k \in DOMAIN ps : ps[k] \in Proposals /\ messages[ps[k]].conv = c
        /\ \A k, l \in DOMAIN ps : k < l => ps[k] < ps[l]
    BY DEF Listed
  <2>2. ps \in Seq(Positions)
    BY Tables DEF ConvRow
  <2>3. /\ DOMAIN ps = 1..Len(ps) /\ Len(ps) \in Nat
        /\ DOMAIN qs = 1..Len(ps) + 1
        /\ qs[Len(ps) + 1] = n
        /\ \A k \in 1..Len(ps) : qs[k] = ps[k]
    BY <2>2
  <2> HIDE DEF ps, qs
  <2>4. \A k \in DOMAIN qs : k \in DOMAIN ps \/ k = Len(ps) + 1
    BY <2>3
  <2>5. \A k \in DOMAIN qs : qs[k] \in Proposals' /\ messages'[qs[k]].conv = c
    BY <1>2, <2>1, <2>3, <2>4
  <2>6. \A k, l \in DOMAIN qs : k < l => qs[k] < qs[l]
    <3> SUFFICES ASSUME NEW k \in DOMAIN qs, NEW l \in DOMAIN qs, k < l
                 PROVE  qs[k] < qs[l]
      OBVIOUS
    <3>1. k \in DOMAIN ps
      BY <2>3
    <3>2. CASE l \in DOMAIN ps
      BY <2>1, <2>3, <3>1, <3>2
    <3>3. CASE l = Len(ps) + 1
      BY <1>1, <1>4, <2>1, <2>3, <3>1, <3>3
    <3> QED
      BY <2>4, <3>2, <3>3
  <2>7. ASSUME NEW d \in Convs
        PROVE  LET rs == conv'[d].proposals
               IN  /\ \A k \in DOMAIN rs : rs[k] \in Proposals' /\ messages'[rs[k]].conv = d
                   /\ \A k, l \in DOMAIN rs : k < l => rs[k] < rs[l]
    <3>1. CASE d = c
      <4>1. conv'[d].proposals = qs
        BY <1>3, <3>1 DEF qs, ps
      <4> QED
        BY <2>5, <2>6, <3>1, <4>1
    <3>2. CASE d # c
      <4> DEFINE rs == conv'[d].proposals
      <4>1. rs = conv[d].proposals
        BY <1>3, <3>2
      <4> HIDE DEF rs
      <4>2. /\ \A k \in DOMAIN rs : rs[k] \in Proposals /\ messages[rs[k]].conv = d
            /\ \A k, l \in DOMAIN rs : k < l => rs[k] < rs[l]
        BY <4>1 DEF Listed
      <4>3. /\ \A k \in DOMAIN rs : rs[k] \in Proposals' /\ messages'[rs[k]].conv = d
            /\ \A k, l \in DOMAIN rs : k < l => rs[k] < rs[l]
        BY <1>2, <4>2
      <4> QED
        BY <4>3 DEF rs
    <3> QED
      BY <3>1, <3>2
  <2>8. ASSUME NEW p \in Proposals'
        PROVE  p \in Range(conv'[messages'[p].conv].proposals)
    <3>1. CASE p = n
      <4>1. conv'[messages'[p].conv].proposals = qs
        BY <1>2, <1>3, <3>1 DEF qs, ps
      <4>2. n \in Range(qs)
        BY <2>3 DEF Range
      <4> QED
        BY <3>1, <4>1, <4>2
    <3>2. CASE p \in Proposals
      <4>1. p \in Range(conv[messages[p].conv].proposals)
        BY <3>2 DEF Listed
      <4>2. CASE messages[p].conv = c
        <5>1. p \in Range(qs)
          <6>1. PICK k \in DOMAIN ps : p = ps[k]
            BY <4>1, <4>2 DEF Range, ps
          <6>2. k \in DOMAIN qs /\ qs[k] = p
            BY <2>3, <6>1
          <6> QED
            BY <6>2 DEF Range
        <5>2. conv'[messages'[p].conv].proposals = qs
          BY <1>2, <1>3, <3>2, <4>2 DEF qs, ps
        <5> QED
          BY <5>1, <5>2
      <4>3. CASE messages[p].conv # c
        <5>1. conv'[messages'[p].conv].proposals = conv[messages[p].conv].proposals
          BY <1>2, <1>3, <1>5, <3>2, <4>3
        <5> QED
          BY <4>1, <5>1
      <4> QED
        BY <4>2, <4>3
    <3> QED
      BY <1>2, <3>1, <3>2
  <2> QED
    BY <2>7, <2>8 DEF Listed
<1>8. SourcesBefore'
  <2>1. \A i \in conv[c].sources : i < n
    BY <1>1 DEF SourcesBefore
  <2> QED
    BY <1>1, <1>2, <1>3, <2>1 DEF SourcesBefore
<1>9. SpokenBetween'
  <2>1. \A p \in Proposals : messages[p].conv # c => \E u \in Users : p < u /\ u < n
    BY <1>1, <1>4 DEF SpokenBetween
  <2>2. \A p, q \in Proposals' : messages'[p].conv # messages'[q].conv /\ p < q
          => \E u \in Users : p < u /\ u < q
    BY <1>1, <1>2, <1>4, <2>1 DEF SpokenBetween
  <2>3. \A d \in Convs : <<"conv", d>> \in procs
          => \A p \in Proposals' : messages'[p].conv # d => \E u \in Users : p < u
    BY <1>2, <1>6 DEF SpokenBetween
  <2> QED
    BY <1>2, <2>2, <2>3 DEF SpokenBetween
<1>10. WordsCovered'
  <2>1. \A i \in Spoken : i \notin conv[c].sources => \E q \in Confirmed : i < q /\ q < n
    BY <1>1, <1>4 DEF WordsCovered
  <2> QED
    BY <1>2, <1>3, <1>6, <2>1 DEF WordsCovered
<1>11. TargetsKnown'
  BY <1>2 DEF TargetsKnown, Known
<1>12. GoalsConfirmed'
  BY <1>2 DEF GoalsConfirmed
<1>13. OneGoalPerConversation'
  <2>1. \A p \in Confirmed : messages[p].conv # c
    BY <1>6 DEF OneGoalPerConversation
  <2> QED
    BY <1>2, <1>3, <1>4, <1>5, <2>1 DEF OneGoalPerConversation
<1>14. GoalIsNewest'
  BY <1>2, <1>4 DEF GoalIsNewest
<1> QED
  BY <1>7, <1>8, <1>9, <1>10, <1>11, <1>12, <1>13, <1>14

LEMMA ConvReadsStep ==
  ASSUME IInv, NEW c \in Convs, ConvReads(c)
  PROVE  IInv'
<1> USE DEF IInv
<1>1. /\ <<"conv", c>> \in procs /\ pipe[c] # <<>>
      /\ pipe' = [pipe EXCEPT ![c] = Tail(@)]
      /\ Shown(c, Head(pipe[c]))
      /\ UNCHANGED <<business, run, session, procs, worker, told>>
  BY DEF ConvReads
<1>2. /\ pipe' \in [Convs -> Seq(Businesses \cup {NoBusiness})]
      /\ Head(pipe[c]) \in Businesses \cup {NoBusiness}
  <2>1. pipe[c] \in Seq(Businesses \cup {NoBusiness})
    BY DEF TypeOK
  <2>2. Tail(pipe[c]) \in Seq(Businesses \cup {NoBusiness})
        /\ Head(pipe[c]) \in Businesses \cup {NoBusiness}
    BY <1>1, <2>1
  <2> QED
    BY <1>1, <2>2 DEF TypeOK
<1>3. /\ messages \in Seq(Message) /\ conv \in [Convs -> ConvRow]
      /\ told' \in [Businesses -> SUBSET Goals]
      /\ business' \in [Businesses -> BusinessRow] /\ run' \in [Runs -> RunRow]
      /\ session' \in Jobs \cup {NoJob}
      /\ worker' \in [Jobs -> {"none", "exit0", "exit1"} \cup Alive] /\ procs' \subseteq Jobs
  BY <1>1, Tables DEF TypeOK
<1>4. CASE UNCHANGED <<messages, conv>>
  <2>1. TypeOK'
    BY <1>2, <1>3, <1>4, TypedByTables
  <2>2. SessionNamesItsJob' /\ OneJob'
    BY <1>1, <1>4 DEF SessionNamesItsJob, OneJob
  <2>3. TalkInv'
    BY <1>1, <1>4, KeptSame, Quiet DEF Known
  <2>4. RunInv'
    <3>1. Users' = Users
      BY <1>4 DEF Users, IsUser
    <3> QED
      BY <1>1, <1>3, <1>4, <3>1, RunsAlone DEF Known
  <2> QED
    BY <2>1, <2>2, <2>3, <2>4
<1>5. CASE ~UNCHANGED <<messages, conv>>
  <2> DEFINE target == IF conv[c].revision # NoBusiness THEN conv[c].revision
                                                        ELSE Head(pipe[c])
             n == Len(messages) + 1
  <2>1. /\ target # NoBusiness => Known(target)
        /\ messages' = Append(Supersede(messages, c),
                              [role |-> "proposal", conv |-> c, target |-> target,
                               sources |-> conv[c].sources, status |-> "pending"])
        /\ conv' = [conv EXCEPT ![c].proposals = Append(@, n)]
    BY <1>1, <1>5 DEF Shown
  <2>2. /\ target \in Businesses \cup {NoBusiness}
        /\ conv[c].sources \in SUBSET Positions /\ n \in Positions
    <3>1. conv[c] \in ConvRow
      BY <1>3
    <3>2. conv[c].sources \in SUBSET Positions
          /\ conv[c].revision \in Businesses \cup {NoBusiness}
      BY <3>1 DEF ConvRow
    <3>3. n \in Positions
      BY <1>3 DEF Positions
    <3> QED
      BY <1>2, <3>2, <3>3
  <2> HIDE DEF target, n
  <2>3. CardAdded(n, c, target, conv[c].sources)
    <3>1. Listed
      BY DEF TalkInv
    <3> QED
      BY <2>1, <2>2, <3>1, CardIsAdded DEF n
  <2>4. ConvBecomes(c, conv[c].status, conv[c].sources, Append(conv[c].proposals, n))
    BY <1>3, <2>1, <2>2, ConvListed
  <2>5. TypeOK'
    <3>1. messages' \in Seq(Message) /\ conv' \in [Convs -> ConvRow]
      BY <2>3, <2>4 DEF CardAdded, ConvBecomes
    <3> QED
      BY <1>2, <1>3, <3>1, TypedByTables
  <2>6. \A d \in Convs : conv'[d].status = conv[d].status
    BY <2>4 DEF ConvBecomes
  <2>7. SessionNamesItsJob'
    BY <1>1, <2>6 DEF SessionNamesItsJob
  <2>8. OneJob'
    BY <1>1, <2>6 DEF OneJob
  <2>9. TalkInv'
    BY <1>1, <2>1, <2>2, <2>3, <2>4, ShownTalk DEF n
  <2>10. RunInv'
    <3>1. /\ messages' \in Seq(Message) /\ Users' = Users
          /\ DOMAIN messages \subseteq DOMAIN messages'
          /\ \A i \in Users : messages'[i] = messages[i]
      BY <2>3 DEF CardAdded
    <3> QED
      BY <1>1, <3>1, RunsAlone DEF Known
  <2> QED
    BY <2>5, <2>7, <2>8, <2>9, <2>10
<1> QED
  BY <1>4, <1>5

-----------------------------------------------------------------------------
(* A conversation begins.                                                  *)

\* What the messages are after the words n of the user.
WordsAdded(n, ms) ==
  /\ ms \in Seq(Message)
  /\ n \in Positions /\ n \notin DOMAIN messages /\ DOMAIN ms = DOMAIN messages \cup {n}
  /\ \A i \in DOMAIN messages : ms[i] = messages[i] /\ i < n
  /\ ms[n].role = "user" /\ ms[n].business = NoBusiness

LEMMA WordsAreAdded ==
  ASSUME TypeOK, NEW n, n = Len(messages) + 1
  PROVE  WordsAdded(n, Append(messages, User(NoBusiness, 0)))
<1> DEFINE ms == Append(messages, User(NoBusiness, 0))
<1>1. /\ messages \in Seq(Message)
      /\ NoBusiness \in Businesses \cup {NoBusiness} /\ 0 \in {0} \cup Runs
  BY DEF TypeOK
<1>2. /\ User(NoBusiness, 0) \in Message
      /\ User(NoBusiness, 0).role = "user" /\ User(NoBusiness, 0).business = NoBusiness
  BY <1>1, UserMessage
<1>3. ms \in Seq(Message) /\ DOMAIN ms = DOMAIN messages \cup {n} /\ n \in Positions
  BY <1>1, <1>2, AppendFacts
<1>4. ms[n] = User(NoBusiness, 0)
  BY <1>1, <1>2, AppendFacts
<1>5. \A i \in DOMAIN messages : ms[i] = messages[i]
  BY <1>1, <1>2, AppendFacts
<1>6. n \notin DOMAIN messages /\ \A i \in DOMAIN messages : i < n
  BY <1>1
<1> HIDE DEF ms
<1>7. WordsAdded(n, ms)
  BY <1>2, <1>3, <1>4, <1>5, <1>6 DEF WordsAdded
<1> QED
  BY <1>7 DEF ms

\* What was there is unchanged, the words are the user's last.
LEMMA WordsFacts ==
  ASSUME TypeOK, NEW n, WordsAdded(n, messages')
  PROVE  /\ Users' = Users \cup {n} /\ Spoken' = Spoken \cup {n}
         /\ Proposals' = Proposals /\ Confirmed' = Confirmed
<1>1. "user" # "proposal"
  OBVIOUS
<1>2. Users' = Users \cup {n}
  BY DEF WordsAdded, Users, IsUser
<1>3. Spoken' = Spoken \cup {n}
  BY <1>2 DEF WordsAdded, Spoken, Users
<1>4. Proposals' = Proposals
  BY <1>1 DEF WordsAdded, Proposals, IsProposal
<1>5. Confirmed' = Confirmed
  BY <1>4 DEF WordsAdded, Confirmed, Proposals
<1> QED
  BY <1>2, <1>3, <1>4, <1>5

\* The sources of a conversation are messages, and all words since the last goal.
LEMMA SourcesFacts ==
  ASSUME IInv, NEW context \in Businesses \cup {NoBusiness}, NEW n, NEW ms,
         WordsAdded(n, ms)
  PROVE  /\ Sources(ms, context) \subseteq DOMAIN ms
         /\ \A i \in Spoken : i \notin Sources(ms, context) => \E q \in Confirmed : i < q
         /\ n \in Sources(ms, context)
<1> USE DEF IInv
<1> DEFINE settled == {p \in DOMAIN ms : ms[p].role = "proposal" /\ ms[p].status = "confirmed"}
           words == IF context = NoBusiness THEN {} ELSE business[context].words
<1>1. /\ DOMAIN ms = DOMAIN messages \cup {n} /\ n \in Positions /\ n \notin DOMAIN messages
      /\ \A i \in DOMAIN messages : ms[i] = messages[i] /\ i < n
      /\ ms[n].role = "user" /\ ms[n].business = NoBusiness
  BY DEF WordsAdded
<1>2. settled = Confirmed
  <2>1. "user" # "proposal"
    OBVIOUS
  <2> QED
    BY <1>1, <2>1 DEF Confirmed, Proposals, IsProposal
<1>3. /\ DOMAIN messages = 1..Len(messages) /\ Len(messages) \in Nat
      /\ Confirmed \in SUBSET (1..Len(messages))
  BY DEF TypeOK, Confirmed, Proposals
<1>4. Sources(ms, context) =
        {i \in DOMAIN ms : /\ ms[i].role = "user" /\ ms[i].business = NoBusiness
                           /\ i > Latest(Confirmed)} \cup words
  BY <1>2 DEF Sources
<1>5. words \subseteq DOMAIN messages
  BY DEF TalkInv, SourcesBefore
<1>6. /\ Latest(Confirmed) \in Nat
      /\ Latest(Confirmed) # 0 => Latest(Confirmed) \in Confirmed
      /\ Latest(Confirmed) < n
  <2>1. CASE Confirmed = {}
    BY <1>1, <2>1 DEF Latest, Positions
  <2>2. CASE Confirmed # {}
    <3>1. Max(Confirmed) \in Confirmed
      BY <1>3, <2>2, MaxOf
    <3>2. Latest(Confirmed) = Max(Confirmed)
      BY <2>2 DEF Latest
    <3>3. \A x \in Confirmed : x \in Nat /\ x < n
      BY <1>1, <1>3
    <3> QED
      BY <3>1, <3>2, <3>3
  <2> QED
    BY <2>1, <2>2
<1> HIDE DEF words
<1>7. Sources(ms, context) \subseteq DOMAIN ms
  BY <1>1, <1>4, <1>5
<1>8. n \in Sources(ms, context)
  BY <1>1, <1>4, <1>6 DEF Positions
<1>9. ASSUME NEW i \in Spoken, i \notin Sources(ms, context)
      PROVE  \E q \in Confirmed : i < q
  <2>1. /\ i \in DOMAIN messages /\ messages[i].role = "user"
        /\ messages[i].business = NoBusiness /\ i \in Nat /\ i # 0
    BY <1>3, <1>9 DEF Spoken, Users, IsUser
  <2>2. i <= Latest(Confirmed)
    BY <1>1, <1>4, <1>6, <1>9, <2>1
  <2>3. Latest(Confirmed) \in Confirmed
    BY <1>6, <2>1, <2>2
  <2>4. i # Latest(Confirmed)
    <3>1. "user" # "proposal"
      OBVIOUS
    <3> QED
      BY <2>1, <2>3, <3>1 DEF Confirmed, Proposals, IsProposal
  <2> QED
    BY <1>6, <2>1, <2>2, <2>3, <2>4
<1> QED
  BY <1>7, <1>8, <1>9

LEMMA BegunTalk ==
  ASSUME IInv, NEW c \in Convs, NEW context \in Businesses \cup {NoBusiness}, NEW n,
         NEW status, WordsAdded(n, messages'),
         ConvBecomes(c, status, Sources(messages', context), conv[c].proposals),
         conv[c].status = "absent",
         procs' \subseteq {<<"conv", c>>}, UNCHANGED business
  PROVE  TalkInv'
<1> USE DEF IInv, TalkInv
<1>1. /\ Users' = Users \cup {n} /\ Spoken' = Spoken \cup {n}
      /\ Proposals' = Proposals /\ Confirmed' = Confirmed
  BY WordsFacts
<1>2. /\ DOMAIN messages' = DOMAIN messages \cup {n}
      /\ \A i \in DOMAIN messages : messages'[i] = messages[i] /\ i < n
  BY DEF WordsAdded
<1>3. /\ Sources(messages', context) \subseteq DOMAIN messages'
      /\ \A i \in Spoken : i \notin Sources(messages', context) => \E q \in Confirmed : i < q
      /\ n \in Sources(messages', context)
  BY SourcesFacts
<1>4. /\ \A d \in Convs : d # c => conv'[d] = conv[d]
      /\ conv'[c].sources = Sources(messages', context)
      /\ \A d \in Convs : conv'[d].proposals = conv[d].proposals
  BY DEF ConvBecomes
<1>5. /\ Users \subseteq DOMAIN messages /\ Proposals \subseteq DOMAIN messages
      /\ Confirmed \subseteq Proposals /\ Spoken \subseteq Users /\ n \in Nat
      /\ \A i \in DOMAIN messages : i \in Nat
  BY DEF Users, Proposals, Confirmed, Spoken, WordsAdded, Positions, TypeOK
<1>6. \A p \in Proposals : messages'[p] = messages[p] /\ p < n /\ messages[p].conv \in Convs
  BY <1>2, <1>5, MessageFacts, ElementOfSeq DEF TypeOK, Proposals, IsProposal
<1>7. \A d \in Convs : <<"conv", d>> \in procs' => d = c
  BY JobFacts
<1>8. Listed'
  <2>1. ASSUME NEW d \in Convs
        PROVE  LET ps == conv'[d].proposals
               IN  /\ \A k \in DOMAIN ps : ps[k] \in Proposals' /\ messages'[ps[k]].conv = d
                   /\ \A k, l \in DOMAIN ps : k < l => ps[k] < ps[l]
    <3> DEFINE ps == conv'[d].proposals
    <3>1. ps = conv[d].proposals
      BY <1>4
    <3> HIDE DEF ps
    <3>2. /\ \A k \in DOMAIN ps : ps[k] \in Proposals /\ messages[ps[k]].conv = d
          /\ \A k, l \in DOMAIN ps : k < l => ps[k] < ps[l]
      BY <3>1 DEF Listed
    <3>3. /\ \A k \in DOMAIN ps : ps[k] \in Proposals' /\ messages'[ps[k]].conv = d
          /\ \A k, l \in DOMAIN ps : k < l => ps[k] < ps[l]
      BY <1>1, <1>6, <3>2
    <3> QED
      BY <3>3 DEF ps
  <2>2. ASSUME NEW p \in Proposals
        PROVE  p \in Range(conv'[messages'[p].conv].proposals)
    <3>1. p \in Range(conv[messages[p].conv].proposals)
      BY DEF Listed
    <3>2. conv'[messages'[p].conv].proposals = conv[messages[p].conv].proposals
      BY <1>4, <1>6
    <3> QED
      BY <3>1, <3>2
  <2> QED
    BY <1>1, <2>1, <2>2 DEF Listed
<1>9. SourcesBefore'
  BY <1>1, <1>2, <1>3, <1>4, <1>6 DEF SourcesBefore
<1>10. SpokenBetween'
  <2>1. \A p, q \in Proposals : messages'[p].conv # messages'[q].conv /\ p < q
          => \E u \in Users' : p < u /\ u < q
    BY <1>1, <1>6 DEF SpokenBetween
  <2>2. \A p \in Proposals : \E u \in Users' : p < u
    BY <1>1, <1>6
  <2> QED
    BY <1>1, <2>1, <2>2 DEF SpokenBetween
<1>11. WordsCovered'
  <2>1. ASSUME NEW p \in Proposals, NEW i \in Spoken', i < p, i \notin messages'[p].sources
        PROVE  \E q \in Confirmed : i < q /\ q < p
    <3>1. i \in Spoken
      BY <1>1, <1>5, <1>6, <2>1
    <3> QED
      BY <1>6, <2>1, <3>1 DEF WordsCovered
  <2>2. ASSUME NEW d \in Convs, NEW i \in Spoken', <<"conv", d>> \in procs',
               i \notin conv'[d].sources
        PROVE  \E q \in Confirmed : i < q
    BY <1>1, <1>3, <1>4, <1>7, <2>2
  <2> QED
    BY <1>1, <2>1, <2>2 DEF WordsCovered
<1>12. TargetsKnown'
  BY <1>1, <1>6 DEF TargetsKnown, Known
<1>13. GoalsConfirmed'
  BY <1>1 DEF GoalsConfirmed
<1>14. OneGoalPerConversation'
  <2>1. \A p \in Confirmed : messages[p].conv # c
    BY DEF OneGoalPerConversation
  <2> QED
    BY <1>1, <1>4, <1>5, <1>6, <2>1 DEF OneGoalPerConversation
<1>15. GoalIsNewest'
  BY <1>1, <1>5, <1>6 DEF GoalIsNewest
<1> QED
  BY <1>8, <1>9, <1>10, <1>11, <1>12, <1>13, <1>14, <1>15

LEMMA SendRequestStep ==
  ASSUME IInv, NEW c \in Convs, NEW context \in Businesses \cup {NoBusiness},
         SendRequest(c, context)
  PROVE  IInv'
<1> USE DEF IInv
<1> DEFINE n == Len(messages) + 1
           j == <<"conv", c>>
           sources == Sources(messages', context)
           asked == context # NoBusiness /\ Asks(context)
           revision == IF asked THEN context ELSE NoBusiness
           Started(status) ==
             conv' = [conv EXCEPT ![c].status = status, ![c].sources = sources,
                                  ![c].revision = revision]
<1>1. /\ conv[c].status = "absent" /\ Idle
      /\ messages' = Append(messages, User(NoBusiness, 0))
      /\ UNCHANGED <<business, run, pipe, told>>
  BY DEF SendRequest
<1>2. \/ Started("running") /\ session' = j /\ Open(j)
      \/ Started("failed") /\ UNCHANGED <<session, procs, worker>>
  BY <1>1 DEF SendRequest
<1>3. /\ procs = {} /\ session = NoJob
      /\ \A d \in Convs : conv[d].status \notin Active
      /\ \A r \in Runs : run[r].status \notin Active
  BY <1>1, IdleFacts
<1>4. WordsAdded(n, messages')
  BY <1>1, WordsAreAdded
<1> HIDE DEF n, revision
<1>5. sources \in SUBSET Positions
  <2>1. sources \subseteq DOMAIN messages'
    BY <1>4, SourcesFacts
  <2>2. messages' \in Seq(Message)
    BY <1>4 DEF WordsAdded
  <2> QED
    BY <2>1, <2>2 DEF Positions
<1> HIDE DEF sources
<1>6. \/ /\ ConvBecomes(c, "running", sources, conv[c].proposals)
         /\ session' = j /\ Open(j)
      \/ /\ ConvBecomes(c, "failed", sources, conv[c].proposals)
         /\ UNCHANGED <<session, procs, worker>>
  <2>1. conv \in [Convs -> ConvRow] /\ {"running", "failed"} \subseteq RowStatuses
        /\ revision \in Businesses \cup {NoBusiness}
    BY Tables DEF RowStatuses, Active, Ended, Resumable, revision
  <2>2. CASE Started("running") /\ session' = j /\ Open(j)
    <3>1. ConvBecomes(c, "running", sources, conv[c].proposals)
      BY <1>5, <2>1, <2>2, ConvStarted
    <3> QED
      BY <2>2, <3>1
  <2>3. CASE Started("failed") /\ UNCHANGED <<session, procs, worker>>
    <3>1. ConvBecomes(c, "failed", sources, conv[c].proposals)
      BY <1>5, <2>1, <2>3, ConvStarted
    <3> QED
      BY <2>3, <3>1
  <2> QED
    BY <1>2, <2>2, <2>3
<1>7. /\ conv' \in [Convs -> ConvRow]
      /\ \A d \in Convs : d # c => conv'[d] = conv[d]
      /\ \/ conv'[c].status = "running" /\ session' = j /\ procs' = {j}
         \/ conv'[c].status = "failed" /\ session' = NoJob /\ procs' = {}
  BY <1>3, <1>6 DEF ConvBecomes, Open
<1>8. /\ procs' \subseteq Jobs
      /\ worker' \in [Jobs -> {"none", "exit0", "exit1"} \cup Alive]
      /\ \A k \in Jobs : worker'[k] # "none" <=> k \in procs'
  <2>1. CASE Open(j)
    BY <2>1, OpenFacts, JobFacts
  <2>2. CASE UNCHANGED <<session, procs, worker>>
    BY <2>2 DEF TypeOK, OneJob
  <2> QED
    BY <1>6, <2>1, <2>2
<1>9. TypeOK'
  <2>1. /\ messages' \in Seq(Message) /\ told' \in [Businesses -> SUBSET Goals]
        /\ pipe' \in [Convs -> Seq(Businesses \cup {NoBusiness})]
        /\ business' \in [Businesses -> BusinessRow] /\ run' \in [Runs -> RunRow]
        /\ session' \in Jobs \cup {NoJob}
    BY <1>1, <1>4, <1>7, Tables, JobFacts DEF TypeOK, WordsAdded
  <2> QED
    BY <1>7, <1>8, <2>1, TypedByTables
<1>10. SessionNamesItsJob'
  BY <1>1, <1>3, <1>7 DEF SessionNamesItsJob, Active
<1>11. OneJob'
  BY <1>1, <1>3, <1>7, <1>8, JobFacts DEF OneJob, Active
<1>12. TalkInv'
  <2>1. procs' \subseteq {j}
    BY <1>7
  <2> QED
    BY <1>1, <1>4, <1>6, <2>1, BegunTalk DEF sources
<1>13. RunInv'
  <2>1. /\ messages' \in Seq(Message) /\ Users' = Users \cup {n}
        /\ DOMAIN messages \subseteq DOMAIN messages' /\ n \notin DOMAIN messages
        /\ \A i \in DOMAIN messages : messages'[i] = messages[i]
    BY <1>4, WordsFacts DEF WordsAdded
  <2>2. \A r \in Runs : <<"run", r>> \notin procs'
    BY <1>7, JobFacts
  <2> QED
    BY <1>1, <2>1, <2>2, RunsAlone DEF Known
<1> QED
  BY <1>9, <1>10, <1>11, <1>12, <1>13

-----------------------------------------------------------------------------
(* A goal is confirmed.                                                    *)

\* What the messages are after the answer to a card.
LEMMA AnsweredFacts ==
  ASSUME messages \in Seq(Message), NEW p \in Proposals,
         NEW s \in {"confirmed", "rejected"}, messages' = [messages EXCEPT ![p].status = s]
  PROVE  /\ messages' \in Seq(Message) /\ DOMAIN messages' = DOMAIN messages
         /\ Users' = Users /\ Spoken' = Spoken /\ Proposals' = Proposals
         /\ \A i \in Users : messages'[i] = messages[i]
         /\ \A q \in Proposals : /\ messages'[q].conv = messages[q].conv
                                 /\ messages'[q].target = messages[q].target
                                 /\ messages'[q].sources = messages[q].sources
         /\ s = "confirmed" => Confirmed' = Confirmed \cup {p}
<1>1. p \in DOMAIN messages /\ messages[p].role = "proposal" /\ "user" # "proposal"
  BY DEF Proposals, IsProposal
<1>2. messages' \in Seq(Message) /\ DOMAIN messages' = DOMAIN messages
  BY <1>1, CardFacts
<1>3. \A i \in DOMAIN messages :
        IF i = p
        THEN /\ messages'[i].role = "proposal" /\ messages'[i].conv = messages[i].conv
             /\ messages'[i].target = messages[i].target
             /\ messages'[i].sources = messages[i].sources
             /\ messages'[i].status = s
        ELSE messages'[i] = messages[i]
  BY <1>1, CardFacts
<1>4. \A i \in DOMAIN messages : messages'[i].role = messages[i].role
  BY <1>1, <1>3
<1>5. Users' = Users /\ Proposals' = Proposals
  BY <1>2, <1>4 DEF Users, Proposals, IsUser, IsProposal
<1>6. \A i \in Users : messages'[i] = messages[i]
  BY <1>1, <1>3 DEF Users, IsUser
<1>7. Spoken' = Spoken
  BY <1>5, <1>6 DEF Spoken
<1>8. \A q \in Proposals : /\ messages'[q].conv = messages[q].conv
                           /\ messages'[q].target = messages[q].target
                           /\ messages'[q].sources = messages[q].sources
  BY <1>3 DEF Proposals
<1>9. s = "confirmed" => Confirmed' = Confirmed \cup {p}
  BY <1>1, <1>3, <1>5 DEF Confirmed, Proposals
<1> QED
  BY <1>2, <1>5, <1>6, <1>7, <1>8, <1>9

\* All that the user said is older than a card that is up to date.
LEMMA LastWord ==
  ASSUME TypeOK, SourcesBefore, NEW p \in Proposals, UpToDate(p)
  PROVE  \A u \in Users : u < p
<1>1. /\ DOMAIN messages = 1..Len(messages) /\ Len(messages) \in Nat
      /\ Users \in SUBSET (1..Len(messages)) /\ p \in Nat
      /\ \A u \in Users : u \in Nat
  BY DEF TypeOK, Users, Proposals
<1>2. Latest(Users) < p
  BY DEF UpToDate, SourcesBefore
<1>3. ASSUME NEW u \in Users
      PROVE  u < p
  <2>1. u <= Max(Users) /\ Max(Users) \in Users
    BY <1>1, MaxOf
  <2>2. Latest(Users) = Max(Users)
    BY DEF Latest
  <2>3. u \in Nat /\ Max(Users) \in Nat
    BY <1>1, <2>1
  <2> QED
    BY <1>1, <1>2, <2>1, <2>2, <2>3
<1> QED
  BY <1>3

LEMMA ConfirmTalk ==
  ASSUME IInv, NEW p \in Proposals, NEW b \in Businesses,
         messages' = [messages EXCEPT ![p].status = "confirmed"],
         Produced(p), UpToDate(p),
         messages[p].target = NoBusiness => ~Known(b),
         messages[p].target # NoBusiness => b = messages[p].target,
         BusinessBecomes(b, "ready", business[b].active, FALSE, p, messages[p].sources),
         UNCHANGED <<conv, procs>>
  PROVE  TalkInv'
<1> USE DEF IInv, TalkInv
<1>1. /\ DOMAIN messages' = DOMAIN messages
      /\ Users' = Users /\ Spoken' = Spoken /\ Proposals' = Proposals
      /\ \A q \in Proposals : /\ messages'[q].conv = messages[q].conv
                              /\ messages'[q].target = messages[q].target
                              /\ messages'[q].sources = messages[q].sources
      /\ Confirmed' = Confirmed \cup {p}
  BY AnsweredFacts DEF TypeOK
<1>2. /\ \A d \in Businesses : d # b => business'[d] = business[d]
      /\ business'[b].status = "ready" /\ business'[b].goal = p
      /\ business'[b].words = messages[p].sources
  BY DEF BusinessBecomes
<1>3. /\ Confirmed \subseteq Proposals /\ Users \subseteq DOMAIN messages
      /\ Proposals \subseteq DOMAIN messages /\ \A i \in DOMAIN messages : i \in Nat
  BY DEF Confirmed, Proposals, Users, TypeOK
<1>4. \A q \in Proposals : /\ messages[q].conv \in Convs /\ messages[q].sources \subseteq Positions
                           /\ messages[q].target \in Businesses \cup {NoBusiness}
  BY MessageFacts, ElementOfSeq DEF TypeOK, Proposals, IsProposal
<1>5. NoBusiness \notin Businesses
  BY ConversationAssumption
<1>6. Listed'
  <2>1. ASSUME NEW d \in Convs
        PROVE  LET ps == conv'[d].proposals
               IN  /\ \A k \in DOMAIN ps : ps[k] \in Proposals' /\ messages'[ps[k]].conv = d
                   /\ \A k, l \in DOMAIN ps : k < l => ps[k] < ps[l]
    <3> DEFINE ps == conv'[d].proposals
    <3>1. ps = conv[d].proposals
      OBVIOUS
    <3> HIDE DEF ps
    <3>2. /\ \A k \in DOMAIN ps : ps[k] \in Proposals /\ messages[ps[k]].conv = d
          /\ \A k, l \in DOMAIN ps : k < l => ps[k] < ps[l]
      BY <3>1 DEF Listed
    <3>3. /\ \A k \in DOMAIN ps : ps[k] \in Proposals' /\ messages'[ps[k]].conv = d
          /\ \A k, l \in DOMAIN ps : k < l => ps[k] < ps[l]
      BY <1>1, <3>2
    <3> QED
      BY <3>3 DEF ps
  <2>2. ASSUME NEW q \in Proposals
        PROVE  q \in Range(conv'[messages'[q].conv].proposals)
    <3>1. q \in Range(conv[messages[q].conv].proposals)
      BY DEF Listed
    <3>2. conv'[messages'[q].conv].proposals = conv[messages[q].conv].proposals
      BY <1>1
    <3> QED
      BY <3>1, <3>2
  <2> QED
    BY <1>1, <2>1, <2>2 DEF Listed
<1>7. SourcesBefore'
  <2>1. messages[p].sources \subseteq DOMAIN messages
    <3> SUFFICES ASSUME NEW i \in messages[p].sources
                 PROVE  i \in DOMAIN messages
      OBVIOUS
    <3>1. i \in Nat /\ i # 0 /\ i < p /\ p \in DOMAIN messages
      BY <1>3, <1>4 DEF SourcesBefore, Positions
    <3>2. DOMAIN messages = 1..Len(messages) /\ Len(messages) \in Nat
      BY DEF TypeOK
    <3> QED
      BY <3>1, <3>2
  <2>2. \A d \in Businesses : business'[d].words \subseteq DOMAIN messages
    BY <1>2, <2>1 DEF SourcesBefore
  <2> QED
    BY <1>1, <2>2 DEF SourcesBefore
<1>8. SpokenBetween'
  BY <1>1 DEF SpokenBetween
<1>9. WordsCovered'
  <2>1. \A q \in Proposals, i \in Spoken :
          i < q /\ i \notin messages'[q].sources => \E g \in Confirmed' : i < g /\ g < q
    BY <1>1 DEF WordsCovered
  <2>2. \A c \in Convs, i \in Spoken :
          <<"conv", c>> \in procs /\ i \notin conv[c].sources => \E g \in Confirmed' : i < g
    BY <1>1 DEF WordsCovered
  <2> QED
    BY <1>1, <2>1, <2>2 DEF WordsCovered
<1>10. TargetsKnown'
  <2>1. \A d \in Businesses : Known(d) => business'[d].status # "absent"
    BY <1>2 DEF Known
  <2> QED
    BY <1>1, <1>4, <2>1 DEF TargetsKnown, Known
<1>11. GoalsConfirmed'
  BY <1>1, <1>2 DEF GoalsConfirmed
<1>12. \A q \in Proposals : messages[q].conv = messages[p].conv => q <= p
  <2> DEFINE c == messages[p].conv
             ps == conv[c].proposals
  <2>1. c \in Convs /\ conv[c].status = "completed" /\ Last(ps) = p
    BY <1>4 DEF Produced
  <2> HIDE DEF c
  <2>2. ps \in Seq(Positions)
    BY <2>1, Tables DEF ConvRow
  <2>3. \A k, l \in DOMAIN ps : k < l => ps[k] < ps[l]
    BY <2>1 DEF Listed
  <2>4. ASSUME NEW q \in Proposals, messages[q].conv = c
        PROVE  q \in Range(ps)
    BY <2>4 DEF Listed
  <2> HIDE DEF ps
  <2>5. DOMAIN ps = 1..Len(ps) /\ Len(ps) \in Nat /\ Last(ps) = ps[Len(ps)]
    BY <2>2 DEF Last
  <2>6. ASSUME NEW q \in Proposals, messages[q].conv = c
        PROVE  q <= p
    <3>1. PICK k \in DOMAIN ps : q = ps[k]
      BY <2>4, <2>6 DEF Range
    <3>2. k = Len(ps) \/ (k < Len(ps) /\ Len(ps) \in DOMAIN ps)
      BY <2>5
    <3>3. q = p \/ q < p
      BY <2>1, <2>3, <2>5, <3>1, <3>2
    <3> QED
      BY <1>3, <3>3
  <2> QED
    BY <2>6 DEF c
<1>13. OneGoalPerConversation'
  <2>1. conv[messages[p].conv].status = "completed"
    BY DEF Produced
  <2>2. \A q \in Range(conv[messages[p].conv].proposals) : q <= p
    <3>1. \A q \in Range(conv[messages[p].conv].proposals) :
            q \in Proposals /\ messages[q].conv = messages[p].conv
      BY <1>4 DEF Listed, Range
    <3> QED
      BY <1>12, <3>1
  <2>3. ASSUME NEW g \in Confirmed'
        PROVE  /\ conv[messages[g].conv].status = "completed"
               /\ \A q \in Range(conv[messages[g].conv].proposals) : q <= g
    BY <1>1, <2>1, <2>2 DEF OneGoalPerConversation
  <2>4. \A g \in Confirmed' : messages'[g].conv = messages[g].conv
    BY <1>1, <1>3
  <2> QED
    BY <2>3, <2>4 DEF OneGoalPerConversation
<1>14. GoalIsNewest'
  <2>1. \A u \in Users : u < p
    BY LastWord
  <2>2. ASSUME NEW q \in Proposals
        PROVE  q <= p
    <3>1. CASE messages[q].conv = messages[p].conv
      BY <1>12, <3>1
    <3>2. CASE messages[q].conv # messages[p].conv
      <4>1. p \in Nat /\ q \in Nat /\ \A u \in Users : u \in Nat
        BY <1>3
      <4>2. ~(p < q)
        BY <2>1, <3>2, <4>1 DEF SpokenBetween
      <4> QED
        BY <4>1, <4>2
    <3> QED
      BY <3>1, <3>2
  <2>3. ASSUME NEW d \in Businesses, NEW q \in Confirmed', messages'[q].target = d
        PROVE  q <= business'[d].goal
    <3>1. q \in Proposals /\ messages[q].target = d
      BY <1>1, <1>3, <2>3
    <3>2. CASE d = b
      BY <1>2, <2>2, <3>1, <3>2
    <3>3. CASE d # b
      <4>1. q # p
        BY <1>5, <3>1, <3>3
      <4> QED
        BY <1>1, <1>2, <3>1, <3>3, <4>1 DEF GoalIsNewest
    <3> QED
      BY <3>2, <3>3
  <2> QED
    BY <2>3 DEF GoalIsNewest
<1> QED
  BY <1>6, <1>7, <1>8, <1>9, <1>10, <1>11, <1>13, <1>14

LEMMA ConfirmStep ==
  ASSUME IInv, NEW p \in DOMAIN messages, Confirm(p)
  PROVE  IInv'
<1> USE DEF IInv
<1> DEFINE target == messages[p].target
           b == IF target = NoBusiness THEN NewBusiness ELSE target
<1>1. /\ p \in Proposals /\ Produced(p) /\ UpToDate(p)
      /\ target = NoBusiness => \E x \in Businesses : ~Known(x)
      /\ target # NoBusiness => Changeable(target)
      /\ business' = WithGoal(b, p)
      /\ messages' = [messages EXCEPT ![p].status = "confirmed"]
      /\ UNCHANGED <<conv, run, session, procs, worker, pipe, told>>
  BY DEF Confirm
<1>2. /\ target \in Businesses \cup {NoBusiness} /\ messages[p].sources \in SUBSET Positions
      /\ messages \in Seq(Message) /\ p \in Goals
  <2>1. messages \in Seq(Message)
    BY DEF TypeOK
  <2>2. messages[p] \in Message /\ messages[p].role = "proposal" /\ p \in Nat
    BY <1>1, <2>1, ElementOfSeq DEF Proposals, IsProposal
  <2> QED
    BY <2>1, <2>2, MessageFacts DEF Goals
<1>3. /\ b \in Businesses
      /\ target = NoBusiness => ~Known(b)
      /\ target # NoBusiness => b = target /\ business[b].active = 0
  BY <1>1, <1>2 DEF NewBusiness, Changeable
<1> HIDE DEF b
<1>4. BusinessBecomes(b, "ready", business[b].active, FALSE, p, messages[p].sources)
  <2>1. business \in [Businesses -> BusinessRow]
    BY Tables
  <2>2. business' = [business EXCEPT ![b].status = "ready", ![b].goal = p, ![b].asks = FALSE,
                                     ![b].words = messages[p].sources,
                                     ![b].goalSubmitted = FALSE]
    BY <1>1 DEF WithGoal
  <2> QED
    BY <1>2, <1>3, <2>1, <2>2, BusinessGoal
<1>5. /\ business' \in [Businesses -> BusinessRow]
      /\ \A d \in Businesses : d # b => business'[d] = business[d]
      /\ business'[b].status = "ready" /\ business'[b].active = business[b].active
      /\ business'[b].goalSubmitted = FALSE /\ business'[b].goal = p
  BY <1>4 DEF BusinessBecomes
<1>6. /\ messages' \in Seq(Message) /\ DOMAIN messages' = DOMAIN messages
      /\ Users' = Users /\ \A i \in Users : messages'[i] = messages[i]
  BY <1>1, <1>2, AnsweredFacts
<1>7. /\ \A r \in Runs : run[r].status # "absent"
           => run[r].business \in Businesses /\ Known(run[r].business)
      /\ \A r \in Runs : run[r].status \in Active => run[r].business # b
  <2>1. \A r \in Runs : run[r].status # "absent"
          => run[r].business \in Businesses /\ Known(run[r].business)
    BY DEF RunInv, RunsBegun
  <2>2. ASSUME NEW r \in Runs, run[r].status \in Active, run[r].business = b
        PROVE  FALSE
    <3>1. business[b].active = r /\ r # 0 /\ Known(b)
      BY <2>1, <2>2, JobFacts DEF SessionNamesItsJob, Active
    <3> QED
      BY <1>3, <3>1
  <2> QED
    BY <2>1, <2>2
<1>8. TypeOK'
  <2>1. /\ conv' \in [Convs -> ConvRow] /\ run' \in [Runs -> RunRow]
        /\ session' \in Jobs \cup {NoJob} /\ procs' \subseteq Jobs
        /\ worker' \in [Jobs -> {"none", "exit0", "exit1"} \cup Alive]
        /\ pipe' \in [Convs -> Seq(Businesses \cup {NoBusiness})]
        /\ told' \in [Businesses -> SUBSET Goals]
    BY <1>1, Tables DEF TypeOK
  <2> QED
    BY <1>5, <1>6, <2>1, TypedByTables
<1>9. SessionNamesItsJob'
  <2>1. \A r \in Runs : run[r].status \in Active => run[r].status # "absent"
    BY DEF Active
  <2> QED
    BY <1>1, <1>5, <1>7, <2>1 DEF SessionNamesItsJob
<1>10. OneJob'
  BY <1>1 DEF OneJob
<1>11. TalkInv'
  BY <1>1, <1>3, <1>4, ConfirmTalk
<1>12. RunsBegun'
  <2>1. \A d \in Businesses : Known(d) => business'[d].status # "absent"
    BY <1>5 DEF Known
  <2> QED
    BY <1>1, <1>6, <2>1 DEF RunInv, RunsBegun, Known
<1>13. LatestRunsGoal'
  BY <1>1, <1>5 DEF RunInv, LatestRunsGoal
<1>14. RunsWorkTheConfirmedGoal'
  <2>1. \A r \in Runs : run[r].status \in Active => run[r].status # "absent"
    BY DEF Active
  <2> QED
    BY <1>1, <1>5, <1>7, <2>1 DEF RunInv, RunsWorkTheConfirmedGoal
<1>15. WordsMarked'
  <2>1. ASSUME NEW r \in Runs, Retired(r)
        PROVE  Retired(r)'
    <3>1. run[r].business \in Businesses
      BY <1>7, <2>1 DEF Retired
    <3> QED
      BY <1>1, <1>5, <2>1, <3>1 DEF Retired
  <2> QED
    BY <1>1, <1>6, <2>1 DEF RunInv, WordsMarked
<1> QED
  BY <1>8, <1>9, <1>10, <1>11, <1>12, <1>13, <1>14, <1>15 DEF RunInv

-----------------------------------------------------------------------------
(* The end of a run.                                                       *)

\* ms is the messages, or they and a note that is added.
Extended(ms) ==
  /\ ms \in Seq(Message) /\ Kept(messages, ms)
  /\ \A i \in DOMAIN messages : ms[i] = messages[i]

\* The user's words keep their mark or, if the run r came to nothing, lose its mark.
Marks(r, unused) ==
  /\ messages' \in Seq(Message) /\ Kept(messages, messages')
  /\ \A i \in DOMAIN messages : i \in Users' =>
       i \in Users /\ (messages'[i].by = messages[i].by \/ (unused /\ messages[i].by = r))

LEMMA FinalMarks ==
  ASSUME TypeOK, NEW r \in Runs, NEW ms, Extended(ms), NEW unused \in BOOLEAN,
         messages' = IF unused THEN Unmarked(ms, r) ELSE ms
  PROVE  Marks(r, unused)
<1>1. /\ ms \in Seq(Message) /\ Kept(messages, ms)
      /\ \A i \in DOMAIN messages : ms[i] = messages[i] /\ i \in DOMAIN ms
  BY DEF Extended, Kept
<1>2. CASE ~unused
  <2>1. messages' = ms
    BY <1>2
  <2>2. \A i \in DOMAIN messages : i \in Users' => i \in Users /\ messages'[i].by = messages[i].by
    BY <1>1, <2>1 DEF Users, IsUser
  <2>3. messages' \in Seq(Message) /\ Kept(messages, messages')
    BY <1>1, <2>1
  <2> QED
    BY <2>2, <2>3 DEF Marks
<1>3. CASE unused
  <2>1. messages' = Unmarked(ms, r)
    BY <1>3
  <2>2. messages' \in Seq(Message) /\ DOMAIN messages' = DOMAIN ms
    BY <1>1, <2>1, UnmarkedFacts
  <2>3. \A i \in DOMAIN ms :
          IF ms[i].role = "user" /\ ms[i].by = r
          THEN messages'[i].role = "user" /\ messages'[i].business = ms[i].business
               /\ messages'[i].by = 0
          ELSE messages'[i] = ms[i]
    BY <1>1, <2>1, UnmarkedFacts
  <2>4. Kept(messages, messages')
    <3>1. \A i \in DOMAIN messages :
            /\ messages'[i].role = messages[i].role
            /\ messages[i].role = "user" => messages'[i].business = messages[i].business
            /\ messages[i].role = "proposal" => messages'[i] = messages[i]
      BY <1>1, <2>3
    <3>2. \A i \in DOMAIN ms \ DOMAIN messages :
            messages'[i].role = "user" /\ messages'[i].business # NoBusiness
      BY <1>1, <2>3 DEF Kept
    <3> QED
      BY <1>1, <2>2, <3>1, <3>2 DEF Kept
  <2>5. \A i \in DOMAIN messages : i \in Users' =>
          i \in Users /\ (messages'[i].by = messages[i].by \/ messages[i].by = r)
    BY <1>1, <2>3 DEF Users, IsUser
  <2> QED
    BY <1>3, <2>2, <2>4, <2>5 DEF Marks
<1> QED
  BY <1>2, <1>3

LEMMA EndedStatuses ==
  /\ Ended \subseteq RowStatuses /\ Ended \subseteq BusinessStatuses
  /\ Active \subseteq RowStatuses /\ Active \subseteq BusinessStatuses
  /\ "absent" \notin Ended \cup Active /\ Ended \cap Active = {}
  /\ {"failed", "cancelled", "interrupted"} \subseteq Ended
  /\ {"running", "cancel_requested", "awaiting_approval"} = Active
  BY DEF RowStatuses, BusinessStatuses, Active, Ended, Resumable

\* The rows after the end of a run, and what the user's words carry.
Finished(r, status) ==
  LET unused == status = "failed" /\ ~run[r].touched
      b == run[r].business
  IN  /\ RunBecomes(r, status, b, run[r].goal, run[r].words, run[r].touched)
      /\ BusinessMoved(b, status, 0, business[b].goalSubmitted /\ ~unused)
      /\ Marks(r, unused)
      /\ session' = NoJob

LEMMA FinalFacts ==
  ASSUME TypeOK, NEW r \in Runs, run[r].business \in Businesses, NEW ms, Extended(ms),
         NEW status \in Ended, RunFinal(r, ms, status)
  PROVE  Finished(r, status)
<1> DEFINE unused == status = "failed" /\ ~run[r].touched
           b == run[r].business
<1>1. /\ run' = [run EXCEPT ![r].status = status, ![r].stop = FALSE]
      /\ messages' = IF unused THEN Unmarked(ms, r) ELSE ms
      /\ business' = [business EXCEPT ![b].status = status, ![b].active = 0,
                                      ![b].goalSubmitted = @ /\ ~unused]
      /\ session' = NoJob
  BY DEF RunFinal
<1>2. unused \in BOOLEAN
  OBVIOUS
<1> HIDE DEF unused
<1>3. Marks(r, unused)
  BY <1>1, <1>2, FinalMarks
<1>4. RunBecomes(r, status, b, run[r].goal, run[r].words, run[r].touched)
  BY <1>1, Tables, EndedStatuses, RunMoved
<1>5. BusinessMoved(b, status, 0, business[b].goalSubmitted /\ ~unused)
  <2> DEFINE x == business[b].goalSubmitted /\ ~unused
  <2>1. business' = [business EXCEPT ![b].status = status, ![b].active = 0,
                                     ![b].goalSubmitted = x]
    BY <1>1
  <2>2. x \in BOOLEAN /\ 0 \in {0} \cup Runs /\ status \in BusinessStatuses
        /\ business \in [Businesses -> BusinessRow]
    BY <1>2, EndedStatuses, Tables
  <2> HIDE DEF x
  <2>3. BusinessMoved(b, status, 0, x)
    BY <2>1, <2>2, BusinessUsed
  <2> QED
    BY <2>3 DEF x
<1> QED
  BY <1>1, <1>3, <1>4, <1>5 DEF Finished, unused

\* A run that has begun works for a business that is known.
LEMMA BegunRuns ==
  ASSUME RunInv, NEW r \in Runs, run[r].status # "absent"
  PROVE  run[r].business \in Businesses /\ Known(run[r].business)
  BY DEF RunInv, RunsBegun

\* The words of the runs are messages there were.
LEMMA WordsOld ==
  ASSUME RunInv, NEW ms \in Seq(Message), DOMAIN messages \subseteq DOMAIN ms
  PROVE  \A r \in Runs : \A i \in run[r].words : i \in DOMAIN ms => i \in DOMAIN messages
<1>1. 0 \notin DOMAIN ms
  OBVIOUS
<1> QED
  BY <1>1 DEF RunInv, RunsBegun

LEMMA FinishedInv ==
  ASSUME IInv, NEW r \in Runs, run[r].status # "absent", NEW status \in Ended,
         Finished(r, status), ~Retired(r),
         \A d \in Convs : conv[d].status \notin Active,
         \A q \in Runs : q # r => run[q].status \notin Active,
         procs' \subseteq procs,
         \A k \in Jobs : worker'[k] # "none" <=> k \in procs',
         worker' \in [Jobs -> {"none", "exit0", "exit1"} \cup Alive],
         status = "failed" /\ ~run[r].touched => <<"run", r>> \notin procs',
         UNCHANGED <<conv, pipe, told>>
  PROVE  IInv'
<1> USE DEF IInv
<1> DEFINE unused == status = "failed" /\ ~run[r].touched
           b == run[r].business
<1>1. /\ b \in Businesses /\ Known(b)
      /\ \A q \in Runs : run[q].status # "absent"
           => run[q].business \in Businesses /\ Known(run[q].business)
  BY BegunRuns
<1>2. /\ run' \in [Runs -> RunRow]
      /\ \A q \in Runs : q # r => run'[q] = run[q]
      /\ run'[r].status = status /\ run'[r].business = b /\ run'[r].goal = run[r].goal
      /\ run'[r].words = run[r].words /\ run'[r].touched = run[r].touched
  BY DEF Finished, RunBecomes
<1>3. /\ business' \in [Businesses -> BusinessRow]
      /\ \A d \in Businesses : d # b => business'[d] = business[d]
      /\ business'[b].status = status
      /\ business'[b].goalSubmitted = (business[b].goalSubmitted /\ ~unused)
      /\ business'[b].goal = business[b].goal /\ business'[b].words = business[b].words
  BY DEF Finished, BusinessMoved, BusinessBecomes
<1>4. Marks(r, unused) /\ session' = NoJob
  BY DEF Finished
<1>5. /\ messages' \in Seq(Message) /\ Kept(messages, messages')
      /\ DOMAIN messages \subseteq DOMAIN messages'
      /\ \A i \in DOMAIN messages : i \in Users' =>
           i \in Users /\ (messages'[i].by = messages[i].by \/ (unused /\ messages[i].by = r))
  BY <1>4 DEF Marks, Kept
<1>6. status \notin Active /\ status # "absent"
  BY EndedStatuses
<1>7. TypeOK'
  <2>1. /\ conv' \in [Convs -> ConvRow] /\ procs' \subseteq Jobs
        /\ session' \in Jobs \cup {NoJob}
        /\ pipe' \in [Convs -> Seq(Businesses \cup {NoBusiness})]
        /\ told' \in [Businesses -> SUBSET Goals]
    BY <1>4, Tables DEF TypeOK
  <2> QED
    BY <1>2, <1>3, <1>5, <2>1, TypedByTables
<1>8. \A q \in Runs : run'[q].status \notin Active
  BY <1>2, <1>6
<1>9. SessionNamesItsJob'
  BY <1>8 DEF SessionNamesItsJob
<1>10. OneJob'
  BY <1>8 DEF OneJob
<1>11. TalkInv'
  <2>1. \A d \in Businesses : /\ business'[d].goal = business[d].goal
                              /\ business'[d].words = business[d].words
                              /\ Known(d) => Known(d)'
    BY <1>3, <1>6 DEF Known
  <2> QED
    BY <1>5, <2>1, Quiet
<1> HIDE DEF b, unused
<1>12. RunsBegun'
  <2>1. \A d \in Businesses : Known(d) => business'[d].status # "absent"
    BY <1>3, <1>6 DEF Known
  <2>2. ASSUME NEW q \in Runs
        PROVE  /\ run'[q].words \subseteq {0} \cup DOMAIN messages'
               /\ IF run'[q].status = "absent"
                  THEN /\ run'[q].business = NoBusiness /\ run'[q].words = {}
                       /\ ~run'[q].touched /\ <<"run", q>> \notin procs'
                       /\ \A x \in Runs : q < x => run'[x].status = "absent"
                  ELSE /\ run'[q].business \in Businesses
                       /\ business'[run'[q].business].status # "absent"
    <3>1. CASE q = r
      <4>1. run[r].words \subseteq {0} \cup DOMAIN messages
        BY DEF RunInv, RunsBegun
      <4>2. run'[r].business = b /\ run'[r].words = run[r].words /\ run'[r].status # "absent"
        BY <1>2, <1>6
      <4> QED
        BY <1>1, <1>5, <2>1, <3>1, <4>1, <4>2
    <3>2. CASE q # r
      <4>1. run'[q] = run[q]
        BY <1>2, <3>2
      <4>2. run[q].status = "absent" => \A x \in Runs : q < x => run'[x].status = "absent"
        BY <1>2 DEF RunInv, RunsBegun
      <4> QED
        BY <1>5, <2>1, <4>1, <4>2 DEF RunInv, RunsBegun, Known
    <3> QED
      BY <3>1, <3>2
  <2> QED
    BY <2>2 DEF RunsBegun, Known
<1>13. /\ \A q \in Runs : /\ run'[q].business = run[q].business
                          /\ run'[q].goal = run[q].goal /\ run'[q].words = run[q].words
                          /\ run'[q].touched = run[q].touched
       /\ \A d \in Businesses : /\ business'[d].goal = business[d].goal
                                /\ business'[d].goalSubmitted => business[d].goalSubmitted
  BY <1>2, <1>3 DEF b
<1>14. LatestRunsGoal'
  BY <1>13 DEF RunInv, LatestRunsGoal
<1>15. RunsWorkTheConfirmedGoal'
  BY <1>8 DEF RunsWorkTheConfirmedGoal
<1>16. WordsMarked'
  <2>1. ASSUME NEW q \in Runs, q # r, Retired(q)
        PROVE  Retired(q)'
    <3>1. run[q].business \in Businesses /\ run'[q] = run[q]
      BY <1>1, <1>2, <2>1 DEF Retired
    <3>2. \/ ~business[run[q].business].goalSubmitted
          \/ \E x \in Runs : q < x /\ run[x].business = run[q].business
      BY <2>1 DEF Retired
    <3>3. \/ ~business'[run'[q].business].goalSubmitted
          \/ \E x \in Runs : q < x /\ run'[x].business = run'[q].business
      BY <1>13, <3>1, <3>2
    <3> QED
      BY <2>1, <3>1, <3>3 DEF Retired
  <2>2. unused => Retired(r)'
    <3>1. unused => /\ run'[r].status = "failed" /\ ~run'[r].touched
                    /\ <<"run", r>> \notin procs'
                    /\ ~business'[run'[r].business].goalSubmitted
      BY <1>2, <1>3 DEF unused
    <3> QED
      BY <3>1 DEF Retired
  <2>3. \A q \in Runs : \A i \in run[q].words : i \in Users' => i \in DOMAIN messages
    BY <1>5, WordsOld DEF Users
  <2>4. ASSUME NEW q \in Runs, NEW i \in run[q].words, i \in Users'
        PROVE  messages'[i].by = q \/ Retired(q)'
    <3>1. /\ i \in Users
          /\ messages'[i].by = messages[i].by \/ (unused /\ messages[i].by = r)
      BY <1>5, <2>3, <2>4
    <3>2. messages[i].by = q \/ Retired(q)
      BY <2>4, <3>1 DEF RunInv, WordsMarked
    <3>3. CASE q = r
      BY <2>2, <3>1, <3>2, <3>3
    <3>4. CASE q # r
      BY <2>1, <3>1, <3>2, <3>4
    <3> QED
      BY <3>3, <3>4
  <2> QED
    BY <1>13, <2>4 DEF WordsMarked
<1> QED
  BY <1>7, <1>9, <1>10, <1>11, <1>12, <1>14, <1>15, <1>16 DEF RunInv

\* A run that stays under way, with another status.
LEMMA StatusInv ==
  ASSUME IInv, NEW r \in Runs, run[r].status \in Active, NEW status \in Active,
         RunBecomes(r, status, run[r].business, run[r].goal, run[r].words, run[r].touched),
         BusinessMoved(run[r].business, status, business[run[r].business].active,
                       business[run[r].business].goalSubmitted),
         procs' \subseteq procs,
         \A k \in Jobs : worker'[k] # "none" <=> k \in procs',
         worker' \in [Jobs -> {"none", "exit0", "exit1"} \cup Alive],
         UNCHANGED <<messages, session, conv, pipe, told>>
  PROVE  IInv'
<1> USE DEF IInv
<1> DEFINE b == run[r].business
<1>1. status # "absent" /\ run[r].status # "absent" /\ status # "failed"
      /\ run[r].status # "failed"
  BY EndedStatuses DEF Active
<1>2. /\ b \in Businesses /\ Known(b)
      /\ \A q \in Runs : run[q].status # "absent"
           => run[q].business \in Businesses /\ Known(run[q].business)
  BY <1>1, BegunRuns
<1>3. /\ run' \in [Runs -> RunRow]
      /\ run'[r].status = status
      /\ \A q \in Runs : q # r => run'[q] = run[q]
      /\ \A q \in Runs : /\ run'[q].business = run[q].business /\ run'[q].goal = run[q].goal
                         /\ run'[q].words = run[q].words /\ run'[q].touched = run[q].touched
  BY DEF RunBecomes
<1>4. /\ business' \in [Businesses -> BusinessRow]
      /\ \A d \in Businesses : /\ business'[d].goalSubmitted = business[d].goalSubmitted
                               /\ business'[d].goal = business[d].goal
                               /\ business'[d].words = business[d].words
                               /\ business'[d].active = business[d].active
                               /\ Known(d) => business'[d].status # "absent"
  BY <1>1 DEF BusinessMoved, BusinessBecomes, Known
<1>5. \A q \in Runs : /\ run'[q].status \in Active <=> run[q].status \in Active
                      /\ run'[q].status = "absent" <=> run[q].status = "absent"
                      /\ run'[q].status = "failed" <=> run[q].status = "failed"
  BY <1>1, <1>3
<1> HIDE DEF b
<1>6. messages \in Seq(Message) /\ Users' = Users
  BY DEF TypeOK, Users, IsUser
<1>7. TypeOK'
  <2>1. /\ conv' \in [Convs -> ConvRow] /\ procs' \subseteq Jobs
        /\ session' \in Jobs \cup {NoJob} /\ messages' \in Seq(Message)
        /\ pipe' \in [Convs -> Seq(Businesses \cup {NoBusiness})]
        /\ told' \in [Businesses -> SUBSET Goals]
    BY Tables DEF TypeOK
  <2> QED
    BY <1>3, <1>4, <2>1, TypedByTables
<1>8. \A q \in Runs : run[q].status \in Active => run[q].business \in Businesses
  BY <1>2 DEF Active
<1>9. SessionNamesItsJob'
  BY <1>3, <1>4, <1>5, <1>8 DEF SessionNamesItsJob
<1>10. OneJob'
  BY <1>5 DEF OneJob
<1>11. TalkInv'
  BY <1>4, KeptSame, Quiet DEF Known
<1>12. RunsBegun'
  <2>1. ASSUME NEW q \in Runs
        PROVE  /\ run'[q].words \subseteq {0} \cup DOMAIN messages'
               /\ IF run'[q].status = "absent"
                  THEN /\ run'[q].business = NoBusiness /\ run'[q].words = {}
                       /\ ~run'[q].touched /\ <<"run", q>> \notin procs'
                       /\ \A x \in Runs : q < x => run'[x].status = "absent"
                  ELSE /\ run'[q].business \in Businesses
                       /\ business'[run'[q].business].status # "absent"
    <3>1. run'[q].words \subseteq {0} \cup DOMAIN messages'
      BY <1>3 DEF RunInv, RunsBegun
    <3>2. CASE run'[q].status = "absent"
      <4>1. run[q].status = "absent"
        BY <1>5, <3>2
      <4>2. /\ run[q].business = NoBusiness /\ run[q].words = {}
            /\ ~run[q].touched /\ <<"run", q>> \notin procs'
            /\ \A x \in Runs : q < x => run[x].status = "absent"
        BY <4>1 DEF RunInv, RunsBegun
      <4> QED
        BY <1>3, <1>5, <3>1, <3>2, <4>2
    <3>3. CASE run'[q].status # "absent"
      <4>1. run[q].business \in Businesses /\ Known(run[q].business)
        BY <1>2, <1>5, <3>3
      <4> QED
        BY <1>3, <1>4, <3>1, <3>3, <4>1
    <3> QED
      BY <3>2, <3>3
  <2> QED
    BY <2>1 DEF RunsBegun, Known
<1>13. LatestRunsGoal'
  BY <1>3, <1>4 DEF RunInv, LatestRunsGoal
<1>14. RunsWorkTheConfirmedGoal'
  <2>1. ASSUME NEW q \in Runs, run'[q].status \in Active
        PROVE  run'[q].goal = business'[run'[q].business].goal
    <3>1. run[q].status \in Active /\ run[q].business \in Businesses
      BY <1>5, <1>8, <2>1
    <3>2. run[q].goal = business[run[q].business].goal
      BY <3>1 DEF RunInv, RunsWorkTheConfirmedGoal
    <3> QED
      BY <1>3, <1>4, <3>1, <3>2
  <2> QED
    BY <2>1 DEF RunsWorkTheConfirmedGoal
<1>15. WordsMarked'
  <2>1. ASSUME NEW q \in Runs, Retired(q)
        PROVE  Retired(q)'
    <3>1. run[q].business \in Businesses /\ run[q].status = "failed"
      BY <1>2, <2>1 DEF Retired
    <3>2. \/ ~business[run[q].business].goalSubmitted
          \/ \E x \in Runs : q < x /\ run[x].business = run[q].business
      BY <2>1 DEF Retired
    <3>3. \/ ~business'[run'[q].business].goalSubmitted
          \/ \E x \in Runs : q < x /\ run'[x].business = run'[q].business
      BY <1>3, <1>4, <3>1, <3>2
    <3> QED
      BY <1>3, <1>5, <2>1, <3>1, <3>3 DEF Retired
  <2> QED
    BY <1>3, <1>6, <2>1 DEF RunInv, WordsMarked
<1> QED
  BY <1>7, <1>9, <1>10, <1>11, <1>12, <1>13, <1>14, <1>15 DEF RunInv

\* The messages as they are.
LEMMA SameExtended ==
  ASSUME TypeOK
  PROVE  Extended(messages)
  BY KeptSame DEF Extended, TypeOK

LEMMA CancelRunStep ==
  ASSUME IInv, NEW r \in Runs, CancelRun(r)
  PROVE  IInv'
<1> USE DEF IInv
<1> DEFINE b == run[r].business
<1>1. /\ run[r].status \in Active
      /\ UNCHANGED <<conv, procs, worker, pipe, told>>
  BY DEF CancelRun, Active
<1>2. run[r].status # "absent" /\ run[r].status # "failed" /\ b \in Businesses
  BY <1>1, EndedStatuses, BegunRuns
<1>3. /\ \A d \in Convs : conv[d].status \notin Active
      /\ \A q \in Runs : q # r => run[q].status \notin Active
      /\ session = <<"run", r>>
  BY <1>1, JobFacts DEF SessionNamesItsJob
<1>4. /\ procs' \subseteq procs
      /\ \A k \in Jobs : worker'[k] # "none" <=> k \in procs'
      /\ worker' \in [Jobs -> {"none", "exit0", "exit1"} \cup Alive]
  BY <1>1 DEF OneJob, TypeOK
<1>5. CASE /\ run' = [run EXCEPT ![r].status = "cancel_requested", ![r].stop = TRUE]
           /\ business' = [business EXCEPT ![b].status = "cancel_requested"]
           /\ UNCHANGED <<messages, session>>
  <2>1. "cancel_requested" \in Active
    BY EndedStatuses
  <2>2. RunBecomes(r, "cancel_requested", b, run[r].goal, run[r].words, run[r].touched)
    BY <1>5, <2>1, Tables, EndedStatuses, RunMoved
  <2>3. BusinessMoved(b, "cancel_requested", business[b].active, business[b].goalSubmitted)
    BY <1>2, <1>5, <2>1, Tables, EndedStatuses, BusinessStatus
  <2> QED
    BY <1>1, <1>4, <1>5, <2>1, <2>2, <2>3, StatusInv
<1>6. CASE RunFinal(r, messages, "cancelled")
  <2>1. "cancelled" \in Ended
    BY EndedStatuses
  <2>2. Finished(r, "cancelled")
    BY <1>2, <1>6, <2>1, SameExtended, FinalFacts
  <2>3. ~Retired(r)
    BY <1>2 DEF Retired
  <2> QED
    BY <1>1, <1>2, <1>3, <1>4, <2>1, <2>2, <2>3, FinishedInv
<1> QED
  BY <1>5, <1>6 DEF CancelRun

LEMMA RunCollectedStep ==
  ASSUME IInv, NEW r \in Runs, RunCollected(r)
  PROVE  IInv'
<1> USE DEF IInv
<1> DEFINE b == run[r].business
           j == <<"run", r>>
<1>1. /\ j \in procs /\ Collected(j) /\ j \in Jobs
      /\ UNCHANGED <<conv, pipe, told>>
  BY JobFacts DEF RunCollected
<1>2. run[r].status # "absent" /\ b \in Businesses
  BY <1>1, BegunRuns DEF RunInv, RunsBegun
<1>3. ~Retired(r)
  BY <1>1 DEF Retired
<1>4. /\ \A d \in Convs : conv[d].status \notin Active
      /\ \A q \in Runs : q # r => run[q].status \notin Active
  BY <1>1, JobFacts DEF OneJob
<1>5. /\ procs' \subseteq procs /\ j \notin procs'
      /\ \A k \in Jobs : worker'[k] # "none" <=> k \in procs'
      /\ worker' \in [Jobs -> {"none", "exit0", "exit1"} \cup Alive]
  BY <1>1, CollectedFacts DEF Collected
<1>6. PICK status \in Outcomes(r) :
        IF status = "awaiting_approval"
        THEN /\ run' = [run EXCEPT ![r].status = status]
             /\ business' = [business EXCEPT ![b].status = status]
             /\ UNCHANGED <<messages, session>>
        ELSE RunFinal(r, messages, status)
  BY DEF RunCollected
<1>7. /\ status \in Ended \cup {"awaiting_approval"}
      /\ status = "awaiting_approval" => run[r].status \in Active
  BY DEF Outcomes, Ended, Resumable
<1>8. CASE status = "awaiting_approval"
  <2>1. status \in Active
    BY <1>8, EndedStatuses
  <2>2. RunBecomes(r, status, b, run[r].goal, run[r].words, run[r].touched)
    BY <1>6, <1>8, <2>1, Tables, EndedStatuses, RunMoved
  <2>3. BusinessMoved(b, status, business[b].active, business[b].goalSubmitted)
    BY <1>2, <1>6, <1>8, <2>1, Tables, EndedStatuses, BusinessStatus
  <2> QED
    BY <1>1, <1>5, <1>6, <1>7, <1>8, <2>1, <2>2, <2>3, StatusInv
<1>9. CASE status # "awaiting_approval"
  <2>1. status \in Ended
    BY <1>7, <1>9
  <2>2. Finished(r, status)
    BY <1>2, <1>6, <1>9, <2>1, SameExtended, FinalFacts
  <2> QED
    BY <1>1, <1>2, <1>3, <1>4, <1>5, <2>1, <2>2, FinishedInv
<1> QED
  BY <1>8, <1>9

-----------------------------------------------------------------------------
(* A run that goes on.                                                     *)

\* A run that has a process again, for the goal its business has.
LEMMA GoesOnInv ==
  ASSUME IInv, NEW r \in Runs, run[r].status # "absent", ~Retired(r), procs = {},
         run[r].goal = business[run[r].business].goal,
         \A d \in Convs : conv[d].status \notin Active,
         \A q \in Runs : q # r => run[q].status \notin Active,
         RunBecomes(r, "running", run[r].business, run[r].goal, run[r].words, run[r].touched),
         BusinessMoved(run[r].business, "running", r, business[run[r].business].goalSubmitted),
         Marks(r, FALSE), session' = <<"run", r>>, Open(<<"run", r>>),
         UNCHANGED <<conv, pipe, told>>
  PROVE  IInv'
<1> USE DEF IInv
<1> DEFINE b == run[r].business
           j == <<"run", r>>
<1>0. "running" \in Active /\ "running" # "absent" /\ "running" # "failed"
  BY EndedStatuses
<1>1. /\ b \in Businesses /\ Known(b)
      /\ \A q \in Runs : run[q].status # "absent"
           => run[q].business \in Businesses /\ Known(run[q].business)
  BY BegunRuns
<1>2. /\ run' \in [Runs -> RunRow]
      /\ run'[r].status = "running"
      /\ \A q \in Runs : q # r => run'[q] = run[q]
      /\ \A q \in Runs : /\ run'[q].business = run[q].business /\ run'[q].goal = run[q].goal
                         /\ run'[q].words = run[q].words /\ run'[q].touched = run[q].touched
  BY DEF RunBecomes
<1>3. /\ business' \in [Businesses -> BusinessRow]
      /\ business'[b].active = r
      /\ \A d \in Businesses : /\ business'[d].goalSubmitted = business[d].goalSubmitted
                               /\ business'[d].goal = business[d].goal
                               /\ business'[d].words = business[d].words
                               /\ Known(d) => business'[d].status # "absent"
  BY <1>0 DEF BusinessMoved, BusinessBecomes, Known
<1>4. /\ messages' \in Seq(Message) /\ Kept(messages, messages')
      /\ DOMAIN messages \subseteq DOMAIN messages'
      /\ \A i \in DOMAIN messages : i \in Users' =>
           i \in Users /\ messages'[i].by = messages[i].by
  BY DEF Marks, Kept
<1>5. /\ j \in Jobs /\ procs' = {j} /\ procs' \subseteq Jobs
      /\ worker' \in [Jobs -> {"none", "exit0", "exit1"} \cup Alive]
      /\ \A k \in Jobs : worker'[k] # "none" <=> k \in procs'
  BY JobFacts, OpenFacts DEF Open
<1> HIDE DEF b
<1>6. TypeOK'
  <2>1. /\ conv' \in [Convs -> ConvRow] /\ session' \in Jobs \cup {NoJob}
        /\ pipe' \in [Convs -> Seq(Businesses \cup {NoBusiness})]
        /\ told' \in [Businesses -> SUBSET Goals]
    BY <1>5, Tables DEF TypeOK
  <2> QED
    BY <1>2, <1>3, <1>4, <1>5, <2>1, TypedByTables
<1>7. \A q \in Runs : run'[q].status \in Active <=> q = r
  BY <1>0, <1>2
<1>8. SessionNamesItsJob'
  BY <1>2, <1>3, <1>7 DEF SessionNamesItsJob, b
<1>9. OneJob'
  BY <1>5, <1>7, JobFacts DEF OneJob
<1>10. TalkInv'
  BY <1>3, <1>4, <1>5, JobFacts, Quiet DEF Known
<1>11. RunsBegun'
  <2>1. ASSUME NEW q \in Runs
        PROVE  /\ run'[q].words \subseteq {0} \cup DOMAIN messages'
               /\ IF run'[q].status = "absent"
                  THEN /\ run'[q].business = NoBusiness /\ run'[q].words = {}
                       /\ ~run'[q].touched /\ <<"run", q>> \notin procs'
                       /\ \A x \in Runs : q < x => run'[x].status = "absent"
                  ELSE /\ run'[q].business \in Businesses
                       /\ business'[run'[q].business].status # "absent"
    <3>1. run[q].words \subseteq {0} \cup DOMAIN messages
      BY DEF RunInv, RunsBegun
    <3>2. CASE q = r
      <4>1. run'[r].business = b /\ run'[r].words = run[r].words /\ run'[r].status # "absent"
        BY <1>0, <1>2 DEF b
      <4> QED
        BY <1>1, <1>3, <1>4, <3>1, <3>2, <4>1
    <3>3. CASE q # r
      <4>1. run'[q] = run[q] /\ <<"run", q>> \notin procs'
        BY <1>2, <1>5, <3>3, JobFacts
      <4>2. run[q].status = "absent" => \A x \in Runs : q < x => run'[x].status = "absent"
        BY <1>2 DEF RunInv, RunsBegun
      <4> QED
        BY <1>3, <1>4, <4>1, <4>2 DEF RunInv, RunsBegun, Known
    <3> QED
      BY <3>2, <3>3
  <2> QED
    BY <2>1 DEF RunsBegun, Known
<1>12. LatestRunsGoal'
  BY <1>2, <1>3 DEF RunInv, LatestRunsGoal
<1>13. RunsWorkTheConfirmedGoal'
  <2>1. run'[r].goal = business'[run'[r].business].goal
    BY <1>1, <1>2, <1>3 DEF b
  <2> QED
    BY <1>7, <2>1 DEF RunsWorkTheConfirmedGoal
<1>14. WordsMarked'
  <2>1. ASSUME NEW q \in Runs, q # r, Retired(q)
        PROVE  Retired(q)'
    <3>1. /\ run[q].business \in Businesses /\ run'[q] = run[q]
          /\ <<"run", q>> \notin procs' /\ run[q].status = "failed"
      BY <1>1, <1>2, <1>5, <2>1, JobFacts DEF Retired
    <3>2. \/ ~business[run[q].business].goalSubmitted
          \/ \E x \in Runs : q < x /\ run[x].business = run[q].business
      BY <2>1 DEF Retired
    <3>3. \/ ~business'[run'[q].business].goalSubmitted
          \/ \E x \in Runs : q < x /\ run'[x].business = run'[q].business
      BY <1>2, <1>3, <3>1, <3>2
    <3> QED
      BY <2>1, <3>1, <3>3 DEF Retired
  <2>2. \A q \in Runs : \A i \in run[q].words : i \in Users' => i \in DOMAIN messages
    BY <1>4, WordsOld DEF Users
  <2>3. ASSUME NEW q \in Runs, NEW i \in run[q].words, i \in Users'
        PROVE  messages'[i].by = q \/ Retired(q)'
    <3>1. i \in Users /\ messages'[i].by = messages[i].by
      BY <1>4, <2>2, <2>3
    <3>2. messages[i].by = q \/ Retired(q)
      BY <2>3, <3>1 DEF RunInv, WordsMarked
    <3> QED
      BY <2>1, <3>1, <3>2
  <2> QED
    BY <1>2, <2>3 DEF WordsMarked
<1> QED
  BY <1>6, <1>8, <1>9, <1>10, <1>11, <1>12, <1>13, <1>14 DEF RunInv

LEMMA RelaunchInv ==
  ASSUME IInv, NEW r \in Runs, run[r].status # "absent", ~Retired(r), procs = {},
         run[r].goal = business[run[r].business].goal,
         \A d \in Convs : conv[d].status \notin Active,
         \A q \in Runs : q # r => run[q].status \notin Active,
         NEW ms, Extended(ms), NEW p \in {0} \cup Positions, Relaunch(r, ms, p),
         UNCHANGED <<conv, pipe, told>>
  PROVE  IInv'
<1> USE DEF IInv
<1> DEFINE b == run[r].business
<1>1. b \in Businesses
  BY BegunRuns
<1>2. CASE /\ run' = [run EXCEPT ![r].status = "running", ![r].continued = TRUE,
                                 ![r].revised = p]
           /\ messages' = ms
           /\ business' = [business EXCEPT ![b].status = "running", ![b].active = r]
           /\ session' = <<"run", r>>
           /\ Open(<<"run", r>>)
  <2>1. "running" \in RowStatuses /\ "running" \in BusinessStatuses /\ r \in {0} \cup Runs
    BY EndedStatuses
  <2>2. RunBecomes(r, "running", b, run[r].goal, run[r].words, run[r].touched)
    <3>1. run \in [Runs -> RunRow]
      BY Tables
    <3> QED
      BY <1>2, <2>1, <3>1, RunMoved
  <2>3. BusinessMoved(b, "running", r, business[b].goalSubmitted)
    BY <1>1, <1>2, <2>1, Tables, BusinessActive
  <2>4. Marks(r, FALSE)
    BY <1>2, FinalMarks
  <2> QED
    BY <1>2, <2>2, <2>3, <2>4, GoesOnInv
<1>3. CASE RunFinal(r, ms, "failed") /\ UNCHANGED <<procs, worker>>
  <2>1. "failed" \in Ended
    BY EndedStatuses
  <2>2. Finished(r, "failed")
    BY <1>1, <1>3, <2>1, FinalFacts
  <2>3. /\ procs' \subseteq procs /\ <<"run", r>> \notin procs'
        /\ \A k \in Jobs : worker'[k] # "none" <=> k \in procs'
        /\ worker' \in [Jobs -> {"none", "exit0", "exit1"} \cup Alive]
    BY <1>3 DEF TypeOK, OneJob
  <2> QED
    BY <2>1, <2>2, <2>3, FinishedInv
<1> QED
  BY <1>2, <1>3 DEF Relaunch

\* A session where only the run r may be active.
LEMMA IdleButFacts ==
  ASSUME NEW r \in Runs, IdleBut(r)
  PROVE  /\ procs = {}
         /\ \A d \in Convs : conv[d].status \notin Active
         /\ \A q \in Runs : q # r => run[q].status \notin Active
  BY DEF IdleBut

LEMMA ResumeRunStep ==
  ASSUME IInv, NEW r \in Runs, ResumeRun(r)
  PROVE  IInv'
<1> USE DEF IInv
<1> DEFINE b == run[r].business
<1>1. /\ run[r].status \in Resumable /\ Idle /\ UnchangedBusiness(r)
      /\ Relaunch(r, messages, run[r].revised)
      /\ UNCHANGED <<conv, pipe, told>>
  BY DEF ResumeRun
<1>2. run[r].status # "absent" /\ b \in Businesses
  BY <1>1, BegunRuns DEF Resumable
<1>3. /\ procs = {} /\ \A d \in Convs : conv[d].status \notin Active
      /\ \A q \in Runs : run[q].status \notin Active
  BY <1>1, IdleFacts
<1>4. /\ business[b].goalSubmitted
      /\ \A q \in Runs : run[q].business = b => q <= r
  BY <1>1 DEF UnchangedBusiness, RunsOf
<1>5. run[r].goal = business[b].goal
  BY <1>2, <1>4 DEF RunInv, LatestRunsGoal
<1>6. ~Retired(r)
  <2>1. ~\E q \in Runs : r < q /\ run[q].business = b
    BY <1>4, JobFacts
  <2> QED
    BY <1>4, <2>1 DEF Retired
<1>7. run[r].revised \in {0} \cup Positions
  BY DEF TypeOK
<1> QED
  BY <1>1, <1>2, <1>3, <1>5, <1>6, <1>7, SameExtended, RelaunchInv

LEMMA ContinueRunStep ==
  ASSUME IInv, NEW r \in Runs, ContinueRun(r)
  PROVE  IInv'
<1> USE DEF IInv
<1>1. /\ run[r].status = "awaiting_approval" /\ IdleBut(r)
      /\ Relaunch(r, messages, run[r].revised)
      /\ UNCHANGED <<conv, pipe, told>>
  BY DEF ContinueRun
<1>2. run[r].status # "absent" /\ ~Retired(r)
  BY <1>1 DEF Retired
<1>3. run[r].goal = business[run[r].business].goal
  BY <1>1 DEF RunInv, RunsWorkTheConfirmedGoal, Active
<1>4. run[r].revised \in {0} \cup Positions
  BY DEF TypeOK
<1> QED
  BY <1>1, <1>2, <1>3, <1>4, IdleButFacts, SameExtended, RelaunchInv

LEMMA ReviseRunStep ==
  ASSUME IInv, NEW r \in Runs, ReviseRun(r)
  PROVE  IInv'
<1> USE DEF IInv
<1> DEFINE ms == Append(messages, User(run[r].business, r))
<1>1. /\ run[r].status = "awaiting_approval" /\ IdleBut(r)
      /\ Relaunch(r, ms, Len(messages) + 1)
      /\ UNCHANGED <<conv, pipe, told>>
  BY DEF ReviseRun
<1>2. run[r].status # "absent" /\ ~Retired(r)
  BY <1>1 DEF Retired
<1>3. run[r].goal = business[run[r].business].goal
  BY <1>1 DEF RunInv, RunsWorkTheConfirmedGoal, Active
<1>4. run[r].business \in Businesses /\ r \in {0} \cup Runs
  BY <1>2, BegunRuns
<1>5. Len(messages) + 1 \in {0} \cup Positions
  BY <1>4, NoteFacts
<1>6. Extended(ms)
  <2>1. ms \in Seq(Message) /\ Kept(messages, ms)
    BY <1>4, NoteFacts
  <2>2. \A i \in DOMAIN messages : ms[i] = messages[i]
    BY <1>4, NoteFacts
  <2> QED
    BY <2>1, <2>2 DEF Extended
<1> HIDE DEF ms
<1> QED
  BY <1>1, <1>2, <1>3, <1>5, <1>6, IdleButFacts, RelaunchInv

-----------------------------------------------------------------------------
(* The start of a run.                                                     *)

\* Runs are numbered in the order in which they begin.
LEMMA FirstAbsent ==
  ASSUME RunInv, NEW r \in Runs, run[r].status = "absent"
  PROVE  /\ run[r].business = NoBusiness /\ run[r].words = {} /\ ~run[r].touched
         /\ <<"run", r>> \notin procs
         /\ \A q \in Runs : r < q => run[q].status = "absent"
         /\ \A q \in Runs : run[q].status # "absent" => q < r \/ q = r
<1>1. /\ run[r].business = NoBusiness /\ run[r].words = {} /\ ~run[r].touched
      /\ <<"run", r>> \notin procs
      /\ \A q \in Runs : r < q => run[q].status = "absent"
  BY DEF RunInv, RunsBegun
<1>2. \A q \in Runs : q < r \/ q = r \/ r < q
  BY JobFacts
<1> QED
  BY <1>1, <1>2

\* What a run is told first is the goal of its business and notes that wait.
LEMMA InstructionFacts ==
  ASSUME IInv, NEW b \in Businesses
  PROVE  /\ Instruction(b) \subseteq {0} \cup DOMAIN messages
         /\ Instruction(b) \subseteq Goals
         /\ \A i \in Instruction(b) : i \in Users => i \in Notes(b)
         /\ \A i \in Notes(b) : i \in DOMAIN messages /\ messages[i].role = "user"
         /\ \A i \in Instruction(b) \cap Notes(b) : messages[i].by = 0
<1> USE DEF IInv
<1>1. DOMAIN messages \subseteq Goals /\ 0 \in Goals
  BY DEF TypeOK, Goals
<1>2. /\ \A i \in Notes(b) : i \in DOMAIN messages /\ messages[i].role = "user"
      /\ Notes(b) \subseteq Users
  BY DEF Notes, Users, IsUser
<1>3. business[b].goal \in {0} \cup DOMAIN messages /\ business[b].goal \notin Users
  <2>1. 0 \notin Users
    BY DEF TypeOK, Users
  <2>2. Confirmed \subseteq DOMAIN messages /\ \A p \in Confirmed : p \notin Users
    BY DEF Confirmed, Proposals, IsProposal, Users, IsUser
  <2> QED
    BY <2>1, <2>2 DEF TalkInv, GoalsConfirmed
<1>4. \A i \in Instruction(b) :
        (i \in Notes(b) /\ messages[i].by = 0) \/ i = business[b].goal
  BY DEF Instruction
<1>5. Instruction(b) \subseteq {0} \cup DOMAIN messages
  BY <1>2, <1>3, <1>4
<1>6. \A i \in Instruction(b) : i \in Users => i \in Notes(b)
  BY <1>3, <1>4
<1>7. \A i \in Instruction(b) \cap Notes(b) : messages[i].by = 0
  BY <1>2, <1>3, <1>4
<1> QED
  BY <1>1, <1>2, <1>5, <1>6, <1>7

\* A run that began with words S for its business's goal.
BegunRun(r, b, status, S) ==
  RunBecomes(r, status, b, business[b].goal, S, FALSE)

\* What the runs know of each other when the run r has begun.
LEMMA BegunInv ==
  ASSUME IInv, NEW r \in Runs, run[r].status = "absent", NEW b \in Businesses, Known(b),
         NEW status \in Active \cup Ended, NEW S, BegunRun(r, b, status, S),
         S \subseteq {0} \cup DOMAIN messages,
         \A q \in Runs : q < r => run[q].status # "absent",
         NEW active, NEW submitted \in BOOLEAN, BusinessMoved(b, status, active, submitted),
         DOMAIN messages' = DOMAIN messages,
         \A q \in Runs : <<"run", q>> \in procs' => q = r
  PROVE  RunsBegun' /\ LatestRunsGoal'
<1> USE DEF IInv
<1>1. /\ run[r].business = NoBusiness
      /\ \A q \in Runs : r < q => run[q].status = "absent"
      /\ \A q \in Runs : run[q].status # "absent" => q < r \/ q = r
  BY FirstAbsent
<1>2. /\ \A q \in Runs : q # r => run'[q] = run[q]
      /\ run'[r].status = status /\ run'[r].business = b /\ run'[r].goal = business[b].goal
      /\ run'[r].words = S
  BY DEF BegunRun, RunBecomes
<1>3. status # "absent"
  BY EndedStatuses
<1>4. /\ \A d \in Businesses : d # b => business'[d] = business[d]
      /\ business'[b].goal = business[b].goal
      /\ business'[b].status = status
  BY DEF BusinessMoved, BusinessBecomes
<1>5. \A d \in Businesses : Known(d) => business'[d].status # "absent"
  BY <1>3, <1>4 DEF Known
<1>6. RunsBegun'
  <2>1. ASSUME NEW q \in Runs
        PROVE  /\ run'[q].words \subseteq {0} \cup DOMAIN messages'
               /\ IF run'[q].status = "absent"
                  THEN /\ run'[q].business = NoBusiness /\ run'[q].words = {}
                       /\ ~run'[q].touched /\ <<"run", q>> \notin procs'
                       /\ \A x \in Runs : q < x => run'[x].status = "absent"
                  ELSE /\ run'[q].business \in Businesses
                       /\ business'[run'[q].business].status # "absent"
    <3>1. CASE q = r
      BY <1>2, <1>3, <1>4, <3>1
    <3>2. CASE q # r
      <4>1. run'[q] = run[q] /\ <<"run", q>> \notin procs'
        BY <1>2, <3>2
      <4>2. run[q].words \subseteq {0} \cup DOMAIN messages'
        BY DEF RunInv, RunsBegun
      <4>3. CASE run[q].status = "absent"
        <5>1. /\ run[q].business = NoBusiness /\ run[q].words = {} /\ ~run[q].touched
              /\ \A x \in Runs : q < x => run[x].status = "absent"
          BY <4>3, FirstAbsent
        <5>2. ~(q < r)
          BY <4>3
        <5>3. \A x \in Runs : q < x => run'[x].status = "absent"
          BY <1>2, <5>1, <5>2
        <5> QED
          BY <4>1, <4>2, <4>3, <5>1, <5>3
      <4>4. CASE run[q].status # "absent"
        <5>1. run[q].business \in Businesses /\ Known(run[q].business)
          BY <4>4, BegunRuns
        <5> QED
          BY <1>5, <4>1, <4>2, <4>4, <5>1
      <4> QED
        BY <4>3, <4>4
    <3> QED
      BY <3>1, <3>2
  <2> QED
    BY <2>1 DEF RunsBegun, Known
<1>7. LatestRunsGoal'
  <2>1. ASSUME NEW q \in Runs, NEW d \in Businesses,
               run'[q].business = d, business'[d].goalSubmitted,
               \A x \in Runs : run'[x].business = d => x <= q
        PROVE  run'[q].goal = business'[d].goal
    <3>1. CASE q = r
      BY <1>2, <1>4, <2>1, <3>1
    <3>2. CASE q # r
      <4>1. run'[q] = run[q]
        BY <1>2, <3>2
      <4>2. d # b
        <5>1. SUFFICES ASSUME d = b PROVE FALSE
          OBVIOUS
        <5>2. r <= q
          BY <1>2, <2>1, <5>1
        <5>3. run[q].status = "absent"
          BY <1>1, <3>2, <5>2, JobFacts
        <5>4. run[q].business = NoBusiness
          BY <5>3, FirstAbsent
        <5> QED
          BY <2>1, <4>1, <5>4, ConversationAssumption
      <4>3. \A x \in Runs : run[x].business = d => x <= q
        <5> TAKE x \in Runs
        <5>1. CASE x = r
          BY <1>1, <5>1, ConversationAssumption
        <5>2. CASE x # r
          BY <1>2, <2>1, <5>2
        <5> QED
          BY <5>1, <5>2
      <4>4. business'[d] = business[d]
        BY <1>4, <4>2
      <4> QED
        BY <2>1, <4>1, <4>3, <4>4 DEF RunInv, LatestRunsGoal
    <3> QED
      BY <3>1, <3>2
  <2> QED
    BY <2>1 DEF LatestRunsGoal
<1> QED
  BY <1>6, <1>7

\* The other runs that are retired stay so.
LEMMA RetiredOthers ==
  ASSUME IInv, NEW r \in Runs, run[r].status = "absent", NEW b \in Businesses,
         NEW status, NEW S, BegunRun(r, b, status, S),
         \A q \in Runs : q < r => run[q].status # "absent",
         NEW active, NEW submitted, BusinessMoved(b, status, active, submitted),
         \A q \in Runs : <<"run", q>> \in procs' => q = r,
         NEW q \in Runs, Retired(q)
  PROVE  Retired(q)'
<1> USE DEF IInv
<1>1. /\ run[q].status = "failed" /\ ~run[q].touched /\ q # r
      /\ \/ ~business[run[q].business].goalSubmitted
         \/ \E x \in Runs : q < x /\ run[x].business = run[q].business
  BY DEF Retired
<1>2. run[q].business \in Businesses /\ q < r
  BY <1>1, BegunRuns, FirstAbsent
<1>3. /\ \A x \in Runs : x # r => run'[x] = run[x]
      /\ run'[r].business = b
  BY DEF BegunRun, RunBecomes
<1>4. \A d \in Businesses : d # b => business'[d] = business[d]
  BY DEF BusinessMoved, BusinessBecomes
<1>5. /\ run'[q] = run[q] /\ <<"run", q>> \notin procs'
  BY <1>1, <1>3
<1>6. \/ ~business'[run'[q].business].goalSubmitted
      \/ \E x \in Runs : q < x /\ run'[x].business = run'[q].business
  <2>1. CASE run[q].business = b
    BY <1>2, <1>3, <1>5, <2>1
  <2>2. CASE run[q].business # b /\ ~business[run[q].business].goalSubmitted
    BY <1>2, <1>4, <1>5, <2>2
  <2>3. ASSUME run[q].business # b, NEW x \in Runs, q < x, run[x].business = run[q].business
        PROVE  \E y \in Runs : q < y /\ run'[y].business = run'[q].business
    <3>1. x # r
      BY <1>2, <2>3, FirstAbsent, ConversationAssumption
    <3> QED
      BY <1>3, <1>5, <2>3, <3>1
  <2> QED
    BY <1>1, <2>1, <2>2, <2>3
<1> QED
  BY <1>1, <1>5, <1>6 DEF Retired

\* The run r has begun with the words of its business that wait for it.
LEMMA LaunchedInv ==
  ASSUME IInv, NEW r \in Runs, run[r].status = "absent",
         \A q \in Runs : q < r => run[q].status # "absent",
         NEW b \in Businesses, Known(b), Idle, Launched(r, b), UNCHANGED <<conv, pipe, told>>
  PROVE  IInv'
<1> USE DEF IInv
<1> DEFINE j == <<"run", r>>
           S == Instruction(b)
<1>1. /\ procs = {} /\ session = NoJob
      /\ \A d \in Convs : conv[d].status \notin Active
      /\ \A q \in Runs : run[q].status \notin Active
  BY IdleFacts
<1>2. /\ run[r].words = {} /\ ~run[r].touched
  BY FirstAbsent
<1>3. /\ S \subseteq {0} \cup DOMAIN messages /\ S \in SUBSET Goals
      /\ \A i \in S : i \in Users => i \in Notes(b)
      /\ \A i \in S \cap Notes(b) : messages[i].by = 0
  <2>1. S \subseteq {0} \cup DOMAIN messages /\ S \subseteq Goals
    BY InstructionFacts
  <2>2. \A i \in S : i \in Users => i \in Notes(b)
    BY InstructionFacts
  <2>3. \A i \in S \cap Notes(b) : messages[i].by = 0
    BY InstructionFacts
  <2> QED
    BY <2>1, <2>2, <2>3
<1>4. /\ run' = [run EXCEPT ![r].status = "running", ![r].business = b,
                            ![r].goal = business[b].goal, ![r].words = S]
      /\ messages' = [i \in DOMAIN messages |->
           IF i \in S \cap Notes(b) THEN [messages[i] EXCEPT !.by = r] ELSE messages[i]]
      /\ business' = [business EXCEPT ![b].status = "running", ![b].active = r,
                                      ![b].goalSubmitted = TRUE]
      /\ session' = j /\ Open(j)
  BY DEF Launched
<1>5. \A i \in S \cap Notes(b) : i \in DOMAIN messages /\ messages[i].role = "user"
  BY DEF Notes, Users, IsUser
<1> HIDE DEF S
<1>6. /\ messages' = Marked(messages, r, S \cap Notes(b)) /\ messages \in Seq(Message)
  BY <1>4 DEF Marked, TypeOK
<1>7. /\ messages' \in Seq(Message) /\ DOMAIN messages' = DOMAIN messages
      /\ \A i \in DOMAIN messages :
           IF i \in S \cap Notes(b)
           THEN /\ messages'[i].role = "user" /\ messages'[i].business = messages[i].business
                /\ messages'[i].by = r
           ELSE messages'[i] = messages[i]
  <2> DEFINE N == S \cap Notes(b)
  <2> HIDE DEF N
  <2>1. \A i \in N : i \in DOMAIN messages /\ messages[i].role = "user"
    BY <1>5 DEF N
  <2>2. messages' = Marked(messages, r, N)
    BY <1>6 DEF N
  <2>3. messages' \in Seq(Message)
    BY <1>6, <2>1, <2>2, MarkedFacts
  <2>4. DOMAIN messages' = DOMAIN messages
    BY <1>6, <2>1, <2>2, MarkedFacts
  <2>5. \A i \in DOMAIN messages :
          IF i \in N
          THEN /\ messages'[i].role = "user" /\ messages'[i].business = messages[i].business
               /\ messages'[i].by = r
          ELSE messages'[i] = messages[i]
    BY <1>6, <2>1, <2>2, MarkedFacts
  <2> QED
    BY <2>3, <2>4, <2>5 DEF N
<1>8. Kept(messages, messages') /\ Users' = Users
  <2>1. \A i \in DOMAIN messages :
          /\ messages'[i].role = messages[i].role
          /\ messages[i].role = "user" => messages'[i].business = messages[i].business
          /\ messages[i].role = "proposal" => messages'[i] = messages[i]
    BY <1>5, <1>7
  <2> QED
    BY <1>7, <2>1 DEF Kept, Users, IsUser
<1>9. BegunRun(r, b, "running", S)
  <2>1. run \in [Runs -> RunRow] /\ "running" \in RowStatuses /\ business[b].goal \in Goals
    BY Tables, EndedStatuses DEF TypeOK
  <2>2. RunBecomes(r, "running", b, business[b].goal, S, run[r].touched)
    BY <1>3, <1>4, <2>1, RunBegun
  <2>3. run[r].touched = FALSE
    BY <1>2, <2>1 DEF RunRow
  <2> QED
    BY <2>2, <2>3 DEF BegunRun
<1>10. BusinessMoved(b, "running", r, TRUE)
  <2>1. "running" \in BusinessStatuses /\ r \in {0} \cup Runs
    BY EndedStatuses
  <2> QED
    BY <1>4, <2>1, Tables, BusinessUsed
<1>11. /\ run' \in [Runs -> RunRow] /\ run'[r].status = "running"
       /\ run'[r].business = b /\ run'[r].goal = business[b].goal /\ run'[r].words = S
       /\ \A q \in Runs : q # r => run'[q] = run[q]
  BY <1>9 DEF BegunRun, RunBecomes
<1>12. /\ business' \in [Businesses -> BusinessRow] /\ business'[b].active = r
       /\ \A d \in Businesses : /\ business'[d].goal = business[d].goal
                                /\ business'[d].words = business[d].words
                                /\ Known(d) => business'[d].status # "absent"
  BY <1>10 DEF BusinessMoved, BusinessBecomes, Known
<1>13. /\ j \in Jobs /\ procs' = {j} /\ procs' \subseteq Jobs
       /\ worker' \in [Jobs -> {"none", "exit0", "exit1"} \cup Alive]
       /\ \A k \in Jobs : worker'[k] # "none" <=> k \in procs'
  BY <1>1, <1>4, JobFacts, OpenFacts DEF Open
<1>14. TypeOK'
  <2>1. /\ conv' \in [Convs -> ConvRow] /\ session' \in Jobs \cup {NoJob}
        /\ pipe' \in [Convs -> Seq(Businesses \cup {NoBusiness})]
        /\ told' \in [Businesses -> SUBSET Goals]
    BY <1>4, <1>13, Tables DEF TypeOK
  <2> QED
    BY <1>7, <1>11, <1>12, <1>13, <2>1, TypedByTables
<1>15. \A q \in Runs : run'[q].status \in Active <=> q = r
  BY <1>1, <1>11, EndedStatuses
<1>16. SessionNamesItsJob'
  BY <1>1, <1>4, <1>11, <1>12, <1>15 DEF SessionNamesItsJob
<1>17. OneJob'
  BY <1>1, <1>13, <1>15, JobFacts DEF OneJob
<1>18. TalkInv'
  BY <1>8, <1>12, <1>13, JobFacts, Quiet DEF Known
<1>19. \A q \in Runs : <<"run", q>> \in procs' => q = r
  BY <1>13, JobFacts
<1>20. RunsBegun' /\ LatestRunsGoal'
  BY <1>3, <1>7, <1>9, <1>10, <1>19, BegunInv DEF Active
<1>21. RunsWorkTheConfirmedGoal'
  BY <1>11, <1>12, <1>15 DEF RunsWorkTheConfirmedGoal
<1>22. WordsMarked'
  <2>1. ASSUME NEW q \in Runs, Retired(q)
        PROVE  Retired(q)'
    BY <1>9, <1>10, <1>19, <2>1, RetiredOthers
  <2>2. ASSUME NEW q \in Runs, NEW i \in run'[q].words, i \in Users
        PROVE  messages'[i].by = q \/ Retired(q)'
    <3>1. i \in DOMAIN messages
      BY <2>2 DEF Users
    <3>2. CASE q = r
      BY <1>3, <1>7, <1>11, <2>2, <3>1, <3>2
    <3>3. CASE q # r
      <4>1. i \in run[q].words
        BY <1>11, <2>2, <3>3
      <4>2. messages[i].by = q \/ Retired(q)
        BY <2>2, <4>1 DEF RunInv, WordsMarked
      <4>3. messages[i].by = q => messages'[i].by = q
        <5>1. q # 0
          BY JobFacts
        <5> QED
          BY <1>3, <1>7, <3>1, <5>1
      <4> QED
        BY <2>1, <4>2, <4>3
    <3> QED
      BY <3>2, <3>3
  <2> QED
    BY <1>8, <2>2 DEF WordsMarked
<1> QED
  BY <1>14, <1>16, <1>17, <1>18, <1>20, <1>21, <1>22 DEF RunInv

\* The run r could not be launched: it has no words, and leaves those of its business.
LEMMA NotLaunchedInv ==
  ASSUME IInv, NEW r \in Runs, run[r].status = "absent",
         \A q \in Runs : q < r => run[q].status # "absent",
         NEW b \in Businesses, Known(b), Idle, NotLaunched(r, b), UNCHANGED <<conv, pipe, told>>
  PROVE  IInv'
<1> USE DEF IInv
<1>1. /\ procs = {} /\ session = NoJob
      /\ \A d \in Convs : conv[d].status \notin Active
      /\ \A q \in Runs : run[q].status \notin Active
  BY IdleFacts
<1>2. /\ run[r].words = {} /\ ~run[r].touched
  BY FirstAbsent
<1>3. /\ run' = [run EXCEPT ![r].status = "failed", ![r].business = b,
                            ![r].goal = business[b].goal]
      /\ business' = [business EXCEPT ![b].status = "failed", ![b].goalSubmitted = FALSE]
      /\ UNCHANGED <<messages, session, procs, worker>>
  BY DEF NotLaunched
<1>4. BegunRun(r, b, "failed", {})
  <2>1. run \in [Runs -> RunRow] /\ "failed" \in RowStatuses /\ business[b].goal \in Goals
    BY Tables, EndedStatuses DEF TypeOK
  <2>2. RunBecomes(r, "failed", b, business[b].goal, {}, run[r].touched)
    BY <1>2, <1>3, <2>1, RunBegun
  <2>3. run[r].touched = FALSE
    BY <1>2, <2>1 DEF RunRow
  <2> QED
    BY <2>2, <2>3 DEF BegunRun
<1>5. BusinessMoved(b, "failed", business[b].active, FALSE)
  <2>1. "failed" \in BusinessStatuses
    BY EndedStatuses
  <2> QED
    BY <1>3, <2>1, Tables, BusinessUnused
<1>6. /\ run' \in [Runs -> RunRow] /\ run'[r].status = "failed" /\ run'[r].words = {}
      /\ \A q \in Runs : q # r => run'[q] = run[q]
  BY <1>4 DEF BegunRun, RunBecomes
<1>7. /\ business' \in [Businesses -> BusinessRow]
      /\ \A d \in Businesses : /\ business'[d].goal = business[d].goal
                               /\ business'[d].words = business[d].words
                               /\ Known(d) => business'[d].status # "absent"
  BY <1>5 DEF BusinessMoved, BusinessBecomes, Known
<1>8. TypeOK'
  <2>1. /\ conv' \in [Convs -> ConvRow] /\ session' \in Jobs \cup {NoJob}
        /\ messages' \in Seq(Message) /\ procs' \subseteq Jobs
        /\ worker' \in [Jobs -> {"none", "exit0", "exit1"} \cup Alive]
        /\ pipe' \in [Convs -> Seq(Businesses \cup {NoBusiness})]
        /\ told' \in [Businesses -> SUBSET Goals]
    BY <1>3, Tables DEF TypeOK
  <2> QED
    BY <1>6, <1>7, <2>1, TypedByTables
<1>9. \A q \in Runs : run'[q].status \notin Active
  BY <1>1, <1>6, EndedStatuses
<1>10. SessionNamesItsJob'
  BY <1>1, <1>9 DEF SessionNamesItsJob
<1>11. OneJob'
  BY <1>3, <1>9 DEF OneJob
<1>12. TalkInv'
  BY <1>3, <1>7, KeptSame, Quiet DEF Known
<1>13. \A q \in Runs : <<"run", q>> \in procs' => q = r
  BY <1>1, <1>3
<1>14. RunsBegun' /\ LatestRunsGoal'
  <2>1. "failed" \in Active \cup Ended /\ DOMAIN messages' = DOMAIN messages
        /\ FALSE \in BOOLEAN
    BY <1>3, EndedStatuses
  <2> QED
    BY <1>4, <1>5, <1>13, <2>1, BegunInv
<1>15. RunsWorkTheConfirmedGoal'
  BY <1>9 DEF RunsWorkTheConfirmedGoal
<1>16. WordsMarked'
  <2>1. ASSUME NEW q \in Runs, Retired(q)
        PROVE  Retired(q)'
    BY <1>4, <1>5, <1>13, <2>1, RetiredOthers
  <2>2. Users' = Users
    BY <1>3 DEF Users, IsUser
  <2> QED
    BY <1>3, <1>6, <2>1, <2>2 DEF RunInv, WordsMarked
<1> QED
  BY <1>8, <1>10, <1>11, <1>12, <1>14, <1>15, <1>16 DEF RunInv

LEMMA StartRunStep ==
  ASSUME IInv, NEW r \in Runs, NEW b \in Businesses, StartRun(r, b)
  PROVE  IInv'
<1> USE DEF IInv
<1>1. /\ run[r].status = "absent" /\ \A q \in Runs : q < r => run[q].status # "absent"
      /\ Known(b) /\ Idle
      /\ UNCHANGED <<conv, pipe, told>>
  BY DEF StartRun
<1>2. CASE Launched(r, b)
  BY <1>1, <1>2, LaunchedInv
<1>3. CASE NotLaunched(r, b)
  BY <1>1, <1>3, NotLaunchedInv
<1>4. CASE /\ business' = [business EXCEPT ![b].status = "blocked"]
           /\ UNCHANGED <<messages, run, session, procs, worker>>
  <2>1. "blocked" \in BusinessStatuses
    BY DEF BusinessStatuses
  <2>2. BusinessMoved(b, "blocked", business[b].active, business[b].goalSubmitted)
    BY <1>4, <2>1, Tables, BusinessStatus
  <2>3. /\ business' \in [Businesses -> BusinessRow]
        /\ \A d \in Businesses : /\ business'[d].goalSubmitted = business[d].goalSubmitted
                                 /\ business'[d].goal = business[d].goal
                                 /\ business'[d].words = business[d].words
                                 /\ business'[d].active = business[d].active
                                 /\ Known(d) => business'[d].status # "absent"
    BY <2>2 DEF BusinessMoved, BusinessBecomes, Known
  <2>4. TypeOK'
    <3>1. /\ conv' \in [Convs -> ConvRow] /\ run' \in [Runs -> RunRow]
          /\ session' \in Jobs \cup {NoJob}
          /\ messages' \in Seq(Message) /\ procs' \subseteq Jobs
          /\ worker' \in [Jobs -> {"none", "exit0", "exit1"} \cup Alive]
          /\ pipe' \in [Convs -> Seq(Businesses \cup {NoBusiness})]
          /\ told' \in [Businesses -> SUBSET Goals]
      BY <1>1, <1>4, Tables DEF TypeOK
    <3> QED
      BY <2>3, <3>1, TypedByTables
  <2>5. SessionNamesItsJob' /\ OneJob'
    <3>1. \A q \in Runs : run[q].status \notin Active
      BY <1>1, IdleFacts
    <3>2. \A d \in Convs : conv[d].status \notin Active
      BY <1>1, IdleFacts
    <3> QED
      BY <1>1, <1>4, <3>1, <3>2 DEF SessionNamesItsJob, OneJob
  <2>6. TalkInv'
    BY <1>1, <1>4, <2>3, KeptSame, Quiet DEF Known
  <2>7. RunInv'
    <3>1. \A i \in DOMAIN messages :
            i \in Users' => i \in Users /\ messages'[i].by = messages[i].by
      BY <1>4 DEF Users, IsUser
    <3>2. messages' \in Seq(Message)
      BY <1>4 DEF TypeOK
    <3> QED
      BY <1>4, <2>3, <3>1, <3>2, RunsAlone DEF Known
  <2> QED
    BY <2>4, <2>5, <2>6, <2>7
<1> QED
  BY <1>2, <1>3, <1>4 DEF StartRun

-----------------------------------------------------------------------------
(* The work of a run, and a restart of the host.                           *)

LEMMA RunWorksStep ==
  ASSUME IInv, NEW r \in Runs, RunWorks(r)
  PROVE  IInv'
<1> USE DEF IInv
<1> DEFINE j == <<"run", r>>
<1>1. /\ worker[j] = "prompted" /\ worker' = [worker EXCEPT ![j] = "worked"]
      /\ run' = [run EXCEPT ![r].touched = TRUE]
      /\ UNCHANGED <<messages, conv, business, session, procs, pipe, told>>
  BY DEF RunWorks
<1>2. j \in Jobs /\ j \in procs
  BY <1>1, JobFacts DEF OneJob
<1>3. run[r].status # "absent" /\ ~Retired(r)
  BY <1>2 DEF RunInv, RunsBegun, Retired
<1>4. RunBecomes(r, run[r].status, run[r].business, run[r].goal, run[r].words, TRUE)
  BY <1>1, Tables, RunTouched
<1>5. /\ run' \in [Runs -> RunRow]
      /\ \A q \in Runs : q # r => run'[q] = run[q]
      /\ \A q \in Runs : /\ run'[q].status = run[q].status
                         /\ run'[q].business = run[q].business /\ run'[q].goal = run[q].goal
                         /\ run'[q].words = run[q].words
                         /\ q # r => run'[q].touched = run[q].touched
  BY <1>4 DEF RunBecomes
<1>6. /\ worker' \in [Jobs -> {"none", "exit0", "exit1"} \cup Alive]
      /\ \A k \in Jobs : worker'[k] # "none" <=> k \in procs
  BY <1>1, <1>2 DEF TypeOK, OneJob, Alive
<1>7. TypeOK'
  <2>1. /\ conv' \in [Convs -> ConvRow] /\ business' \in [Businesses -> BusinessRow]
        /\ session' \in Jobs \cup {NoJob}
        /\ messages' \in Seq(Message) /\ procs' \subseteq Jobs
        /\ pipe' \in [Convs -> Seq(Businesses \cup {NoBusiness})]
        /\ told' \in [Businesses -> SUBSET Goals]
    BY <1>1, Tables DEF TypeOK
  <2> QED
    BY <1>5, <1>6, <2>1, TypedByTables
<1>8. SessionNamesItsJob'
  BY <1>1, <1>5 DEF SessionNamesItsJob
<1>9. OneJob'
  BY <1>1, <1>5, <1>6 DEF OneJob
<1>10. TalkInv'
  BY <1>1, KeptSame, Quiet DEF Known
<1>11. RunsBegun'
  <2>1. ASSUME NEW q \in Runs
        PROVE  /\ run'[q].words \subseteq {0} \cup DOMAIN messages
               /\ IF run'[q].status = "absent"
                  THEN /\ run'[q].business = NoBusiness /\ run'[q].words = {}
                       /\ ~run'[q].touched /\ <<"run", q>> \notin procs
                       /\ \A x \in Runs : q < x => run'[x].status = "absent"
                  ELSE /\ run'[q].business \in Businesses
                       /\ business[run'[q].business].status # "absent"
    <3>1. run'[q].words \subseteq {0} \cup DOMAIN messages
      BY <1>5 DEF RunInv, RunsBegun
    <3>2. CASE run[q].status = "absent"
      BY <1>3, <1>5, <3>1, <3>2 DEF RunInv, RunsBegun
    <3>3. CASE run[q].status # "absent"
      BY <1>5, <3>1, <3>3, BegunRuns DEF Known
    <3> QED
      BY <3>2, <3>3
  <2> QED
    BY <1>1, <2>1 DEF RunsBegun, Known
<1>12. LatestRunsGoal'
  BY <1>1, <1>5 DEF RunInv, LatestRunsGoal
<1>13. RunsWorkTheConfirmedGoal'
  BY <1>1, <1>5 DEF RunInv, RunsWorkTheConfirmedGoal
<1>14. WordsMarked'
  <2>1. ASSUME NEW q \in Runs, Retired(q)
        PROVE  Retired(q)'
    BY <1>1, <1>3, <1>5, <2>1 DEF Retired
  <2>2. Users' = Users
    BY <1>1 DEF Users, IsUser
  <2> QED
    BY <1>1, <1>5, <2>1, <2>2 DEF RunInv, WordsMarked
<1> QED
  BY <1>7, <1>8, <1>9, <1>10, <1>11, <1>12, <1>13, <1>14 DEF RunInv

\* A row that a restart interrupts.
LEMMA InterruptedRows ==
  /\ \A w \in ConvRow :
       LET v == [w EXCEPT !.status = "interrupted", !.stop = FALSE]
       IN  v \in ConvRow /\ v.status = "interrupted" /\ v.sources = w.sources
           /\ v.proposals = w.proposals
  /\ \A w \in RunRow :
       LET v == [w EXCEPT !.status = "interrupted", !.stop = FALSE]
       IN  v \in RunRow /\ v.status = "interrupted" /\ v.business = w.business
           /\ v.goal = w.goal /\ v.words = w.words /\ v.touched = w.touched
  /\ \A w \in BusinessRow :
       LET v == [w EXCEPT !.status = "interrupted", !.active = 0]
       IN  v \in BusinessRow /\ v.status = "interrupted" /\ v.goal = w.goal
           /\ v.words = w.words /\ v.goalSubmitted = w.goalSubmitted
<1>1. ASSUME NEW w \in ConvRow
      PROVE  LET v == [w EXCEPT !.status = "interrupted", !.stop = FALSE]
             IN  v \in ConvRow /\ v.status = "interrupted" /\ v.sources = w.sources
                 /\ v.proposals = w.proposals
  BY DEF ConvRow, Ended, Resumable
<1>2. ASSUME NEW w \in RunRow
      PROVE  LET v == [w EXCEPT !.status = "interrupted", !.stop = FALSE]
             IN  v \in RunRow /\ v.status = "interrupted" /\ v.business = w.business
                 /\ v.goal = w.goal /\ v.words = w.words /\ v.touched = w.touched
  BY DEF RunRow, Ended, Resumable
<1>3. ASSUME NEW w \in BusinessRow
      PROVE  LET v == [w EXCEPT !.status = "interrupted", !.active = 0]
             IN  v \in BusinessRow /\ v.status = "interrupted" /\ v.goal = w.goal
                 /\ v.words = w.words /\ v.goalSubmitted = w.goalSubmitted
  BY DEF BusinessRow, Ended, Resumable
<1> QED
  BY <1>1, <1>2, <1>3

LEMMA RestartStep ==
  ASSUME IInv, Restart
  PROVE  IInv'
<1> USE DEF IInv
<1> DEFINE caught == {r \in Runs : run[r].status \in Active}
<1>1. /\ conv' = [c \in Convs |-> IF conv[c].status \in Active
                    THEN [conv[c] EXCEPT !.status = "interrupted", !.stop = FALSE] ELSE conv[c]]
      /\ run' = [r \in Runs |-> IF r \in caught
                   THEN [run[r] EXCEPT !.status = "interrupted", !.stop = FALSE] ELSE run[r]]
      /\ business' = [b \in Businesses |-> IF \E r \in caught : run[r].business = b
                        THEN [business[b] EXCEPT !.status = "interrupted", !.active = 0]
                        ELSE business[b]]
      /\ session' = NoJob /\ procs' = {}
      /\ worker' = [j \in Jobs |-> "none"]
      /\ pipe' = [c \in Convs |-> <<>>]
      /\ UNCHANGED <<messages, told>>
  BY DEF Restart
<1>2. "interrupted" \notin Active /\ "interrupted" # "absent" /\ "completed" \notin Active
      /\ "absent" \notin Active /\ "failed" \notin Active
  BY DEF Active
<1>3. /\ conv' \in [Convs -> ConvRow]
      /\ \A c \in Convs : /\ conv'[c].status \notin Active
                          /\ conv'[c].sources = conv[c].sources
                          /\ conv'[c].proposals = conv[c].proposals
                          /\ conv[c].status = "completed" => conv'[c].status = "completed"
  <2>1. ASSUME NEW c \in Convs
        PROVE  /\ conv'[c] \in ConvRow
               /\ conv'[c].status \notin Active
               /\ conv'[c].sources = conv[c].sources
               /\ conv'[c].proposals = conv[c].proposals
               /\ conv[c].status = "completed" => conv'[c].status = "completed"
    <3>1. conv[c] \in ConvRow
      BY Tables
    <3>2. CASE conv[c].status \in Active
      <4>1. conv'[c] = [conv[c] EXCEPT !.status = "interrupted", !.stop = FALSE]
        BY <1>1, <3>2
      <4> QED
        BY <1>2, <3>1, <3>2, <4>1, InterruptedRows
    <3>3. CASE conv[c].status \notin Active
      <4>1. conv'[c] = conv[c]
        BY <1>1, <3>3
      <4> QED
        BY <3>1, <3>3, <4>1
    <3> QED
      BY <3>2, <3>3
  <2>2. conv' \in [Convs -> ConvRow]
    BY <1>1, <2>1
  <2> QED
    BY <2>1, <2>2
<1>4. /\ run' \in [Runs -> RunRow]
      /\ \A r \in Runs : /\ run'[r].status \notin Active
                         /\ run'[r].status = "absent" <=> run[r].status = "absent"
                         /\ run[r].status = "failed" => run'[r].status = "failed"
                         /\ run'[r].business = run[r].business /\ run'[r].goal = run[r].goal
                         /\ run'[r].words = run[r].words
                         /\ run'[r].touched = run[r].touched
  <2>1. ASSUME NEW r \in Runs
        PROVE  /\ run'[r] \in RunRow
               /\ run'[r].status \notin Active
               /\ run'[r].status = "absent" <=> run[r].status = "absent"
               /\ run[r].status = "failed" => run'[r].status = "failed"
               /\ run'[r].business = run[r].business /\ run'[r].goal = run[r].goal
               /\ run'[r].words = run[r].words
               /\ run'[r].touched = run[r].touched
    <3>1. run[r] \in RunRow
      BY Tables
    <3>2. CASE run[r].status \in Active
      <4>1. run'[r] = [run[r] EXCEPT !.status = "interrupted", !.stop = FALSE]
        BY <1>1, <3>2
      <4> QED
        BY <1>2, <3>1, <3>2, <4>1, InterruptedRows, ZenonT(40)
    <3>3. CASE run[r].status \notin Active
      <4>1. run'[r] = run[r]
        BY <1>1, <3>3
      <4> QED
        BY <3>1, <3>3, <4>1
    <3> QED
      BY <3>2, <3>3
  <2>2. run' \in [Runs -> RunRow]
    BY <1>1, <2>1
  <2> QED
    BY <2>1, <2>2
<1>5. /\ business' \in [Businesses -> BusinessRow]
      /\ \A b \in Businesses : /\ Known(b) => business'[b].status # "absent"
                               /\ business'[b].goal = business[b].goal
                               /\ business'[b].words = business[b].words
                               /\ business'[b].goalSubmitted = business[b].goalSubmitted
  <2>1. ASSUME NEW b \in Businesses
        PROVE  /\ business'[b] \in BusinessRow
               /\ Known(b) => business'[b].status # "absent"
               /\ business'[b].goal = business[b].goal
               /\ business'[b].words = business[b].words
               /\ business'[b].goalSubmitted = business[b].goalSubmitted
    <3> DEFINE hit == \E r \in caught : run[r].business = b
    <3>1. business[b] \in BusinessRow
      BY Tables
    <3>2. business'[b] = IF hit
                         THEN [business[b] EXCEPT !.status = "interrupted", !.active = 0]
                         ELSE business[b]
      BY <1>1
    <3> HIDE DEF hit
    <3>3. CASE hit
      <4>1. business'[b] = [business[b] EXCEPT !.status = "interrupted", !.active = 0]
        BY <3>2, <3>3
      <4> QED
        BY <1>2, <3>1, <4>1, InterruptedRows
    <3>4. CASE ~hit
      BY <3>1, <3>2, <3>4 DEF Known
    <3> QED
      BY <3>3, <3>4
  <2>2. business' \in [Businesses -> BusinessRow]
    BY <1>1, <2>1
  <2> QED
    BY <2>1, <2>2
<1> HIDE DEF caught
<1>6. /\ worker' \in [Jobs -> {"none", "exit0", "exit1"} \cup Alive]
      /\ \A j \in Jobs : worker'[j] = "none"
  BY <1>1
<1>7. TypeOK'
  <2>1. /\ session' \in Jobs \cup {NoJob}
        /\ messages' \in Seq(Message) /\ procs' \subseteq Jobs
        /\ told' \in [Businesses -> SUBSET Goals]
    BY <1>1 DEF TypeOK
  <2>2. pipe' \in [Convs -> Seq(Businesses \cup {NoBusiness})]
    <3>1. <<>> \in Seq(Businesses \cup {NoBusiness})
      OBVIOUS
    <3> QED
      BY <1>1, <3>1
  <2> QED
    BY <1>3, <1>4, <1>5, <1>6, <2>1, <2>2, TypedByTables
<1>8. SessionNamesItsJob'
  BY <1>3, <1>4 DEF SessionNamesItsJob
<1>9. OneJob'
  BY <1>1, <1>3, <1>4, <1>6 DEF OneJob
<1>10. TalkInv'
  <2>1. \A c \in Convs : <<"conv", c>> \notin procs'
    BY <1>1
  <2> QED
    BY <1>1, <1>3, <1>5, <2>1, KeptSame, Quiet DEF Known
<1>11. RunsBegun'
  <2>1. ASSUME NEW q \in Runs
        PROVE  /\ run'[q].words \subseteq {0} \cup DOMAIN messages
               /\ IF run'[q].status = "absent"
                  THEN /\ run'[q].business = NoBusiness /\ run'[q].words = {}
                       /\ ~run'[q].touched
                       /\ \A x \in Runs : q < x => run'[x].status = "absent"
                  ELSE /\ run'[q].business \in Businesses
                       /\ business'[run'[q].business].status # "absent"
    <3>1. run'[q].words \subseteq {0} \cup DOMAIN messages
      BY <1>4 DEF RunInv, RunsBegun
    <3>2. CASE run[q].status = "absent"
      <4>1. /\ run[q].business = NoBusiness /\ run[q].words = {} /\ ~run[q].touched
            /\ \A x \in Runs : q < x => run[x].status = "absent"
        BY <3>2, FirstAbsent
      <4> QED
        BY <1>4, <3>1, <3>2, <4>1
    <3>3. CASE run[q].status # "absent"
      <4>1. run[q].business \in Businesses /\ Known(run[q].business)
        BY <3>3, BegunRuns
      <4> QED
        BY <1>4, <1>5, <3>1, <3>3, <4>1
    <3> QED
      BY <3>2, <3>3
  <2> QED
    BY <1>1, <2>1 DEF RunsBegun, Known
<1>12. LatestRunsGoal'
  BY <1>4, <1>5 DEF RunInv, LatestRunsGoal
<1>13. RunsWorkTheConfirmedGoal'
  BY <1>4 DEF RunsWorkTheConfirmedGoal
<1>14. WordsMarked'
  <2>1. ASSUME NEW q \in Runs, Retired(q)
        PROVE  Retired(q)'
    <3>1. /\ run[q].business \in Businesses /\ run[q].status = "failed" /\ ~run[q].touched
          /\ \/ ~business[run[q].business].goalSubmitted
             \/ \E x \in Runs : q < x /\ run[x].business = run[q].business
      BY <2>1, BegunRuns DEF Retired
    <3>2. \/ ~business'[run'[q].business].goalSubmitted
          \/ \E x \in Runs : q < x /\ run'[x].business = run'[q].business
      BY <1>4, <1>5, <3>1
    <3> QED
      BY <1>1, <1>4, <3>1, <3>2 DEF Retired
  <2>2. Users' = Users
    BY <1>1 DEF Users, IsUser
  <2> QED
    BY <1>1, <1>4, <2>1, <2>2 DEF RunInv, WordsMarked
<1> QED
  BY <1>7, <1>8, <1>9, <1>10, <1>11, <1>12, <1>13, <1>14 DEF RunInv

-----------------------------------------------------------------------------
(* The invariant.                                                          *)

LEMMA InitInv ==
  ASSUME Init
  PROVE  IInv
<1>1. /\ messages = <<>> /\ session = NoJob /\ procs = {}
      /\ \A c \in Convs : /\ conv[c].status = "absent" /\ conv[c].sources = {}
                          /\ conv[c].proposals = <<>>
      /\ \A b \in Businesses : business[b].goal = 0 /\ business[b].words = {}
      /\ \A r \in Runs : /\ run[r].status = "absent" /\ run[r].business = NoBusiness
                         /\ run[r].words = {} /\ ~run[r].touched
      /\ \A j \in Jobs : worker[j] = "none"
  BY DEF Init
<1>2. DOMAIN messages = {} /\ Users = {} /\ Proposals = {} /\ Confirmed = {} /\ Spoken = {}
  BY <1>1 DEF Users, Proposals, Confirmed, Spoken
<1>3. "absent" \notin Active /\ NoBusiness \notin Businesses
  BY ConversationAssumption DEF Active
<1>4. TypeOK
  <2>1. messages \in Seq(Message)
    BY <1>1
  <2>2. conv \in [Convs -> ConvRow]
    BY DEF Init, ConvRow
  <2>3. business \in [Businesses -> BusinessRow]
    <3>1. \A b \in Businesses : (b \in Legacy) \in BOOLEAN
      OBVIOUS
    <3> QED
      BY <3>1 DEF Init, BusinessRow, Goals
  <2>4. run \in [Runs -> RunRow]
    BY DEF Init, RunRow, Goals
  <2>5. /\ worker \in [Jobs -> {"none", "exit0", "exit1"} \cup Alive]
        /\ pipe \in [Convs -> Seq(Businesses \cup {NoBusiness})]
        /\ told \in [Businesses -> SUBSET Goals]
    BY DEF Init
  <2> QED
    BY <1>1, <2>1, <2>2, <2>3, <2>4, <2>5 DEF TypeOK, ConvRow, BusinessRow, RunRow
<1>5. SessionNamesItsJob
  BY <1>1, <1>3 DEF SessionNamesItsJob
<1>6. OneJob
  BY <1>1, <1>3 DEF OneJob
<1>7. TalkInv
  <2>1. Listed
    BY <1>1, <1>2 DEF Listed
  <2>2. SourcesBefore
    BY <1>1, <1>2 DEF SourcesBefore
  <2>3. SpokenBetween /\ WordsCovered /\ TargetsKnown /\ GoalsConfirmed
    BY <1>1, <1>2 DEF SpokenBetween, WordsCovered, TargetsKnown, GoalsConfirmed
  <2>4. OneGoalPerConversation /\ GoalIsNewest
    BY <1>2 DEF OneGoalPerConversation, GoalIsNewest
  <2> QED
    BY <2>1, <2>2, <2>3, <2>4 DEF TalkInv
<1>8. RunInv
  <2>1. RunsBegun
    BY <1>1 DEF RunsBegun
  <2>2. LatestRunsGoal
    BY <1>1, <1>3 DEF LatestRunsGoal
  <2>3. RunsWorkTheConfirmedGoal /\ WordsMarked
    BY <1>1, <1>3 DEF RunsWorkTheConfirmedGoal, WordsMarked
  <2> QED
    BY <2>1, <2>2, <2>3 DEF RunInv
<1> QED
  BY <1>4, <1>5, <1>6, <1>7, <1>8 DEF IInv

\* A step that changes nothing.
LEMMA StutterStep ==
  ASSUME IInv, UNCHANGED vars
  PROVE  IInv'
<1>1. UNCHANGED <<messages, conv, business, run, session, procs, worker, pipe, told>>
  BY DEF vars
<1>2. Users' = Users /\ Proposals' = Proposals
  BY <1>1 DEF Users, IsUser, Proposals, IsProposal
<1>3. Confirmed' = Confirmed /\ Spoken' = Spoken
  BY <1>1, <1>2 DEF Confirmed, Spoken
<1>4. TypeOK' /\ SessionNamesItsJob' /\ OneJob'
  BY <1>1 DEF IInv, TypeOK, SessionNamesItsJob, OneJob
<1>5. TalkInv'
  BY <1>1, KeptSame, Quiet DEF Known
<1>6. RunInv'
  <2>1. /\ messages' \in Seq(Message)
        /\ \A i \in DOMAIN messages : i \in Users' =>
             i \in Users /\ messages'[i].by = messages[i].by
    BY <1>1, <1>2 DEF IInv, TypeOK
  <2> QED
    BY <1>1, <2>1, RunsAlone DEF Known
<1> QED
  BY <1>4, <1>5, <1>6 DEF IInv

\* Every step keeps the invariant.
LEMMA NextInv ==
  ASSUME IInv, [Next]_vars
  PROVE  IInv'
<1>1. CASE \E b \in Businesses : SendNote(b)
  BY <1>1, SendNoteStep
<1>2. CASE \E c \in Convs, b \in Businesses \cup {NoBusiness} : SendRequest(c, b)
  BY <1>2, SendRequestStep
<1>3. CASE \E c \in Convs, b \in Businesses \cup {NoBusiness} : ConvProposes(c, b)
  BY <1>3, ConvProposesStep
<1>4. CASE \E c \in Convs : ConvReads(c)
  BY <1>4, ConvReadsStep
<1>5. CASE \E c \in Convs : ConvCollected(c)
  BY <1>5, ConvCollectedStep
<1>6. CASE \E c \in Convs : CancelConv(c)
  BY <1>6, CancelConvStep
<1>7. CASE \E p \in DOMAIN messages : Reject(p)
  BY <1>7, RejectStep
<1>8. CASE \E p \in DOMAIN messages : Confirm(p)
  BY <1>8, ConfirmStep
<1>9. CASE \E r \in Runs, b \in Businesses : StartRun(r, b)
  BY <1>9, StartRunStep
<1>10. CASE \E r \in Runs : ResumeRun(r)
  BY <1>10, ResumeRunStep
<1>11. CASE \E r \in Runs : ContinueRun(r)
  BY <1>11, ContinueRunStep
<1>12. CASE \E r \in Runs : ReviseRun(r)
  BY <1>12, ReviseRunStep
<1>13. CASE \E r \in Runs : CancelRun(r)
  BY <1>13, CancelRunStep
<1>14. CASE \E r \in Runs : RunPrompts(r)
  BY <1>14, RunPromptsStep
<1>15. CASE \E r \in Runs : RunWorks(r)
  BY <1>15, RunWorksStep
<1>16. CASE \E r \in Runs : RunCollected(r)
  BY <1>16, RunCollectedStep
<1>17. CASE \E j \in Jobs, code \in {"exit0", "exit1"} : Ends(j, code)
  BY <1>17, EndsStep
<1>18. CASE Restart
  BY <1>18, RestartStep
<1>19. CASE UNCHANGED vars
  BY <1>19, StutterStep
<1> QED
  BY <1>1, <1>2, <1>3, <1>4, <1>5, <1>6, <1>7, <1>8, <1>9, <1>10, <1>11, <1>12, <1>13, <1>14,
     <1>15, <1>16, <1>17, <1>18, <1>19 DEF Next

LEMMA Invariant == Spec => []IInv
<1>1. Init => IInv
  BY InitInv
<1>2. IInv /\ [Next]_vars => IInv'
  BY NextInv
<1> QED
  BY <1>1, <1>2, PTL DEF Spec

-----------------------------------------------------------------------------
(* Theorems.                                                               *)

\* The state is what the handlers of the conversation take it for.
THEOREM ConversationTyped == Spec => []TypeOK
<1>1. IInv => TypeOK
  BY DEF IInv
<1> QED
  BY <1>1, Invariant, PTL

\* The session and the business name the job under way: a job that ends late frees
\* no place that is not its own.
THEOREM JobNamed == Spec => []SessionNamesItsJob
<1>1. IInv => SessionNamesItsJob
  BY DEF IInv
<1> QED
  BY <1>1, Invariant, PTL

\* What the user says between two goals is a source of the second.
THEOREM WordsReachTheGoal == Spec => []GoalsCoverTheirWords
<1>1. IInv => GoalsCoverTheirWords
  BY DEF IInv, TalkInv, WordsCovered, GoalsCoverTheirWords, Confirmed
<1> QED
  BY <1>1, Invariant, PTL

\* Of the proposals of a conversation at most the last is confirmed, and only of one
\* that ended well.
THEOREM ConversationMakesOneGoal == Spec => []OneGoalPerConversation
<1>1. IInv => OneGoalPerConversation
  BY DEF IInv, TalkInv
<1> QED
  BY <1>1, Invariant, PTL

\* The goal of a business is the newest that was confirmed for it.
THEOREM NewestGoal == Spec => []GoalIsNewest
<1>1. IInv => GoalIsNewest
  BY DEF IInv, TalkInv
<1> QED
  BY <1>1, Invariant, PTL

\* A run that is under way works for the confirmed goal of its business.
THEOREM RunsServeTheGoal == Spec => []RunsWorkTheConfirmedGoal
<1>1. IInv => RunsWorkTheConfirmedGoal
  BY DEF IInv, RunInv
<1> QED
  BY <1>1, Invariant, PTL

\* Words of the user are worked on by one run at most: of the runs that were handed
\* them, the others came to nothing before their model began, and are retired.
THEOREM WordsHandedOnce == Spec => []HandedOnce
<1>1. ASSUME IInv, NEW i \in Users
      PROVE  Cardinality({r \in Runs : run[r].touched /\ i \in run[r].words}) <= 1
  <2> DEFINE S == {r \in Runs : run[r].touched /\ i \in run[r].words}
             owner == messages[i].by
  <2>1. \A r \in S : r = owner
    BY <1>1 DEF IInv, RunInv, WordsMarked, Retired
  <2>2. S \subseteq {owner}
    BY <2>1
  <2> HIDE DEF S
  <2>3. IsFiniteSet({owner}) /\ Cardinality({owner}) = 1
    BY FS_Singleton
  <2>4. Cardinality(S) <= Cardinality({owner})
    BY <2>2, <2>3, FS_Subset
  <2> QED
    BY <2>3, <2>4 DEF S
<1>2. IInv => HandedOnce
  BY <1>1 DEF HandedOnce
<1> QED
  BY <1>2, Invariant, PTL

=============================================================================
