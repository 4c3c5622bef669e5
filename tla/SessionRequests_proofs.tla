------------------------ MODULE SessionRequests_proofs ------------------------
(***************************************************************************)
(* The theorem that each request of a session pairs calls and results, for *)
(* any number of prompts, requests, calls and troubles.                    *)
(*                                                                         *)
(* That a repaired history is paired is shown in AgentSession_proofs of a  *)
(* history in order.  Here it is shown that histories are in order: in     *)
(* memory, however runs end, and when a load has read the session from its *)
(* file, whatever of it was written.                                       *)
(***************************************************************************)
EXTENDS AgentSession_proofs

-----------------------------------------------------------------------------
(* The pairing in memory.                                                  *)

\* What a request can hold of the history: all but blank failures.
Kept == {n \in Range(mem) : ~Silent(log[n])}
\* What is to be published and not in the history yet.
Coming == Range(run.out) \ Range(mem)

\* Calls without a result in the history, and without one on its way.
Open == Opens(log, Kept)
Due == Open \ Given(log, Coming)

\* The turns whose answers made calls.
Taken == {log[a].turn : a \in {b \in Kept : Made(log, b) # {}}}

InOrder == (\A i, j \in DOMAIN mem : i < j => mem[i] < mem[j]) /\ Laid(log, Kept)

\* Turns are counted, and an answer without words or calls has none.
Numbered ==
  \A n \in DOMAIN log : log[n].kind = "assistant" =>
    log[n].turn <= spent.requests /\ (log[n].blank => log[n].calls = 0)

\* What comes is newer than the history, and fits it: a result is of an open call, and
\* nothing else comes while a call is open.
Fits(n) ==
  /\ \/ Silent(log[n])
     \/ IsResult(log, n) /\ log[n].of \in Open
     \/ ~IsResult(log, n) /\ Open = {}
  /\ Made(log, n) # {} => run.phase = "answered" /\ run.out = <<n>> /\ log[n].turn \notin Taken
Fitting ==
  /\ \A i \in DOMAIN run.out : run.out[i] \notin Range(mem) =>
       /\ \A m \in Range(mem) : m < run.out[i]
       /\ \A j \in 1..(i - 1) : run.out[j] < run.out[i]
  /\ OneResult(log, Coming)
  /\ \A n \in Coming : Fits(n)

\* Which calls are open in a phase of the run.
Left == {Calls[k] : k \in {k \in DOMAIN Calls : k >= run.next}}
Phased ==
  /\ run.phase = "start" => Open = {}
  /\ run.phase = "turn" => Open = {} \/ (run.cancelled /\ run.out = <<>>)
  /\ run.phase = "waiting" =>
       run.out = <<>> /\ (run.late \/ (Open = {} /\ spent.requests \notin Taken))
  /\ run.phase = "answered" /\ run.out = <<>> /\ ~Failed(log[run.answer]) =>
       run.answer \in Kept /\ Open = Range(Calls)
  /\ run.phase \in {"seq", "par"} => run.answer \in Kept /\ ~run.blank
  /\ run.phase = "seq" => Due = Left
  /\ run.phase = "par" =>
       /\ run.out = <<>> /\ Open = Range(Calls)
       /\ run.cancelled \/ \A k \in DOMAIN Calls : k < run.next => tools[k] # "none"
  /\ run.phase = "turnEnd" => Due = {} \/ (run.cancelled /\ ~run.blank)

Steered ==
  /\ Range(store.writes) \subseteq Range(mem)
  /\ run.late => run.cancelled
  /\ run.cancelled => spent.cancels > 0
  /\ spent.queued = 0 => queue.steer = 0 /\ queue.follow = 0

Pairs == InOrder /\ Fitting /\ Phased /\ Steered

-----------------------------------------------------------------------------

LEMMA KeptFacts ==
  ASSUME IInv
  PROVE  /\ Range(mem) \subseteq DOMAIN log /\ Kept \subseteq Range(mem)
         /\ Range(run.out) \subseteq DOMAIN log /\ Coming \subseteq DOMAIN log
         /\ DOMAIN log \subseteq Nat /\ \A n \in DOMAIN log : log[n] \in Message
         /\ History(log, Kept) /\ History(log, DOMAIN log)
<1>1. log \in Seq(Message) /\ DOMAIN log = 1..Len(log) /\ Len(log) \in Nat
  BY Facts
<1>2. Range(mem) \subseteq DOMAIN log /\ Range(run.out) \subseteq DOMAIN log
  BY Facts, RangeOfSeq
<1>3. Kept \subseteq Range(mem) /\ Coming \subseteq Range(run.out)
  BY DEF Kept, Coming
<1>4. DOMAIN log \subseteq Nat /\ \A n \in DOMAIN log : log[n] \in Message
  BY <1>1
<1> QED
  BY <1>2, <1>3, <1>4 DEF History

\* The history does not change.
LEMMA KeptStays ==
  ASSUME IInv, NEW new, Grows(new), UNCHANGED mem
  PROVE  /\ Kept' = Kept /\ Open' = Open /\ (InOrder => InOrder')
         /\ \A n \in DOMAIN log : /\ Made(log', n) = Made(log, n) /\ log'[n] = log[n]
                                  /\ IsResult(log', n) <=> IsResult(log, n)
         /\ Taken' = Taken
<1>1. \A n \in DOMAIN log : log'[n] = log[n]
  BY DEF Grows
<1>2. Range(mem) \subseteq DOMAIN log /\ Kept \subseteq Range(mem)
  BY KeptFacts
<1>3. \A n \in DOMAIN log : /\ Made(log', n) = Made(log, n)
                            /\ IsResult(log', n) <=> IsResult(log, n)
  BY <1>1 DEF Made, IsResult
<1>4. Kept' = Kept
  <2>1. \A n \in Range(mem) : Silent(log'[n]) <=> Silent(log[n])
    BY <1>1, <1>2
  <2> QED
    BY <2>1 DEF Kept
<1>5. \A n \in Kept : log'[n] = log[n]
  BY <1>1, <1>2
<1>6. Opens(log', Kept) = Opens(log, Kept) /\ (Laid(log, Kept) => Laid(log', Kept))
  BY <1>5, SameHistory
<1>7. Open' = Open
  BY <1>4, <1>6 DEF Open
<1>8. InOrder => InOrder'
  BY <1>4, <1>6 DEF InOrder
<1>9. Taken' = Taken
  <2>1. \A a \in Kept : Made(log', a) = Made(log, a) /\ log'[a].turn = log[a].turn
    BY <1>2, <1>3, <1>5
  <2>2. {b \in Kept : Made(log', b) # {}} = {b \in Kept : Made(log, b) # {}}
    BY <2>1
  <2>3. \A b \in {x \in Kept : Made(log, x) # {}} : log'[b].turn = log[b].turn
    BY <2>1
  <2> QED
    BY <1>4, <2>2, <2>3 DEF Taken
<1> QED
  BY <1>1, <1>3, <1>4, <1>7, <1>8, <1>9

LEMMA NothingComes ==
  ASSUME run'.out = <<>>
  PROVE  Fitting' /\ Coming' = {} /\ Due' = Open' /\ Range(run'.out) = {}
<1>1. Range(run'.out) = {} /\ DOMAIN run'.out = {}
  BY DEF Range
<1>2. Coming' = {}
  BY <1>1 DEF Coming
<1>3. Given(log', {}) = {}
  BY DEF Given
<1>4. Due' = Open'
  BY <1>2, <1>3 DEF Due
<1>5. OneResult(log', {})
  BY DEF OneResult
<1> QED
  BY <1>1, <1>2, <1>4, <1>5 DEF Fitting

LEMMA NothingCame ==
  ASSUME run.out = <<>>
  PROVE  Coming = {} /\ Due = Open
<1>1. Coming = {}
  BY DEF Coming, Range
<1>2. Given(log, {}) = {}
  BY DEF Given
<1> QED
  BY <1>1, <1>2 DEF Due

LEMMA SameComes ==
  ASSUME IInv, Fitting, UNCHANGED <<log, mem>>, run'.out = run.out,
         run'.phase = run.phase \/ run.phase # "answered"
  PROVE  Fitting' /\ Due' = Due
<1>1. Kept' = Kept /\ Coming' = Coming
  BY DEF Kept, Coming
<1>2. Open' = Open
  BY <1>1 DEF Open
<1>3. Due' = Due
  BY <1>1, <1>2 DEF Due
<1>4. Taken' = Taken
  BY <1>1 DEF Taken
<1>5. \A n \in Coming : Fits(n)'
  <2> TAKE n \in Coming
  <2>1. Fits(n)
    BY DEF Fitting
  <2> QED
    BY <1>2, <1>4, <2>1 DEF Fits
<1>6. \A n \in Coming' : Fits(n)'
  BY <1>1, <1>5
<1>7. OneResult(log, Coming)'
  BY <1>1 DEF Fitting
<1> QED
  BY <1>3, <1>6, <1>7 DEF Fitting

\* New messages come, that fit the history.
Suits(new) ==
  /\ \A i \in DOMAIN new :
       /\ new[i].kind = "result" => new[i].of \in Open
       /\ new[i].kind # "result" => Silent(new[i]) \/ Open = {}
       /\ Range(CallsOf(new[i])) # {} =>
            run'.phase = "answered" /\ Len(new) = 1 /\ new[i].turn \notin Taken
  /\ \A i, j \in DOMAIN new :
       new[i].kind = "result" /\ new[j].kind = "result" /\ new[i].of = new[j].of => i = j

LEMMA NewComes ==
  ASSUME IInv, NEW new, Grows(new), UNCHANGED mem, run'.out = Ids(Len(log), new), Suits(new)
  PROVE  /\ Fitting' /\ Coming' = Range(run'.out)
         /\ \A c : c \in Due' <=> /\ c \in Open
                                  /\ \A i \in DOMAIN new : new[i].kind = "result" => new[i].of # c
<1> DEFINE out == run'.out
<1>1. /\ log \in Seq(Message) /\ Len(log) \in Nat /\ DOMAIN log = 1..Len(log)
      /\ new \in Seq(Message) /\ DOMAIN new = 1..Len(new) /\ Len(new) \in Nat
  BY Facts DEF Grows
<1>2. /\ DOMAIN out = 1..Len(new) /\ Len(out) = Len(new) /\ out \in Seq(Nat \ {0})
      /\ \A i \in 1..Len(new) : out[i] = Len(log) + i
  <2>1. out = Ids(Len(log), new)
    OBVIOUS
  <2> HIDE DEF out
  <2> QED
    BY <1>1, <2>1, IdsAre
<1>3. \A i \in DOMAIN out : i \in DOMAIN new /\ log'[out[i]] = new[i]
  BY <1>1, <1>2 DEF Grows
<1>4. Range(mem) \subseteq DOMAIN log
  BY KeptFacts
<1>5. \A i \in DOMAIN out : out[i] \notin DOMAIN log /\ out[i] \notin Range(mem)
  BY <1>1, <1>2, <1>4
<1>6. Coming' = Range(out)
  BY <1>5 DEF Coming, Range
<1>7. /\ Kept' = Kept /\ Open' = Open /\ Taken' = Taken
  BY KeptStays
<1> DEFINE S == Range(out)
<1> HIDE DEF out
<1>8. \A n \in S : \E i \in DOMAIN new : n = out[i] /\ log'[n] = new[i] /\ i \in DOMAIN out
  BY <1>2, <1>3 DEF Range
<1>9. \A n \in S : Fits(n)'
  <2> TAKE n \in S
  <2>1. PICK i \in DOMAIN new : n = out[i] /\ log'[n] = new[i] /\ i \in DOMAIN out
    BY <1>8
  <2>2. \/ Silent(log'[n])
        \/ IsResult(log', n) /\ log'[n].of \in Open'
        \/ ~IsResult(log', n) /\ Open' = {}
    BY <1>7, <2>1 DEF Suits, IsResult
  <2>3. ASSUME Made(log', n) # {}
        PROVE  run'.phase = "answered" /\ out = <<n>> /\ log'[n].turn \notin Taken'
    <3>1. Range(CallsOf(new[i])) # {}
      BY <2>1, <2>3 DEF Made
    <3>2. run'.phase = "answered" /\ Len(new) = 1 /\ new[i].turn \notin Taken
      BY <3>1 DEF Suits
    <3>3. out = <<n>>
      <4>1. i = 1 /\ DOMAIN out = 1..1 /\ Len(out) = 1
        BY <1>1, <1>2, <3>2, <2>1
      <4> QED
        BY <1>2, <2>1, <4>1
    <3> QED
      BY <1>7, <2>1, <3>2, <3>3
  <2> QED
    BY <2>2, <2>3 DEF Fits, out
<1>10. OneResult(log', S)
  <2>1. SUFFICES ASSUME NEW q \in S, NEW r \in S, IsResult(log', q), IsResult(log', r),
                        log'[q].of = log'[r].of
                 PROVE  q = r
    BY DEF OneResult
  <2>2. PICK i \in DOMAIN new : q = out[i] /\ log'[q] = new[i]
    BY <1>8
  <2>3. PICK j \in DOMAIN new : r = out[j] /\ log'[r] = new[j]
    BY <1>8
  <2> QED
    BY <2>1, <2>2, <2>3 DEF Suits, IsResult
<1>11. \A i \in DOMAIN out :
         /\ \A m \in Range(mem) : m < out[i]
         /\ \A j \in 1..(i - 1) : out[j] < out[i]
  BY <1>1, <1>2, <1>4
<1>12. Fitting'
  <2>1. \A n \in Coming' : Fits(n)'
    BY <1>6, <1>9 DEF out
  <2>2. OneResult(log', Coming')
    BY <1>6, <1>10 DEF out
  <2> QED
    BY <1>11, <2>1, <2>2 DEF Fitting, out
<1>13. \A c : c \in Given(log', S) <=> \E i \in DOMAIN new : new[i].kind = "result" /\ new[i].of = c
  <2> TAKE c
  <2>1. c \in Given(log', S) <=> \E n \in S : IsResult(log', n) /\ log'[n].of = c
    BY GivenIs
  <2>2. \A i \in DOMAIN new : out[i] \in S /\ log'[out[i]] = new[i]
    BY <1>1, <1>2, <1>3 DEF Range
  <2> QED
    BY <1>8, <2>1, <2>2 DEF IsResult
<1>14. Due' = Open \ Given(log', S)
  BY <1>6, <1>7 DEF Due, out
<1> QED
  BY <1>6, <1>12, <1>13, <1>14 DEF out

\* Nothing is written.
LEMMA Pairing ==
  ASSUME IInv, Pairs, UNCHANGED <<log, mem>>,
         run'.out = <<>> \/ (run'.out = run.out /\ run'.phase = run.phase), Phased', Steered'
  PROVE  Pairs'
<1>1. InOrder'
  <2>1. Grows(<<>>)
    BY Facts, SameGrows
  <2> QED
    BY <2>1, KeptStays DEF Pairs
<1>2. Fitting'
  <2>1. Fitting
    BY DEF Pairs
  <2> QED
    BY <2>1, NothingComes, SameComes
<1> QED
  BY <1>1, <1>2 DEF Pairs

LEMMA Kept0 ==
  ASSUME UNCHANGED <<log, mem>>
  PROVE  Kept' = Kept /\ Open' = Open /\ Taken' = Taken
<1>1. Kept' = Kept
  BY DEF Kept
<1> QED
  BY <1>1 DEF Open, Taken

LEMMA EndsPairs ==
  ASSUME IInv, Pairs, UNCHANGED <<log, mem, store, queue>>,
         run'.phase = "ended", run'.out = <<>>, run'.cancelled = run.cancelled,
         run'.late = run.late,
         spent'.queued = spent.queued, spent'.cancels = spent.cancels
  PROVE  Pairs'
<1>1. Phased'
  BY DEF Phased
<1>2. Steered'
  BY DEF Pairs, Steered
<1> QED
  BY <1>1, <1>2, Pairing

LEMMA GoesPairs ==
  ASSUME IInv, Pairs, NEW polled \in {<<>>, <<Plain>>}, Goes(polled),
         UNCHANGED <<mem, store, spent>>,
         Open = {} \/ (run.cancelled /\ polled = <<>>), spent.queued = 0 => queue' = queue
  PROVE  Pairs'
<1>1. /\ run'.phase = "turn" /\ run'.out = Ids(Len(log), polled)
      /\ run'.cancelled = run.cancelled /\ run'.late = run.late
  BY RunIs DEF Goes
<1>2. polled \in Seq(Message) /\ \A i \in DOMAIN polled : polled[i] = Plain
  <2>1. Plain \in Message
    BY DEF Message
  <2>2. \A i \in DOMAIN <<Plain>> : <<Plain>>[i] = Plain
    OBVIOUS
  <2>3. \A i \in DOMAIN <<>> : <<>>[i] = Plain
    OBVIOUS
  <2>4. <<>> \in Seq(Message) /\ <<Plain>> \in Seq(Message)
    BY <2>1
  <2> QED
    BY <2>2, <2>3, <2>4
<1>3. Grows(polled)
  BY <1>2, Facts, LogsGrow DEF Goes
<1>4. Suits(polled)
  <2>1. Plain.kind = "user" /\ Range(CallsOf(Plain)) = {}
    BY DEF Plain, CallsOf, Range
  <2>2. polled # <<>> => Open = {} /\ DOMAIN polled = {1}
    OBVIOUS
  <2>3. polled = <<>> => DOMAIN polled = {}
    OBVIOUS
  <2> QED
    BY <1>2, <2>1, <2>2, <2>3 DEF Suits
<1>5. Fitting'
  BY <1>1, <1>3, <1>4, NewComes
<1>6. InOrder' /\ Open' = Open
  BY <1>3, KeptStays DEF Pairs
<1>7. polled = <<>> => run'.out = <<>>
  <2>1. Ids(Len(log), <<>>) = <<>>
    BY DEF Ids
  <2> QED
    BY <1>1, <2>1
<1>8. Phased'
  BY <1>1, <1>6, <1>7 DEF Phased
<1>9. Steered'
  BY <1>1 DEF Pairs, Steered
<1> QED
  BY <1>5, <1>6, <1>8, <1>9 DEF Pairs

LEMMA PolledPairs ==
  ASSUME IInv, Pairs, NEW which \in {"steer", "follow"}, Polled(which),
         UNCHANGED <<mem, store, spent>>,
         Open = {}
  PROVE  Pairs'
<1>1. Goes(<<Plain>>) /\ queue[which] > 0
  BY DEF Polled
<1>2. spent.queued = 0 => queue.steer = 0 /\ queue.follow = 0
  BY DEF Pairs, Steered
<1>3. spent.queued # 0
  BY <1>1, <1>2
<1> QED
  BY <1>1, <1>3, GoesPairs

LEMMA StartTurnPairs ==
  ASSUME IInv, Pairs, StartTurn
  PROVE  Pairs'
<1>1. Open = {} /\ UNCHANGED <<mem, store, spent>>
  BY DEF StartTurn, Ready, Pairs, Phased
<1>2. CASE Polled("steer")
  BY <1>1, <1>2, PolledPairs
<1>3. CASE Goes(<<>>) /\ UNCHANGED queue
  BY <1>1, <1>3, GoesPairs
<1> QED
  BY <1>2, <1>3 DEF StartTurn

LEMMA NextTurnPairs ==
  ASSUME IInv, Pairs, Clean, NextTurn
  PROVE  Pairs'
<1>1. Ready("turnEnd") /\ UNCHANGED <<mem, store, spent>>
  BY DEF NextTurn
<1>2. Open = {} \/ (run.cancelled /\ ~run.blank)
  BY <1>1, NothingCame DEF Pairs, Phased, Ready
<1>3. Open # {} => queue.steer = 0 /\ queue.follow = 0
  BY <1>2 DEF Pairs, Steered, Clean
<1>4. CASE Polled("steer")
  <2>1. Open = {}
    BY <1>3, <1>4, Facts DEF Polled
  <2> QED
    BY <1>1, <1>4, <2>1, PolledPairs
<1>5. CASE run.blank /\ Goes(<<Plain>>) /\ UNCHANGED queue
  <2>1. Open = {}
    BY <1>2, <1>5
  <2> QED
    BY <1>1, <1>5, <2>1, GoesPairs
<1>6. CASE Goes(<<>>) /\ UNCHANGED queue
  BY <1>1, <1>2, <1>6, GoesPairs
<1>7. CASE Polled("follow")
  <2>1. Open = {}
    BY <1>3, <1>7, Facts DEF Polled
  <2> QED
    BY <1>1, <1>7, <2>1, PolledPairs
<1>8. CASE run' = [run EXCEPT !.phase = "ended"] /\ UNCHANGED <<queue, log>>
  <2>1. /\ run'.phase = "ended" /\ run'.out = <<>> /\ run'.cancelled = run.cancelled
        /\ run'.late = run.late
    BY <1>1, <1>8, RunIs DEF Ready
  <2> QED
    BY <1>1, <1>8, <2>1, EndsPairs
<1> QED
  BY <1>4, <1>5, <1>6, <1>7, <1>8 DEF NextTurn

LEMMA StopsPairs ==
  ASSUME IInv, Pairs, Pauses \/ FailedEnds \/ Close
  PROVE  Pairs'
<1>1. /\ run'.phase = "ended" /\ run'.out = <<>> /\ run'.cancelled = run.cancelled
      /\ run'.late = run.late
  BY RunIs DEF Pauses, FailedEnds, Close, Ready
<1>2. spent'.queued = spent.queued /\ spent'.cancels = spent.cancels
  <2>1. CASE Pauses \/ FailedEnds
    BY <2>1 DEF Pauses, FailedEnds
  <2>2. CASE Close
    BY <2>2, Facts DEF Close, Budgets
  <2> QED
    BY <2>1, <2>2
<1>3. UNCHANGED <<log, mem, store, queue>>
  BY DEF Pauses, FailedEnds, Close
<1> QED
  BY <1>1, <1>2, <1>3, EndsPairs

LEMMA RequestPairs ==
  ASSUME IInv, Numbered, Pairs, Request
  PROVE  Pairs'
<1>1. /\ run.phase = "turn" /\ run.out = <<>> /\ UNCHANGED <<log, mem, store, queue>>
      /\ run'.phase = "waiting" /\ run'.out = <<>> /\ run'.late = run.cancelled
      /\ run'.cancelled = run.cancelled
      /\ spent' = [spent EXCEPT !.requests = @ + (IF run.cancelled THEN 0 ELSE 1)]
  BY RunIs DEF Request, Ready
<1>2. /\ spent'.queued = spent.queued /\ spent'.cancels = spent.cancels /\ spent.requests \in Nat
      /\ ~run.cancelled => spent'.requests = spent.requests + 1
  BY <1>1, Facts DEF Budgets
<1>3. \A t \in Taken : t \in Nat /\ t <= spent.requests
  <2>1. SUFFICES ASSUME NEW a \in Kept, Made(log, a) # {}
                 PROVE  log[a].turn \in Nat /\ log[a].turn <= spent.requests
    BY DEF Taken
  <2>2. a \in DOMAIN log /\ log[a] \in Message
    BY KeptFacts
  <2>3. log[a].kind = "assistant"
    BY <2>1, <2>2, MadeIs
  <2> QED
    BY <2>2, <2>3, MessageFacts DEF Numbered
<1>4. ~run.cancelled => spent'.requests \notin Taken
  BY <1>2, <1>3
<1>5. Open' = Open /\ Taken' = Taken
  BY <1>1, Kept0
<1>6. ~run.cancelled => Open = {}
  BY <1>1 DEF Pairs, Phased
<1>7. Phased'
  BY <1>1, <1>4, <1>5, <1>6 DEF Phased
<1>8. Steered'
  BY <1>1, <1>2 DEF Pairs, Steered
<1> QED
  BY <1>1, <1>7, <1>8, Pairing

LEMMA AnswerIsOpen ==
  ASSUME IInv, Pairs, Ready("answered"), ~Failed(log[run.answer])
  PROVE  /\ run.answer \in Kept /\ Open = Range(Calls)
         /\ log[run.answer].calls = 0 => Open = {}
<1>1. run.answer \in Kept /\ Open = Range(Calls)
  BY DEF Pairs, Phased, Ready
<1>2. DOMAIN Calls = 1..log[run.answer].calls
  BY CallsAre DEF Ready
<1>3. log[run.answer].calls = 0 => Range(Calls) = {}
  BY <1>2 DEF Range
<1> QED
  BY <1>1, <1>3

LEMMA WordsEndPairs ==
  ASSUME IInv, Pairs, WordsEnd
  PROVE  Pairs'
<1>1. /\ UNCHANGED <<log, mem, store, queue, spent>> /\ run'.out = <<>> /\ run'.phase = "turnEnd"
      /\ run'.cancelled = run.cancelled /\ run'.late = run.late
  BY RunIs DEF WordsEnd, Ready
<1>2. Open = {}
  BY AnswerIsOpen DEF WordsEnd
<1>3. Due' = {}
  BY <1>1, <1>2, NothingComes, Kept0
<1>4. Phased'
  BY <1>1, <1>3 DEF Phased
<1>5. Steered'
  BY <1>1 DEF Pairs, Steered
<1> QED
  BY <1>1, <1>4, <1>5, Pairing

LEMMA BlankEndsPairs ==
  ASSUME IInv, Numbered, Pairs, BlankEnds
  PROVE  Pairs'
<1>1. /\ Ready("answered") /\ log[run.answer].stop = "done" /\ log[run.answer].blank
      /\ UNCHANGED <<mem, store, queue, spent>>
  BY DEF BlankEnds
<1>2. Open = {}
  <2>1. run.answer \in DOMAIN log /\ log[run.answer].kind = "assistant"
    BY <1>1 DEF IInv, Turns, Ready
  <2>2. log[run.answer].calls = 0 /\ ~Failed(log[run.answer])
    BY <1>1, <2>1 DEF Numbered, Failed
  <2> QED
    BY <1>1, <2>2, AnswerIsOpen
<1>3. CASE run.emptied
  <2> DEFINE m == Answered(spent.requests, 0, "error", TRUE)
  <2>1. /\ Logs(<<m>>) /\ run'.phase = "ended" /\ run'.out = <<Len(log) + 1>>
        /\ run'.cancelled = run.cancelled /\ run'.late = run.late
    BY <1>3, RunIs DEF BlankEnds
  <2>2. m \in Message /\ m.kind = "assistant" /\ Silent(m) /\ CallsOf(m) = <<>>
    BY Facts DEF Answered, Message, Answers, Silent, Failed, CallsOf
  <2> HIDE DEF m
  <2>3. Grows(<<m>>)
    BY <2>1, <2>2, OneMore
  <2>4. Suits(<<m>>)
    <3>1. Range(<<>>) = {} /\ DOMAIN <<m>> = {1} /\ <<m>>[1] = m
      BY DEF Range
    <3> QED
      BY <2>2, <3>1 DEF Suits
  <2>5. run'.out = Ids(Len(log), <<m>>)
    BY <2>1 DEF Ids
  <2>6. Fitting'
    BY <1>1, <2>3, <2>4, <2>5, NewComes
  <2>7. InOrder'
    BY <1>1, <2>3, KeptStays DEF Pairs
  <2>8. Phased' /\ Steered'
    BY <1>1, <2>1 DEF Pairs, Phased, Steered
  <2> QED
    BY <2>6, <2>7, <2>8 DEF Pairs
<1>4. CASE ~run.emptied
  <2>1. /\ UNCHANGED log /\ run'.phase = "turnEnd" /\ run'.out = <<>>
        /\ run'.cancelled = run.cancelled /\ run'.late = run.late
    BY <1>1, <1>4, RunIs DEF BlankEnds, Ready
  <2>2. Due' = {}
    BY <1>1, <1>2, <2>1, NothingComes, Kept0
  <2>3. Phased' /\ Steered'
    BY <1>1, <2>1, <2>2 DEF Pairs, Phased, Steered
  <2> QED
    BY <1>1, <2>1, <2>3, Pairing
<1> QED
  BY <1>3, <1>4

LEMMA QueuePairs ==
  ASSUME IInv, Pairs, NEW which \in {"steer", "follow"}, Queue(which)
  PROVE  Pairs'
<1>1. /\ UNCHANGED <<log, mem, store, run, tools>> /\ spent'.queued = spent.queued + 1
      /\ spent.queued \in Nat /\ spent'.cancels = spent.cancels
      /\ spent'.requests = spent.requests
  BY Facts DEF Queue, Budgets
<1>2. Kept' = Kept /\ Open' = Open /\ Taken' = Taken /\ Due' = Due
  <2>1. Fitting
    BY DEF Pairs
  <2> QED
    BY <1>1, <2>1, Kept0, SameComes
<1>3. Phased'
  <2>1. Phased /\ Calls' = Calls /\ Left' = Left
    BY <1>1 DEF Pairs, Calls, Left
  <2> QED
    BY <1>1, <1>2, <2>1 DEF Phased
<1>4. Steered'
  BY <1>1 DEF Pairs, Steered
<1> QED
  BY <1>1, <1>3, <1>4, Pairing

LEMMA CancelPairs ==
  ASSUME IInv, Pairs, Cancel
  PROVE  Pairs'
<1>1. /\ UNCHANGED <<log, mem, store, tools, queue>>
      /\ run'.phase = run.phase /\ run'.out = run.out /\ run'.late = run.late /\ run'.cancelled
      /\ run'.answer = run.answer /\ run'.next = run.next /\ run'.blank = run.blank
  BY RunIs DEF Cancel
<1>2. /\ spent'.queued = spent.queued /\ spent'.cancels = spent.cancels + 1
      /\ spent'.requests = spent.requests /\ spent.cancels \in Nat
  BY Facts DEF Cancel, Budgets
<1>3. Kept' = Kept /\ Open' = Open /\ Taken' = Taken /\ Due' = Due
  <2>1. Fitting
    BY DEF Pairs
  <2> QED
    BY <1>1, <2>1, Kept0, SameComes
<1>4. Phased'
  <2>1. Phased /\ Calls' = Calls /\ Left' = Left
    BY <1>1 DEF Pairs, Calls, Left
  <2>2. ~run.cancelled
    BY DEF Cancel
  <2> QED
    BY <1>1, <1>2, <1>3, <2>1, <2>2 DEF Phased
<1>5. Steered'
  BY <1>1, <1>2 DEF Pairs, Steered
<1> QED
  BY <1>1, <1>4, <1>5, Pairing

\* What is written again is in the history.
LEMMA OldComes ==
  ASSUME Range(run'.out) \subseteq Range(mem')
  PROVE  Fitting' /\ Coming' = {} /\ Due' = Open'
<1>1. Coming' = {}
  BY DEF Coming
<1>2. Given(log', {}) = {} /\ OneResult(log', {})
  BY DEF Given, OneResult
<1>3. Due' = Open'
  BY <1>1, <1>2 DEF Due
<1>4. \A i \in DOMAIN run'.out : run'.out[i] \in Range(mem')
  BY DEF Range
<1> QED
  BY <1>1, <1>2, <1>3, <1>4 DEF Fitting

LEMMA AgainPairs ==
  ASSUME IInv, Pairs, UNCHANGED <<log, mem, store, queue>>,
         run'.phase \in {"flush", "settle", "idle"}, Range(run'.out) \subseteq Range(mem),
         run'.late => run'.cancelled, run'.cancelled => spent'.cancels > 0,
         spent'.queued = spent.queued
  PROVE  Pairs'
<1>1. Fitting'
  BY OldComes
<1>2. Grows(<<>>)
  BY Facts, SameGrows
<1>3. InOrder'
  BY <1>2, KeptStays DEF Pairs
<1>4. Phased'
  BY DEF Phased
<1>5. Steered'
  BY DEF Pairs, Steered
<1> QED
  BY <1>1, <1>3, <1>4, <1>5 DEF Pairs

LEMMA SettlePairs ==
  ASSUME IInv, Pairs, Settle
  PROVE  Pairs'
<1> DEFINE unsaved == Within(mem, Range(store.writes))
<1>1. /\ UNCHANGED <<log, mem, store, queue, spent>>
      /\ run' = IF run.phase = "closing" /\ unsaved # <<>>
                THEN [run EXCEPT !.phase = "settle", !.out = unsaved] ELSE Idle
  BY DEF Settle
<1>2. Range(unsaved) \subseteq Range(mem)
  BY Facts, WithinKeeps
<1> HIDE DEF unsaved
<1>3. /\ run'.phase \in {"settle", "idle"} /\ run'.out \in {unsaved, <<>>}
      /\ (run'.late => run'.cancelled) /\ (run'.cancelled => spent'.cancels > 0)
  <2>1. CASE run' = Idle
    BY <2>1 DEF Idle
  <2>2. CASE run' = [run EXCEPT !.phase = "settle", !.out = unsaved]
    BY <1>1, <2>2, RunIs DEF Pairs, Steered
  <2> QED
    BY <1>1, <2>1, <2>2
<1>4. Range(<<>>) = {}
  BY DEF Range
<1> QED
  BY <1>1, <1>2, <1>3, <1>4, AgainPairs

LEMMA BatchBeginsPairs ==
  ASSUME IInv, Pairs, BatchBegins
  PROVE  Pairs'
<1>1. /\ Ready("answered") /\ ~Failed(log[run.answer]) /\ UNCHANGED <<mem, store, queue, spent>>
      /\ run.out = <<>>
  BY DEF BatchBegins, Ready
<1>2. run.answer \in Kept /\ Open = Range(Calls)
  BY <1>1, AnswerIsOpen
<1>3. /\ Calls \in Seq(CallIds) /\ DOMAIN Calls = 1..log[run.answer].calls
      /\ log[run.answer].calls \in Nat /\ log[run.answer].turn \in Nat
      /\ \A k \in 1..log[run.answer].calls : Calls[k] = <<log[run.answer].turn, k>>
  BY <1>1, CallsAre, Facts DEF Ready
<1>4. CASE Cut
  <2> DEFINE results == [k \in DOMAIN Calls |-> Result(Calls[k], "truncated")]
  <2>1. /\ Logs(results) /\ run'.out = Ids(Len(log), results) /\ run'.phase = "turnEnd"
        /\ run'.cancelled = run.cancelled /\ run'.late = run.late
    BY <1>4, RunIs DEF BatchBegins
  <2>2. results \in Seq(Message)
    <3>1. results \in Seq(ResultsOf({"truncated"}))
      BY <1>3, ResultsAre DEF Hows
    <3>2. ResultsOf({"truncated"}) \subseteq Message
      BY DEF Message, ResultsOf, Hows
    <3> HIDE DEF results
    <3> QED
      BY <3>1, <3>2, SeqMonotonic
  <2>3. /\ DOMAIN results = DOMAIN Calls
        /\ \A k \in DOMAIN results : results[k].kind = "result" /\ results[k].of = Calls[k]
    BY DEF Result
  <2> HIDE DEF results
  <2>4. \A k \in DOMAIN results : Range(CallsOf(results[k])) = {}
    <3>1. \A k \in DOMAIN results : CallsOf(results[k]) = <<>>
      BY <2>3 DEF CallsOf
    <3>2. Range(<<>>) = {}
      BY DEF Range
    <3> QED
      BY <3>1, <3>2
  <2>5. \A k \in DOMAIN results : results[k].of \in Open
    BY <1>2, <2>3 DEF Range
  <2>6. Suits(results)
    <3>1. \A i, j \in DOMAIN Calls : Calls[i] = Calls[j] => i = j
      BY <1>3
    <3> QED
      BY <2>3, <2>4, <2>5, <3>1 DEF Suits
  <2>7. Grows(results)
    BY <2>1, <2>2, Facts, LogsGrow
  <2>8. Fitting' /\ \A c : c \in Due' <=> /\ c \in Open
                     /\ \A i \in DOMAIN results : results[i].kind = "result" => results[i].of # c
    BY <1>1, <2>1, <2>6, <2>7, NewComes
  <2>9. Due' = {}
    BY <1>2, <2>3, <2>8 DEF Range
  <2>10. InOrder'
    BY <1>1, <2>7, KeptStays DEF Pairs
  <2>11. Phased' /\ Steered'
    BY <1>1, <2>1, <2>9 DEF Pairs, Phased, Steered
  <2> QED
    BY <2>8, <2>10, <2>11 DEF Pairs
<1>5. CASE ~Cut
  <2>1. /\ UNCHANGED log /\ run'.phase \in {"seq", "par"} /\ run'.out = <<>> /\ ~run'.blank
        /\ run'.next = 1 /\ run'.answer = run.answer
        /\ run'.cancelled = run.cancelled /\ run'.late = run.late
    BY <1>1, <1>5, RunIs DEF BatchBegins
  <2>2. Kept' = Kept /\ Open' = Open /\ Due' = Open' /\ Calls' = Calls
    BY <1>1, <2>1, Kept0, NothingComes DEF Calls
  <2>3. Left' = Range(Calls) /\ \A k \in DOMAIN Calls : ~(k < 1)
    <3>1. \A k \in DOMAIN Calls : k >= 1 /\ ~(k < 1)
      BY <1>3
    <3>2. Left' = {Calls[k] : k \in {k \in DOMAIN Calls : k >= 1}}
      BY <2>1, <2>2 DEF Left
    <3>3. {k \in DOMAIN Calls : k >= 1} = DOMAIN Calls
      BY <3>1
    <3> QED
      BY <3>1, <3>2, <3>3 DEF Range
  <2>4. Phased'
    BY <1>2, <2>1, <2>2, <2>3 DEF Phased
  <2>5. Steered'
    BY <1>1, <2>1 DEF Pairs, Steered
  <2> QED
    BY <1>1, <2>1, <2>4, <2>5, Pairing
<1> QED
  BY <1>4, <1>5

LEMMA SettlesPairs ==
  ASSUME IInv, Pairs, Ready("seq"), run.next <= Len(Calls),
         NEW how \in {"refused", "aborted", "ran"}, Settles(run.next, how),
         UNCHANGED <<mem, store, queue, spent>>
  PROVE  Pairs'
<1> DEFINE m == Result(Calls[run.next], how)
<1>1. /\ run.phase = "seq" /\ run.out = <<>> /\ run.next \in Nat \ {0}
      /\ run'.phase = "seq" /\ run'.out = <<Len(log) + 1>> /\ run'.next = run.next + 1
      /\ run'.cancelled = run.cancelled /\ run'.late = run.late /\ run'.answer = run.answer
      /\ run'.blank = run.blank /\ Logs(<<m>>)
  BY RunIs, Facts DEF Settles, Ready
<1>2. /\ run.next \in DOMAIN Calls /\ Calls[run.next] \in CallIds
      /\ \A k \in DOMAIN Calls : k \in Nat /\ Calls[k] = <<log[run.answer].turn, k>>
  <2>1. run.next \in DOMAIN Calls /\ Calls[run.next] \in CallIds
    BY <1>1, AtNext
  <2>2. /\ log[run.answer].calls \in Nat /\ DOMAIN Calls = 1..log[run.answer].calls
        /\ \A k \in 1..log[run.answer].calls : Calls[k] = <<log[run.answer].turn, k>>
    BY <1>1, BatchFacts
  <2> QED
    BY <2>1, <2>2
<1>3. m \in Message /\ m.kind = "result" /\ m.of = Calls[run.next] /\ CallsOf(m) = <<>>
  BY <1>2 DEF Result, Message, ResultsOf, Hows, Outcomes, CallsOf
<1> HIDE DEF m
<1>4. Grows(<<m>>)
  BY <1>1, <1>3, OneMore
<1>5. Open = Left /\ run.answer \in Kept /\ ~run.blank
  BY <1>1, NothingCame DEF Pairs, Phased
<1>6. Suits(<<m>>)
  <2>1. Range(<<>>) = {} /\ DOMAIN <<m>> = {1} /\ <<m>>[1] = m
    BY DEF Range
  <2>2. m.of \in Open
    BY <1>1, <1>2, <1>3, <1>5 DEF Left
  <2> QED
    BY <1>3, <2>1, <2>2 DEF Suits
<1>7. run'.out = Ids(Len(log), <<m>>)
  BY <1>1 DEF Ids
<1>8. Fitting' /\ \A c : c \in Due' <=> /\ c \in Open
                     /\ \A i \in DOMAIN <<m>> : <<m>>[i].kind = "result" => <<m>>[i].of # c
  BY <1>4, <1>6, <1>7, NewComes
<1>9. InOrder' /\ Kept' = Kept /\ Open' = Open /\ log'[run.answer] = log[run.answer]
  BY <1>1, <1>4, KeptStays, BatchFacts DEF Pairs
<1>10. Calls' = Calls
  BY <1>1, <1>9 DEF Calls
<1>11. Due' = Left'
  <2>1. \A c : c \in Due' <=> c \in Left /\ c # Calls[run.next]
    BY <1>3, <1>5, <1>8
  <2>2. Left' = {Calls[k] : k \in {k \in DOMAIN Calls : k >= run.next + 1}}
    BY <1>1, <1>10 DEF Left
  <2>3. \A k \in DOMAIN Calls : k >= run.next + 1 <=> k >= run.next /\ Calls[k] # Calls[run.next]
    BY <1>1, <1>2
  <2>4. \A c : c \in Left <=> \E k \in DOMAIN Calls : k >= run.next /\ c = Calls[k]
    BY DEF Left
  <2>5. \A c : c \in Left' <=> \E k \in DOMAIN Calls : k >= run.next + 1 /\ c = Calls[k]
    BY <2>2
  <2>6. \A c : c \in Due' <=> c \in Left'
    BY <2>1, <2>3, <2>4, <2>5
  <2> QED
    BY <2>6
<1>12. Phased'
  BY <1>1, <1>5, <1>9, <1>11 DEF Phased
<1>13. Steered'
  BY <1>1 DEF Pairs, Steered
<1> QED
  BY <1>8, <1>9, <1>12, <1>13 DEF Pairs

\* The run goes on in its batch.
LEMMA InBatchPairs ==
  ASSUME IInv, Pairs, UNCHANGED <<log, mem, store, queue, spent>>, run'.phase = run.phase,
         run'.out = run.out, run'.cancelled = run.cancelled, run'.late = run.late,
         run'.answer = run.answer, run'.blank = run.blank,
         \/ run.phase = "seq" /\ run'.next = run.next
         \/ /\ run.phase = "par"
            /\ run.cancelled \/ \A k \in DOMAIN Calls : k < run'.next => tools'[k] # "none"
  PROVE  Pairs'
<1>1. Kept' = Kept /\ Open' = Open /\ Due' = Due
  <2>1. Fitting
    BY DEF Pairs
  <2> QED
    BY <2>1, Kept0, SameComes
<1>2. Calls' = Calls /\ (run'.next = run.next => Left' = Left)
  BY DEF Calls, Left
<1>3. Phased'
  <2>1. CASE run.phase = "seq"
    BY <1>1, <1>2, <2>1 DEF Pairs, Phased
  <2>2. CASE run.phase = "par"
    BY <1>1, <1>2, <2>2 DEF Pairs, Phased
  <2> QED
    BY <2>1, <2>2
<1>4. Steered'
  BY DEF Pairs, Steered
<1> QED
  BY <1>3, <1>4, Pairing

LEMMA SeqPairs ==
  ASSUME IInv, Pairs, SeqBegins \/ SeqPrepare \/ SeqDone
  PROVE  Pairs'
<1>1. Ready("seq") /\ run.next <= Len(Calls) /\ UNCHANGED <<mem, store, queue, spent>>
  BY DEF SeqBegins, SeqPrepare, SeqDone
<1>2. CASE UNCHANGED <<log, run>>
  BY <1>1, <1>2, InBatchPairs DEF Ready
<1>3. CASE \E how \in {"refused", "aborted", "ran"} : Settles(run.next, how)
  BY <1>1, <1>3, SettlesPairs
<1> QED
  BY <1>2, <1>3 DEF SeqBegins, SeqPrepare, SeqDone

LEMMA SeqEndsPairs ==
  ASSUME IInv, Pairs, SeqEnds
  PROVE  Pairs'
<1>1. /\ run.phase = "seq" /\ run.out = <<>> /\ UNCHANGED <<log, mem, store, queue, spent>>
      /\ run.next <= Len(Calls) => run.cancelled
      /\ run'.phase = "turnEnd" /\ run'.out = <<>> /\ run'.blank = run.blank
      /\ run'.cancelled = run.cancelled /\ run'.late = run.late
  BY RunIs DEF SeqEnds, Ready
<1>2. Open = Left /\ ~run.blank
  BY <1>1, NothingCame DEF Pairs, Phased
<1>3. ~run.cancelled => Left = {}
  <2>1. /\ DOMAIN Calls = 1..log[run.answer].calls /\ log[run.answer].calls \in Nat
        /\ Len(Calls) = log[run.answer].calls /\ run.next \in Nat
    BY <1>1, BatchFacts, Facts
  <2>2. ~run.cancelled => \A k \in DOMAIN Calls : ~(k >= run.next)
    BY <1>1, <2>1
  <2> QED
    BY <2>2 DEF Left
<1>4. Due' = Open
  BY <1>1, Kept0, NothingComes
<1>5. Phased'
  BY <1>1, <1>2, <1>3, <1>4 DEF Phased
<1>6. Steered'
  BY <1>1 DEF Pairs, Steered
<1> QED
  BY <1>1, <1>5, <1>6, Pairing

LEMMA ParPreparePairs ==
  ASSUME IInv, Pairs, ParPrepare
  PROVE  Pairs'
<1>1. /\ run.phase = "par" /\ run.next <= Len(Calls) /\ run.next \in Nat \ {0}
      /\ UNCHANGED <<log, mem, store, queue, spent>>
      /\ run' = [run EXCEPT !.next = IF run.cancelled THEN Len(Calls) + 1 ELSE @ + 1]
  BY Facts DEF ParPrepare, Ready
<1>2. PICK how \in {"refused", "aborted", "prepared"} : tools' = [tools EXCEPT ![run.next] = how]
  BY DEF ParPrepare
<1>3. /\ tools \in [1..MaxCalls -> Outcomes] /\ DOMAIN Calls \subseteq 1..MaxCalls
  BY <1>1, BatchFacts, Facts
<1>4. run.cancelled \/ \A k \in DOMAIN Calls : k < run.next => tools[k] # "none"
  BY <1>1 DEF Pairs, Phased
<1>5. ~run.cancelled => \A k \in DOMAIN Calls : k < run.next + 1 => tools'[k] # "none"
  <2> SUFFICES ASSUME ~run.cancelled, NEW k \in DOMAIN Calls, k < run.next + 1
               PROVE  tools'[k] # "none"
    OBVIOUS
  <2>1. k \in 1..MaxCalls /\ (k = run.next \/ k < run.next)
    BY <1>1, <1>3
  <2> QED
    BY <1>2, <1>3, <1>4, <2>1
<1>6. /\ run'.phase = run.phase /\ run'.out = run.out /\ run'.cancelled = run.cancelled
      /\ run'.late = run.late /\ run'.answer = run.answer /\ run'.blank = run.blank
      /\ ~run.cancelled => run'.next = run.next + 1
  BY <1>1, RunIs
<1> QED
  BY <1>1, <1>5, <1>6, InBatchPairs

LEMMA ParGoesPairs ==
  ASSUME IInv, Pairs, ParStart \/ \E k \in 1..MaxCalls : ParDone(k)
  PROVE  Pairs'
<1>1. run.phase = "par" /\ UNCHANGED <<log, mem, store, run, queue, spent>>
  BY DEF ParStart, ParDone, Ready
<1>2. tools \in [1..MaxCalls -> Outcomes] /\ DOMAIN Calls \subseteq 1..MaxCalls
  BY <1>1, BatchFacts, Facts
<1>3. \A k \in DOMAIN Calls : tools[k] # "none" => tools'[k] # "none"
  <2>1. CASE ParStart
    BY <1>2, <2>1 DEF ParStart
  <2>2. CASE \E k \in 1..MaxCalls : ParDone(k)
    <3>1. PICK k \in 1..MaxCalls, how \in {"ran", "aborted"} : tools' = [tools EXCEPT ![k] = how]
      BY <2>2 DEF ParDone
    <3> QED
      BY <1>2, <3>1
  <2> QED
    BY <2>1, <2>2
<1>4. run.cancelled \/ \A k \in DOMAIN Calls : k < run.next => tools[k] # "none"
  BY <1>1 DEF Pairs, Phased
<1> QED
  BY <1>1, <1>3, <1>4, InBatchPairs

LEMMA ParEndsPairs ==
  ASSUME IInv, Pairs, ParEnds
  PROVE  Pairs'
<1> DEFINE ks == [k \in DOMAIN Calls |-> k]
           done == {k \in DOMAIN Calls : tools[k] # "none"}
           settled == Within(ks, done)
           results == [i \in DOMAIN settled |-> Result(Calls[settled[i]], tools[settled[i]])]
<1>1. /\ run.phase = "par" /\ run.out = <<>> /\ run.next > Len(Calls)
      /\ UNCHANGED <<mem, store, queue, spent>> /\ Logs(results)
      /\ run'.phase = "turnEnd" /\ run'.out = Ids(Len(log), results) /\ run'.blank = run.blank
      /\ run'.cancelled = run.cancelled /\ run'.late = run.late
  BY RunIs DEF ParEnds, Ready
<1>2. /\ DOMAIN Calls = 1..log[run.answer].calls /\ log[run.answer].calls \in Nat
      /\ Len(Calls) = log[run.answer].calls /\ run.next \in Nat
      /\ \A k \in DOMAIN Calls : k \in Nat /\ Calls[k] = <<log[run.answer].turn, k>>
  <2>1. /\ log[run.answer].calls \in Nat /\ DOMAIN Calls = 1..log[run.answer].calls
        /\ \A k \in 1..log[run.answer].calls : Calls[k] = <<log[run.answer].turn, k>>
    BY <1>1, BatchFacts
  <2>2. Len(Calls) = log[run.answer].calls
    BY <1>1, BatchFacts
  <2>3. run.next \in Nat
    BY Facts
  <2> DEFINE n == log[run.answer].calls
  <2>4. n \in Nat /\ \A k \in 1..n : k \in Nat
    BY <2>1
  <2> QED
    BY <2>1, <2>2, <2>3, <2>4
<1>3. Open = Range(Calls) /\ ~run.blank
      /\ (run.cancelled \/ \A k \in DOMAIN Calls : k < run.next => tools[k] # "none")
  BY <1>1 DEF Pairs, Phased
<1>4. OfCalls(results)
  BY <1>1, ParResultsAre
<1>5. /\ settled \in Seq(DOMAIN Calls) /\ IsInjective(settled) /\ Range(settled) = done
  <2>1. ks \in Seq(DOMAIN Calls) /\ IsInjective(ks) /\ Range(ks) = DOMAIN Calls
    BY <1>2 DEF IsInjective, Range
  <2> HIDE DEF ks
  <2>2. /\ settled \in Seq(DOMAIN Calls) /\ IsInjective(settled)
        /\ Range(settled) = Range(ks) \cap done
    BY <2>1, WithinKeeps
  <2> QED
    BY <2>1, <2>2
<1> HIDE DEF settled, done
<1>6. /\ results \in Seq(Message) /\ DOMAIN results = DOMAIN settled
      /\ \A i \in DOMAIN results : results[i].kind = "result" /\ results[i].of = Calls[settled[i]]
  BY <1>4 DEF OfCalls, Result
<1> HIDE DEF results
<1>7. Grows(results)
  BY <1>1, <1>6, Facts, LogsGrow
<1>8. Suits(results)
  <2>1. \A i \in DOMAIN results : Range(CallsOf(results[i])) = {}
    <3>1. \A i \in DOMAIN results : CallsOf(results[i]) = <<>>
      BY <1>6 DEF CallsOf
    <3>2. Range(<<>>) = {}
      BY DEF Range
    <3> QED
      BY <3>1, <3>2
  <2>2. \A i \in DOMAIN results : results[i].of \in Open
    BY <1>3, <1>5, <1>6 DEF Range
  <2>3. \A i, j \in DOMAIN results : results[i].of = results[j].of => i = j
    <3> SUFFICES ASSUME NEW i \in DOMAIN results, NEW j \in DOMAIN results,
                        results[i].of = results[j].of
                 PROVE  i = j
      OBVIOUS
    <3>1. settled[i] \in DOMAIN Calls /\ settled[j] \in DOMAIN Calls
      BY <1>5, <1>6
    <3>2. settled[i] = settled[j]
      BY <1>2, <1>6, <3>1
    <3> QED
      BY <1>5, <1>6, <3>2 DEF IsInjective
  <2> QED
    BY <1>6, <2>1, <2>2, <2>3 DEF Suits
<1>9. Fitting' /\ \A c : c \in Due' <=> /\ c \in Open
                   /\ \A i \in DOMAIN results : results[i].kind = "result" => results[i].of # c
  BY <1>1, <1>7, <1>8, NewComes
<1>10. ~run.cancelled => Due' = {}
  <2>1. SUFFICES ASSUME ~run.cancelled, NEW c \in Due' PROVE FALSE
    OBVIOUS
  <2>2. PICK k \in DOMAIN Calls : c = Calls[k]
    BY <1>3, <1>9, <2>1 DEF Range
  <2>3. k \in Range(settled)
    BY <1>1, <1>2, <1>3, <1>5, <2>1 DEF done
  <2>4. PICK i \in DOMAIN settled : settled[i] = k
    BY <2>3 DEF Range
  <2> QED
    BY <1>6, <1>9, <2>1, <2>2, <2>4
<1>11. InOrder'
  BY <1>1, <1>7, KeptStays DEF Pairs
<1>12. Phased'
  BY <1>1, <1>3, <1>10 DEF Phased
<1>13. Steered'
  BY <1>1 DEF Pairs, Steered
<1> QED
  BY <1>9, <1>11, <1>12, <1>13 DEF Pairs

LEMMA JoinIs ==
  ASSUME NEW D, NEW a \in Seq(D), NEW b \in Seq(D)
  PROVE  /\ a \o b \in Seq(D) /\ Range(a \o b) = Range(a) \cup Range(b)
         /\ IsInjective(a) /\ IsInjective(b) /\ Range(a) \cap Range(b) = {} => IsInjective(a \o b)
<1> DEFINE s == a \o b
<1>1. /\ s \in Seq(D) /\ Len(s) = Len(a) + Len(b) /\ DOMAIN s = 1..(Len(a) + Len(b))
      /\ Len(a) \in Nat /\ Len(b) \in Nat /\ DOMAIN a = 1..Len(a) /\ DOMAIN b = 1..Len(b)
      /\ \A i \in DOMAIN s : s[i] = IF i <= Len(a) THEN a[i] ELSE b[i - Len(a)]
  OBVIOUS
<1>2. Range(s) = Range(a) \cup Range(b)
  BY RangeConcatenation
<1> HIDE DEF s
<1>3. \A i \in DOMAIN s : \/ i \in DOMAIN a /\ s[i] = a[i] /\ s[i] \in Range(a)
                          \/ /\ i - Len(a) \in DOMAIN b /\ s[i] = b[i - Len(a)]
                             /\ s[i] \in Range(b)
  BY <1>1 DEF Range
<1>4. ASSUME IsInjective(a), IsInjective(b), Range(a) \cap Range(b) = {}
      PROVE  IsInjective(s)
  <2>1. SUFFICES ASSUME NEW i \in DOMAIN s, NEW j \in DOMAIN s, s[i] = s[j] PROVE i = j
    BY DEF IsInjective
  <2>2. i \in Nat /\ j \in Nat
    BY <1>1
  <2>3. CASE i \in DOMAIN a /\ j \in DOMAIN a /\ s[i] = a[i] /\ s[j] = a[j]
    BY <1>4, <2>1, <2>3 DEF IsInjective
  <2>4. CASE /\ i - Len(a) \in DOMAIN b /\ j - Len(a) \in DOMAIN b
             /\ s[i] = b[i - Len(a)] /\ s[j] = b[j - Len(a)]
    <3>1. i - Len(a) = j - Len(a)
      BY <1>4, <2>1, <2>4 DEF IsInjective
    <3> QED
      BY <1>1, <2>2, <3>1
  <2> QED
    BY <1>3, <1>4, <2>1, <2>3, <2>4
<1> QED
  BY <1>1, <1>2, <1>4 DEF s

\* FlattenSeq takes one sequence after the other.
LEMMA FlattenSteps ==
  ASSUME NEW D, NEW ss \in Seq(Seq(D)), Len(ss) # 0
  PROVE  \E f : /\ FlattenSeq(ss) = f[Len(ss)] /\ f[1] = ss[1]
                /\ \A i \in 1..Len(ss) : i # 1 => f[i] = f[i - 1] \o ss[i]
<1> DEFINE n == Len(ss)
           T == 1..n
           below == [i \in T |-> IF i = 1 THEN 1 ELSE i - 1]
           step == [x \in Seq(D) \X T |-> x[1] \o ss[x[2]]]
           Eq(f) == f = [i \in 1..n |-> IF i = 1 THEN ss[i] ELSE f[i - 1] \o ss[i]]
           flat == CHOOSE f : Eq(f)
<1>1. n \in Nat /\ n # 0 /\ \A i \in T : ss[i] \in Seq(D)
  OBVIOUS
<1>2. 1 \in T /\ T \in SUBSET (0..n) /\ n \in T
  <2> HIDE DEF n
  <2> QED
    BY <1>1
<1>3. below \in [T -> T] /\ \A i \in T : i # 1 => below[i] < i
  <2> HIDE DEF n
  <2> QED
    BY <1>1
<1>4. step \in [Seq(D) \X T -> Seq(D)]
  <2>1. ASSUME NEW x \in Seq(D) \X T
        PROVE  step[x] \in Seq(D)
    <3>1. x[1] \in Seq(D) /\ x[2] \in T
      OBVIOUS
    <3>2. ss[x[2]] \in Seq(D)
      BY <1>1, <3>1
    <3> HIDE DEF T
    <3> QED
      BY <3>1, <3>2
  <2> QED
    BY <2>1
<1>5. PICK f : Defined(f, T, Seq(D), 1, ss[1], below, step)
  <2>1. Recursive(T, Seq(D), 1, ss[1], below, step)
    <3> HIDE DEF T, below, step
    <3> QED
      BY <1>1, <1>2, <1>3, <1>4 DEF Recursive
  <2> HIDE DEF T, below, step, n
  <2> QED
    BY <1>1, <1>2, <2>1, Recursion
<1>6. /\ f \in [T -> Seq(D)]
      /\ \A i \in T : f[i] = IF i = 1 THEN ss[1] ELSE step[<<f[below[i]], i>>]
  <2> HIDE DEF T, below, step
  <2> QED
    BY <1>5 DEF Defined
<1>7. \A i \in T : f[i] = IF i = 1 THEN ss[i] ELSE f[i - 1] \o ss[i]
  <2> TAKE i \in T
  <2>1. CASE i = 1
    BY <1>6, <2>1
  <2>2. CASE i # 1
    <3>1. below[i] = i - 1 /\ i - 1 \in T
      <4> HIDE DEF n
      <4> QED
        BY <1>1, <2>2
    <3>2. <<f[i - 1], i>> \in Seq(D) \X T
      BY <1>6, <3>1
    <3>3. f[i] = step[<<f[i - 1], i>>]
      <4> HIDE DEF step, below, T
      <4> QED
        BY <1>6, <2>2, <3>1
    <3> QED
      BY <2>2, <3>2, <3>3
  <2> QED
    BY <2>1, <2>2
<1>8. Eq(f)
  BY <1>6, <1>7
<1>9. Eq(flat)
  <2> HIDE DEF Eq
  <2> QED
    BY <1>8
<1>10. /\ flat[1] = ss[1]
       /\ \A i \in T : i # 1 => flat[i] = flat[i - 1] \o ss[i]
  <2> HIDE DEF flat, n
  <2> QED
    BY <1>2, <1>9
<1>11. FlattenSeq(ss) = flat[n]
  BY <1>1 DEF FlattenSeq
<1> HIDE DEF flat
<1> QED
  BY <1>10, <1>11

LEMMA FlattenIs ==
  ASSUME NEW D, NEW ss \in Seq(Seq(D))
  PROVE  /\ FlattenSeq(ss) \in Seq(D)
         /\ \A x : x \in Range(FlattenSeq(ss)) <=> \E i \in DOMAIN ss : x \in Range(ss[i])
         /\ (/\ \A i \in DOMAIN ss : IsInjective(ss[i])
             /\ \A i, j \in DOMAIN ss : i # j => Range(ss[i]) \cap Range(ss[j]) = {})
            => IsInjective(FlattenSeq(ss))
<1> DEFINE n == Len(ss)
           Apart == /\ \A i \in 1..n : IsInjective(ss[i])
                    /\ \A i, j \in 1..n : i # j => Range(ss[i]) \cap Range(ss[j]) = {}
<1>1. n \in Nat /\ DOMAIN ss = 1..n /\ \A i \in 1..n : ss[i] \in Seq(D)
  OBVIOUS
<1>2. CASE n = 0
  <2>1. ss = <<>> /\ DOMAIN ss = {}
    BY <1>2
  <2>2. FlattenSeq(ss) = <<>>
    BY <2>1 DEF FlattenSeq
  <2>3. <<>> \in Seq(D) /\ Range(<<>>) = {} /\ IsInjective(<<>>)
    BY DEF Range, IsInjective
  <2> QED
    BY <2>1, <2>2, <2>3
<1>3. CASE n # 0
  <2>1. PICK f : /\ FlattenSeq(ss) = f[n] /\ f[1] = ss[1]
                 /\ \A i \in 1..n : i # 1 => f[i] = f[i - 1] \o ss[i]
    BY <1>3, FlattenSteps
  <2> DEFINE Good(k) == /\ f[k] \in Seq(D)
                        /\ \A x : x \in Range(f[k]) <=> \E i \in 1..k : x \in Range(ss[i])
                        /\ Apart => IsInjective(f[k])
             K == {k \in Nat : k + 1 \in 1..n => Good(k + 1)}
  <2> HIDE DEF n
  <2>2. 1 \in 1..n /\ n \in 1..n
    BY <1>1, <1>3
  <2>3. 0 \in K
    <3>1. \A x : x \in Range(f[1]) <=> \E i \in 1..1 : x \in Range(ss[i])
      BY <2>1
    <3>2. f[1] \in Seq(D) /\ (Apart => IsInjective(f[1]))
      BY <1>1, <2>1, <2>2
    <3>3. Good(1) /\ 0 + 1 = 1
      <4> HIDE DEF Apart
      <4> QED
        BY <3>1, <3>2
    <3> HIDE DEF Good
    <3> QED
      BY <3>3
  <2>4. ASSUME NEW k \in Nat, k \in K
        PROVE  k + 1 \in K
    <3>1. SUFFICES ASSUME k + 2 \in 1..n PROVE Good(k + 2)
      <4>1. (k + 1) + 1 = k + 2 /\ k + 1 \in Nat
        OBVIOUS
      <4> HIDE DEF Good
      <4> QED
        BY <4>1
    <3>2. k + 1 \in 1..n /\ k + 2 # 1 /\ (k + 2) - 1 = k + 1
      BY <1>1, <3>1
    <3>3. Good(k + 1)
      <4> HIDE DEF Good
      <4> QED
        BY <2>4, <3>2
    <3> DEFINE a == f[k + 1]
               b == ss[k + 2]
    <3>4. f[k + 2] = a \o b /\ a \in Seq(D) /\ b \in Seq(D)
      BY <1>1, <2>1, <3>1, <3>2, <3>3
    <3>5. \A x : x \in Range(a) <=> \E i \in 1..(k + 1) : x \in Range(ss[i])
      BY <3>3
    <3>6. Apart => IsInjective(a)
      <4> HIDE DEF Apart
      <4> QED
        BY <3>3
    <3>7. \A i : i \in 1..(k + 2) <=> i \in 1..(k + 1) \/ i = k + 2
      OBVIOUS
    <3>8. Apart => IsInjective(b) /\ Range(a) \cap Range(b) = {}
      <4> SUFFICES ASSUME Apart PROVE IsInjective(b) /\ Range(a) \cap Range(b) = {}
        OBVIOUS
      <4>1. \A i \in 1..(k + 1) : i \in 1..n /\ i # k + 2
        BY <1>1, <3>1
      <4>2. \A i \in 1..(k + 1) : Range(ss[i]) \cap Range(b) = {}
        BY <3>1, <4>1
      <4>3. IsInjective(b)
        BY <3>1
      <4> HIDE DEF a, b
      <4> QED
        BY <3>5, <4>2, <4>3
    <3> HIDE DEF a, b, Apart
    <3>9. /\ a \o b \in Seq(D) /\ Range(a \o b) = Range(a) \cup Range(b)
          /\ Apart => IsInjective(a \o b)
      BY <3>4, <3>6, <3>8, JoinIs
    <3>10. \A x : x \in Range(a \o b) <=> \E i \in 1..(k + 2) : x \in Range(ss[i])
      BY <3>5, <3>7, <3>9 DEF b
    <3> QED
      BY <3>4, <3>9, <3>10
  <2>5. Good(n)
    <3>1. n - 1 \in Nat /\ (n - 1) + 1 = n
      BY <1>1, <1>3
    <3>2. n - 1 \in K
      <4> HIDE DEF K
      <4> QED
        BY <2>3, <2>4, <3>1, Induction
    <3> HIDE DEF Good
    <3> QED
      BY <2>2, <3>1, <3>2
  <2> QED
    BY <1>1, <2>1, <2>5
<1> QED
  BY <1>2, <1>3

\* Each open call of a history is answered once as interrupted, and nothing else is.
LEMMA InterruptedAnswers ==
  ASSUME log \in Seq(Message), NEW ids \in Seq(DOMAIN log), IsInjective(ids),
         OneTurn(log, Range(ids)), NEW rep, rep = Interrupted(Records(ids))
  PROVE  /\ \A i \in DOMAIN rep : rep[i].kind = "result" /\ rep[i].of \in Opens(log, Range(ids))
         /\ \A c \in Opens(log, Range(ids)) : \E i \in DOMAIN rep : rep[i].of = c
         /\ \A i, j \in DOMAIN rep : rep[i].of = rep[j].of => i = j
<1> DEFINE ms == Records(ids)
           ss == [i \in DOMAIN ms |-> CallsOf(ms[i])]
           all == FlattenSeq(ss)
           done == {ms[i].of : i \in Results(ms)}
           open == Within(all, Range(all) \ done)
<1>1. ms \in Seq(Message) /\ DOMAIN ms = DOMAIN ids /\ \A i \in DOMAIN ids : ms[i] = log[ids[i]]
  BY RecordsAre DEF Records
<1>2. /\ DOMAIN ms = 1..Len(ms) /\ Len(ms) \in Nat
      /\ \A i \in DOMAIN ms : ms[i] \in Message /\ ids[i] \in Range(ids) /\ log[ids[i]] \in Message
  BY <1>1 DEF Range
<1>3. rep = [i \in DOMAIN open |-> Result(open[i], "interrupted")]
  BY DEF Interrupted
<1> HIDE DEF ms
<1>4. ss \in Seq(Seq(CallIds)) /\ DOMAIN ss = DOMAIN ms
      /\ \A i \in DOMAIN ms : ss[i] = CallsOf(ms[i])
  <2>1. \A i \in 1..Len(ms) : CallsOf(ms[i]) \in Seq(CallIds)
    BY <1>2, CallsAreIds
  <2> QED
    BY <1>2, <2>1
<1>5. \A i \in DOMAIN ss : IsInjective(ss[i]) /\ Range(ss[i]) = Made(log, ids[i])
  <2> TAKE i \in DOMAIN ss
  <2>1. ss[i] = CallsOf(log[ids[i]])
    BY <1>1, <1>4
  <2>2. IsInjective(CallsOf(log[ids[i]]))
    BY DEF CallsOf, IsInjective
  <2> QED
    BY <2>1, <2>2 DEF Made
<1> HIDE DEF ss
<1>6. \A i, j \in DOMAIN ss : i # j => Range(ss[i]) \cap Range(ss[j]) = {}
  <2>1. ASSUME NEW i \in DOMAIN ss, NEW j \in DOMAIN ss, NEW c,
               c \in Made(log, ids[i]), c \in Made(log, ids[j])
        PROVE  i = j
    <3>1. DOMAIN ss = DOMAIN ids /\ DOMAIN ss = DOMAIN ms
      BY <1>1, <1>4
    <3>2. /\ i \in DOMAIN ids /\ j \in DOMAIN ids
          /\ ids[i] \in Range(ids) /\ ids[j] \in Range(ids)
          /\ log[ids[i]] \in Message /\ log[ids[j]] \in Message
      BY <1>2, <3>1
    <3>3. log[ids[i]].turn = c[1] /\ log[ids[j]].turn = c[1]
      BY <2>1, <3>2, MadeIs
    <3>4. ids[i] = ids[j]
      BY <2>1, <3>2, <3>3 DEF OneTurn
    <3> QED
      BY <3>2, <3>4 DEF IsInjective
  <2> TAKE i, j \in DOMAIN ss
  <2> HAVE i # j
  <2>2. Range(ss[i]) = Made(log, ids[i]) /\ Range(ss[j]) = Made(log, ids[j])
    BY <1>5
  <2>3. \A c : ~(c \in Made(log, ids[i]) /\ c \in Made(log, ids[j]))
    BY <2>1
  <2> QED
    BY <2>2, <2>3
<1>7. all \in Seq(CallIds) /\ IsInjective(all)
      /\ \A c : c \in Range(all) <=> \E i \in DOMAIN ss : c \in Range(ss[i])
  BY <1>4, <1>5, <1>6, FlattenIs
<1> HIDE DEF all
<1>8. \A c : c \in Range(all) <=> \E a \in Range(ids) : c \in Made(log, a)
  <2>1. \A a \in Range(ids) : \E i \in DOMAIN ids : a = ids[i]
    BY DEF Range
  <2>2. \A c : c \in Range(all) <=> \E i \in DOMAIN ids : c \in Made(log, ids[i])
    BY <1>1, <1>4, <1>5, <1>7
  <2>3. \A i \in DOMAIN ids : ids[i] \in Range(ids)
    BY <1>1, <1>2
  <2> QED
    BY <2>1, <2>2, <2>3
<1>9. \A c : c \in done <=> c \in Given(log, Range(ids))
  <2> TAKE c
  <2>1. c \in done <=> \E i \in DOMAIN ids : IsResult(log, ids[i]) /\ log[ids[i]].of = c
    BY <1>1 DEF Results, IsResult
  <2>2. \A a \in Range(ids) : \E i \in DOMAIN ids : a = ids[i]
    BY DEF Range
  <2>3. \A i \in DOMAIN ids : ids[i] \in Range(ids)
    BY <1>1, <1>2
  <2>4. c \in Given(log, Range(ids))
          <=> \E n \in Range(ids) : IsResult(log, n) /\ log[n].of = c
    BY GivenIs
  <2> HIDE DEF done
  <2> QED
    BY <2>1, <2>2, <2>3, <2>4
<1> HIDE DEF done
<1>10. open \in Seq(CallIds) /\ IsInjective(open) /\ Range(open) = Range(all) \ done
  BY <1>7, WithinKeeps
<1> HIDE DEF open
<1>11. \A c : c \in Range(open) <=> c \in Opens(log, Range(ids))
  BY <1>8, <1>9, <1>10, GivenIs
<1>12. DOMAIN rep = DOMAIN open
       /\ \A i \in DOMAIN rep : rep[i].kind = "result" /\ rep[i].of = open[i]
  BY <1>3 DEF Result
<1>13. \A i \in DOMAIN rep : rep[i].of \in Range(open)
  BY <1>12 DEF Range
<1>14. \A c \in Range(open) : \E i \in DOMAIN rep : rep[i].of = c
  BY <1>12 DEF Range
<1>15. \A i, j \in DOMAIN rep : rep[i].of = rep[j].of => i = j
  BY <1>10, <1>12 DEF IsInjective
<1> QED
  BY <1>11, <1>12, <1>13, <1>14, <1>15

Ascending(s) == \A i, j \in DOMAIN s : i < j => s[i] < s[j]

LEMMA JoinAscends ==
  ASSUME NEW D \in SUBSET Nat, NEW a \in Seq(D), NEW b \in Seq(D), Ascending(a), Ascending(b),
         \A m \in Range(a), n \in Range(b) : m < n
  PROVE  Ascending(a \o b)
<1> DEFINE s == a \o b
<1>1. /\ s \in Seq(D) /\ Len(s) = Len(a) + Len(b) /\ DOMAIN s = 1..(Len(a) + Len(b))
      /\ Len(a) \in Nat /\ Len(b) \in Nat /\ DOMAIN a = 1..Len(a) /\ DOMAIN b = 1..Len(b)
      /\ \A i \in DOMAIN s : s[i] = IF i <= Len(a) THEN a[i] ELSE b[i - Len(a)]
  OBVIOUS
<1> HIDE DEF s
<1>2. SUFFICES ASSUME NEW i \in DOMAIN s, NEW j \in DOMAIN s, i < j PROVE s[i] < s[j]
  BY DEF Ascending, s
<1>3. i \in Nat /\ j \in Nat
  BY <1>1
<1>4. CASE i <= Len(a) /\ j <= Len(a)
  <2>1. i \in DOMAIN a /\ j \in DOMAIN a /\ s[i] = a[i] /\ s[j] = a[j]
    BY <1>1, <1>4
  <2> QED
    BY <1>2, <2>1 DEF Ascending
<1>5. CASE i <= Len(a) /\ ~(j <= Len(a))
  <2>1. i \in DOMAIN a /\ j - Len(a) \in DOMAIN b /\ s[i] = a[i] /\ s[j] = b[j - Len(a)]
    BY <1>1, <1>5
  <2>2. s[i] \in Range(a) /\ s[j] \in Range(b)
    BY <2>1 DEF Range
  <2> QED
    BY <2>2
<1>6. CASE ~(i <= Len(a))
  <2>1. /\ i - Len(a) \in DOMAIN b /\ s[i] = b[i - Len(a)]
        /\ j - Len(a) \in DOMAIN b /\ s[j] = b[j - Len(a)]
        /\ i - Len(a) < j - Len(a)
    BY <1>1, <1>2, <1>3, <1>6
  <2> HIDE DEF Ascending
  <2>2. \A x, y \in DOMAIN b : x < y => b[x] < b[y]
    BY DEF Ascending
  <2> QED
    BY <2>1, <2>2
<1> QED
  BY <1>3, <1>4, <1>5, <1>6

\* What is silent is not heard.
LEMMA SilentIs ==
  ASSUME IInv, Numbered, NEW n \in DOMAIN log, Silent(log[n])
  PROVE  ~IsResult(log, n) /\ Made(log, n) = {}
<1>1. log[n] \in Message /\ log[n].kind = "assistant" /\ log[n].calls = 0
  BY KeptFacts DEF Silent, Failed, Numbered
<1> QED
  BY <1>1, MadeIs DEF IsResult

\* The results of interrupted calls join the history.
Joins(ms, rep, ids) ==
  /\ ms \in Seq(DOMAIN log) /\ IsInjective(ms) /\ Ascending(ms)
  /\ rep = Interrupted(Records(ms)) /\ ids = Ids(Len(log), rep) /\ mem' = ms \o ids

LEMMA JoinsPair ==
  ASSUME IInv, Numbered, NEW ms, NEW rep, NEW ids, Joins(ms, rep, ids),
         NEW S, S = {n \in Range(ms) : ~Silent(log[n])}, Laid(log, S),
         NEW new, Grows(new), \A i \in DOMAIN rep : i \in DOMAIN new /\ new[i] = rep[i]
  PROVE  /\ InOrder' /\ Open' = {} /\ Len(rep) \in Nat
         /\ Range(ids) \subseteq Range(mem') /\ Range(ms) \subseteq Range(mem')
         /\ \A i \in 1..Len(rep) : Len(log) + i \in Range(mem')
         /\ \A n \in Range(mem') : n \in Nat /\ n <= Len(log) + Len(rep)
<1>1. /\ log \in Seq(Message) /\ Len(log) \in Nat /\ DOMAIN log = 1..Len(log)
      /\ new \in Seq(Message)
  BY Facts DEF Grows
<1>2. Range(ms) \subseteq DOMAIN log /\ S \subseteq DOMAIN log /\ S \subseteq Range(ms)
  BY DEF Joins, Range
<1>3. \A n \in Range(ms) \ S : ~IsResult(log, n) /\ Made(log, n) = {}
  BY <1>2, SilentIs
<1>4. Opens(log, S) = Opens(log, Range(ms))
  BY <1>2, <1>3, LeaveOut
<1>5. OneTurn(log, Range(ms))
  BY <1>3 DEF Laid, Orderly, OneTurn
<1>6. /\ \A i \in DOMAIN rep : rep[i].kind = "result" /\ rep[i].of \in Opens(log, S)
      /\ \A c \in Opens(log, S) : \E i \in DOMAIN rep : rep[i].of = c
      /\ \A i, j \in DOMAIN rep : rep[i].of = rep[j].of => i = j
  <2>1. ms \in Seq(DOMAIN log) /\ IsInjective(ms) /\ rep = Interrupted(Records(ms))
    BY DEF Joins
  <2>2. /\ \A i \in DOMAIN rep : /\ rep[i].kind = "result"
                                /\ rep[i].of \in Opens(log, Range(ms))
        /\ \A c \in Opens(log, Range(ms)) : \E i \in DOMAIN rep : rep[i].of = c
        /\ \A i, j \in DOMAIN rep : rep[i].of = rep[j].of => i = j
    <3>1. log \in Seq(Message)
      BY <1>1
    <3> QED
      BY <1>5, <2>1, <3>1, InterruptedAnswers
  <2> QED
    BY <1>4, <2>2
<1>7. rep \in Seq(Message) /\ DOMAIN rep = 1..Len(rep) /\ Len(rep) \in Nat
  BY InterruptedHarmless DEF Joins
<1>8. /\ ids \in Seq(Nat \ {0}) /\ Len(ids) = Len(rep) /\ DOMAIN ids = 1..Len(rep)
      /\ \A i \in 1..Len(rep) : ids[i] = Len(log) + i
  BY <1>1, <1>7, IdsAre DEF Joins
<1> DEFINE R == Range(ids)
<1>9. /\ \A n \in R : \E i \in DOMAIN rep : n = Len(log) + i /\ log'[n] = rep[i] /\ n \in Nat
      /\ \A i \in DOMAIN rep : Len(log) + i \in R /\ log'[Len(log) + i] = rep[i]
  <2>1. \A i \in DOMAIN rep : log'[ids[i]] = rep[i] /\ ids[i] = Len(log) + i
    BY <1>7, <1>8 DEF Grows
  <2>2. \A n \in R : \E i \in DOMAIN ids : n = ids[i]
    BY DEF Range
  <2>3. \A i \in DOMAIN ids : ids[i] \in R
    BY DEF Range
  <2> HIDE DEF R
  <2> QED
    BY <1>1, <1>7, <1>8, <2>1, <2>2, <2>3, SMTT(40)
<1> HIDE DEF R
<1>10. \A n \in S : log'[n] = log[n]
  BY <1>2 DEF Grows
<1>11. Laid(log', S) /\ Opens(log', S) = Opens(log, S)
  BY <1>10, SameHistory
<1>12. \A m \in Range(ms), n \in R : m < n
  BY <1>1, <1>2, <1>7, <1>9
<1>13. /\ Laid(log', S \cup R) /\ Opens(log', S \cup R) = Opens(log', S) \ Given(log', R)
  <2>1. History(log', S \cup R)
    <3>1. S \cup R \subseteq Nat
      BY <1>1, <1>2, <1>9
    <3>2. \A n \in S : log'[n] \in Message
      BY <1>1, <1>2, <1>10
    <3>3. \A n \in R : log'[n] \in Message
      BY <1>7, <1>9
    <3> QED
      BY <3>1, <3>2, <3>3 DEF History
  <2>2. \A x \in S, r \in R : x < r
    BY <1>2, <1>12
  <2>3. \A r \in R : IsResult(log', r) /\ log'[r].of \in Opens(log', S)
    BY <1>6, <1>9, <1>11 DEF IsResult
  <2>4. OneResult(log', R)
    <3>1. SUFFICES ASSUME NEW q \in R, NEW r \in R, log'[q].of = log'[r].of PROVE q = r
      BY DEF OneResult
    <3>2. PICK i \in DOMAIN rep : q = Len(log) + i /\ log'[q] = rep[i]
      BY <1>9
    <3>3. PICK j \in DOMAIN rep : r = Len(log) + j /\ log'[r] = rep[j]
      BY <1>9
    <3>4. i = j
      BY <1>6, <3>1, <3>2, <3>3
    <3> QED
      BY <3>2, <3>3, <3>4
  <2> QED
    BY <1>11, <2>1, <2>2, <2>3, <2>4, AddResults
<1>14. Opens(log', S \cup R) = {}
  <2>1. \A c \in Opens(log, S) : c \in Given(log', R)
    <3> TAKE c \in Opens(log, S)
    <3>1. PICK i \in DOMAIN rep : rep[i].of = c
      BY <1>6
    <3>2. Len(log) + i \in R /\ IsResult(log', Len(log) + i) /\ log'[Len(log) + i].of = c
      BY <1>6, <1>9, <3>1 DEF IsResult
    <3> QED
      BY <3>2, GivenIs
  <2> QED
    BY <1>11, <1>13, <2>1
<1>15. Range(mem') = Range(ms) \cup R
  <2>1. ms \in Seq(Nat) /\ ids \in Seq(Nat)
    <3>1. DOMAIN log \subseteq Nat /\ Nat \ {0} \subseteq Nat
      BY <1>1
    <3> QED
      BY <1>8, <3>1, SeqMonotonic DEF Joins
  <2> QED
    BY <2>1, RangeConcatenation DEF Joins, R
<1>16. Kept' = S \cup R
  <2>1. \A n \in Range(ms) : log'[n] = log[n]
    BY <1>2 DEF Grows
  <2>2. \A n \in R : ~Silent(log'[n])
    BY <1>6, <1>9, ZenonT(40) DEF Silent, Failed
  <2>3. Kept' = {n \in Range(mem') : ~Silent(log'[n])}
    BY DEF Kept
  <2> QED
    BY <1>15, <2>1, <2>2, <2>3
<1>17. InOrder'
  <2>1. ms \in Seq(Nat) /\ ids \in Seq(Nat)
    <3>1. DOMAIN log \subseteq Nat /\ Nat \ {0} \subseteq Nat
      BY <1>1
    <3> QED
      BY <1>8, <3>1, SeqMonotonic DEF Joins
  <2>2. Ascending(ids)
    BY <1>1, <1>8 DEF Ascending
  <2>3. Ascending(mem')
    BY <1>12, <2>1, <2>2, JoinAscends DEF Joins, R
  <2> QED
    BY <1>13, <1>16, <2>3 DEF InOrder, Ascending
<1>18. Open' = {}
  BY <1>14, <1>16 DEF Open
<1>19. \A n \in Range(mem') : n \in Nat /\ n <= Len(log) + Len(rep)
  BY <1>1, <1>2, <1>7, <1>9, <1>15
<1>20. \A i \in 1..Len(rep) : Len(log) + i \in Range(mem')
  BY <1>7, <1>9, <1>15
<1> QED
  BY <1>7, <1>15, <1>17, <1>18, <1>19, <1>20 DEF R
\* A run begins with the results of calls that were interrupted, and the prompts.
LEMMA BeginPairs ==
  ASSUME IInv, Numbered, Pairs, NEW ms \in Seq(DOMAIN log), IsInjective(ms), Ascending(ms),
         Laid(log, {n \in Range(ms) : ~Silent(log[n])}), Range(store.writes) \subseteq Range(ms),
         NEW prompts \in {<<>>, <<Plain>>}, Begin(ms, prompts),
         UNCHANGED <<store, queue>>, spent'.queued = spent.queued
  PROVE  Pairs'
<1> DEFINE rep == Interrupted(Records(ms))
           ids == Ids(Len(log), rep)
           new == rep \o prompts
           out == ids \o Ids(Len(log) + Len(rep), prompts)
           S == {n \in Range(ms) : ~Silent(log[n])}
<1>1. /\ Logs(new) /\ mem' = ms \o ids /\ run' = [Idle EXCEPT !.phase = "start", !.out = out]
      /\ Joins(ms, rep, ids)
  BY DEF Begin, Joins
<1>2. rep \in Seq(Message)
  BY InterruptedHarmless
<1>3. prompts \in Seq(Message) /\ \A i \in DOMAIN prompts : prompts[i] = Plain
  <2>1. Plain \in Message
    BY DEF Message
  <2>2. <<>> \in Seq(Message) /\ <<Plain>> \in Seq(Message)
    BY <2>1
  <2>3. \A i \in DOMAIN <<Plain>> : <<Plain>>[i] = Plain
    OBVIOUS
  <2>4. \A i \in DOMAIN <<>> : <<>>[i] = Plain
    OBVIOUS
  <2> QED
    BY <2>2, <2>3, <2>4
<1> HIDE DEF rep
<1>4. /\ new \in Seq(Message) /\ Len(new) = Len(rep) + Len(prompts)
      /\ Len(rep) \in Nat /\ Len(prompts) \in Nat /\ Len(log) \in Nat
      /\ \A k \in DOMAIN new : \/ k \in 1..Len(rep) /\ new[k] = rep[k]
                               \/ k > Len(rep) /\ new[k] = Plain
      /\ \A k \in DOMAIN rep : k \in DOMAIN new /\ new[k] = rep[k]
  <2>1. /\ new \in Seq(Message) /\ Len(new) = Len(rep) + Len(prompts)
        /\ Len(rep) \in Nat /\ Len(prompts) \in Nat
        /\ DOMAIN rep = 1..Len(rep) /\ DOMAIN prompts = 1..Len(prompts)
        /\ DOMAIN new = 1..(Len(rep) + Len(prompts))
        /\ \A k \in DOMAIN new :
             new[k] = IF k <= Len(rep) THEN rep[k] ELSE prompts[k - Len(rep)]
    BY <1>2, <1>3
  <2>2. Len(log) \in Nat
    BY Facts
  <2> HIDE DEF new
  <2>3. \A k \in DOMAIN new : ~(k <= Len(rep)) => k - Len(rep) \in DOMAIN prompts
    BY <2>1
  <2> QED
    BY <1>3, <2>1, <2>2, <2>3
<1>5. out = Ids(Len(log), new)
  BY <1>2, <1>3, <1>4, IdsJoin
<1> HIDE DEF new
<1>6. Grows(new)
  BY <1>1, <1>4, Facts, LogsGrow
<1>7. /\ out \in Seq(Nat \ {0}) /\ DOMAIN out = 1..Len(new)
      /\ \A i \in 1..Len(new) : out[i] = Len(log) + i
  <2> HIDE DEF out
  <2> QED
    BY <1>4, <1>5, IdsAre
<1> HIDE DEF out, ids
<1>8. /\ InOrder' /\ Open' = {} /\ Range(ms) \subseteq Range(mem')
      /\ \A i \in 1..Len(rep) : Len(log) + i \in Range(mem')
      /\ \A n \in Range(mem') : n \in Nat /\ n <= Len(log) + Len(rep)
  BY <1>1, <1>4, <1>6, JoinsPair
<1>9. /\ run'.phase = "start" /\ run'.out = out /\ ~run'.cancelled /\ ~run'.late
  BY <1>1 DEF Idle
<1>10. \A i \in DOMAIN out : out[i] \notin Range(mem') =>
         /\ log'[out[i]] = Plain
         /\ \A m \in Range(mem') : m < out[i]
         /\ \A j \in 1..(i - 1) : out[j] < out[i]
  <2> SUFFICES ASSUME NEW i \in DOMAIN out, out[i] \notin Range(mem')
               PROVE  /\ log'[out[i]] = Plain
                      /\ \A m \in Range(mem') : m < out[i]
                      /\ \A j \in 1..(i - 1) : out[j] < out[i]
    OBVIOUS
  <2>1. i \in Nat /\ i > Len(rep) /\ i \in DOMAIN new /\ out[i] = Len(log) + i
    <3>1. i \in 1..Len(new) /\ DOMAIN new = 1..Len(new)
      BY <1>4, <1>7
    <3> QED
      BY <1>4, <1>7, <1>8, <3>1
  <2>2. log'[out[i]] = Plain
    BY <1>4, <1>6, <2>1 DEF Grows
  <2>3. \A m \in Range(mem') : m < out[i]
    BY <1>4, <1>8, <2>1
  <2>4. \A j \in 1..(i - 1) : out[j] < out[i]
    BY <1>4, <1>7, <2>1
  <2> QED
    BY <2>2, <2>3, <2>4
<1>11. \A n \in Coming' : log'[n] = Plain
  <2>1. \A n \in Coming' : n \notin Range(mem') /\ \E i \in DOMAIN out : n = out[i]
    BY <1>9 DEF Coming, Range
  <2> QED
    BY <1>10, <2>1
<1>12. \A n \in Coming' : ~IsResult(log', n) /\ Made(log', n) = {}
  <2> TAKE n \in Coming'
  <2>1. log'[n] = Plain /\ Plain.kind = "user" /\ Plain \in Message
    BY <1>11 DEF Plain, Message
  <2> QED
    BY <2>1, MadeIs DEF IsResult
<1>13. Fitting'
  <2>1. \A n \in Coming' : Fits(n)'
    BY <1>8, <1>12 DEF Fits
  <2>2. OneResult(log', Coming')
    BY <1>12 DEF OneResult
  <2> QED
    BY <1>9, <1>10, <2>1, <2>2 DEF Fitting
<1>14. Phased'
  BY <1>8, <1>9 DEF Phased
<1>15. Steered'
  BY <1>8, <1>9 DEF Pairs, Steered
<1> QED
  BY <1>8, <1>13, <1>14, <1>15 DEF Pairs

LEMMA PromptPairs ==
  ASSUME IInv, Numbered, Pairs, Prompt
  PROVE  Pairs'
<1>1. spent'.queued = spent.queued /\ UNCHANGED <<store, queue>>
  BY Facts DEF Prompt, Budgets
<1>2. CASE Begin(mem, <<Plain>>)
  BY <1>1, <1>2, BeginPairs, Facts DEF Pairs, InOrder, Steered, Ascending, Kept
<1>3. CASE run' = [Idle EXCEPT !.phase = "flush", !.out = store.writes] /\ UNCHANGED <<log, mem>>
  <2>1. run'.phase = "flush" /\ run'.out = store.writes /\ ~run'.cancelled /\ ~run'.late
    BY <1>3 DEF Idle
  <2>2. Range(store.writes) \subseteq Range(mem)
    BY DEF Pairs, Steered
  <2> QED
    BY <1>1, <1>3, <2>1, <2>2, AgainPairs
<1> QED
  BY <1>2, <1>3 DEF Prompt

LEMMA FlushedPairs ==
  ASSUME IInv, Numbered, Pairs, Flushed
  PROVE  Pairs'
<1>1. Begin(mem, <<Plain>>) /\ UNCHANGED <<store, queue, spent>>
  BY DEF Flushed
<1> QED
  BY <1>1, BeginPairs, Facts DEF Pairs, InOrder, Steered, Ascending, Kept

\* A failed answer without calls is dropped.
LEMMA DropPairs ==
  ASSUME IInv, Clean, Pairs, mem # <<>>, Failed(log[Last(mem)])
  PROVE  /\ Ascending(Front(mem))
         /\ Laid(log, {n \in Range(Front(mem)) : ~Silent(log[n])})
         /\ Opens(log, {n \in Range(Front(mem)) : ~Silent(log[n])}) = Open
<1> DEFINE f == Front(mem)
           S == {n \in Range(f) : ~Silent(log[n])}
<1>1. mem \in Seq(DOMAIN log) /\ DOMAIN mem = 1..Len(mem) /\ Len(mem) \in Nat /\ Len(mem) # 0
  BY Facts
<1>2. f \in Seq(DOMAIN log) /\ DOMAIN f = 1..(Len(mem) - 1)
      /\ \A i \in 1..(Len(mem) - 1) : f[i] = mem[i]
  <2>1. f = SubSeq(mem, 1, Len(mem) - 1)
    BY DEF Front
  <2> QED
    BY <1>1, <2>1
<1>3. Last(mem) = mem[Len(mem)] /\ Last(mem) \in Range(mem)
  BY <1>1 DEF Last, Range
<1> HIDE DEF f
<1>4. Ascending(f)
  BY <1>1, <1>2 DEF Pairs, InOrder, Ascending
<1>5. Range(f) \subseteq Range(mem)
  BY <1>1, <1>2 DEF Range
<1>6. \A n \in Range(mem) : n = Last(mem) \/ n \in Range(f)
  <2> TAKE n \in Range(mem)
  <2>1. PICK i \in 1..Len(mem) : n = mem[i]
    BY <1>1 DEF Range
  <2>2. CASE i = Len(mem)
    BY <1>3, <2>1, <2>2
  <2>3. CASE i # Len(mem)
    <3>1. i \in 1..(Len(mem) - 1)
      <4>1. i \in Nat /\ i >= 1 /\ i <= Len(mem) /\ Len(mem) \in Nat
        BY <1>1, <2>1
      <4> QED
        BY <2>3, <4>1
    <3>2. i \in DOMAIN f /\ f[i] = n
      BY <1>2, <2>1, <3>1
    <3> QED
      BY <3>2 DEF Range
  <2> QED
    BY <2>2, <2>3
<1>7. S \subseteq Kept
  BY <1>5 DEF Kept
<1>8. \A n \in Kept \ S : ~IsResult(log, n) /\ Made(log, n) = {}
  <2> TAKE n \in Kept \ S
  <2>1. n = Last(mem)
    BY <1>6 DEF Kept
  <2>2. n \in DOMAIN log /\ log[n] \in Message
    BY KeptFacts
  <2>3. log[n].kind = "assistant" /\ log[n].calls = 0
    BY <2>1, <2>2 DEF Clean, Failed
  <2> QED
    BY <2>2, <2>3, MadeIs DEF IsResult
<1>9. Laid(log, Kept)
  BY DEF Pairs, InOrder
<1> HIDE DEF S
<1>10. Laid(log, S) /\ Opens(log, S) = Open
  BY <1>7, <1>8, <1>9, LeaveOut DEF Open
<1> QED
  BY <1>4, <1>10 DEF f, S

LEMMA RetryPairs ==
  ASSUME IInv, Remembers, Numbered, Clean, Pairs, Retry
  PROVE  Pairs'
<1>1. /\ run.phase = "ended" /\ run.error /\ Begin(Front(mem), <<>>)
      /\ UNCHANGED <<store, queue, spent>>
  BY DEF Retry, Ready
<1>2. /\ Front(mem) \in Seq(DOMAIN log) /\ IsInjective(Front(mem))
      /\ store.writes = <<>> /\ mem # <<>> /\ Failed(log[Last(mem)])
  BY <1>1, DropIs, FrontKeeps, Facts
<1>3. Range(<<>>) = {}
  BY DEF Range
<1>4. /\ Ascending(Front(mem)) /\ Laid(log, {n \in Range(Front(mem)) : ~Silent(log[n])})
  BY <1>2, DropPairs
<1> QED
  BY <1>1, <1>2, <1>3, <1>4, BeginPairs

LEMMA FinishPairs ==
  ASSUME IInv, Remembers, Numbered, Clean, Pairs, Finish
  PROVE  Pairs'
<1> DEFINE repairs == IF run.cancelled THEN Interrupted(Records(mem)) ELSE <<>>
           ids == Ids(Len(log), repairs)
<1>1. PICK drop \in {FALSE, run.error /\ repairs = <<>>} :
        mem' = IF drop THEN Front(mem) ELSE mem \o ids
  BY DEF Finish
<1>2. /\ Logs(repairs) /\ run.phase = "ended" /\ UNCHANGED <<store, queue, spent>>
      /\ run'.phase = "closing" /\ run'.out = ids
      /\ run'.cancelled = run.cancelled /\ run'.late = run.late
  BY RunIs DEF Finish, Ready
<1>3. log \in Seq(Message) /\ mem \in Seq(DOMAIN log) /\ IsInjective(mem)
  BY Facts
<1>4. CASE ~drop /\ run.cancelled
  <2> DEFINE rep == Interrupted(Records(mem))
  <2>1. repairs = rep /\ rep \in Seq(Message)
    BY <1>3, <1>4, InterruptedHarmless
  <2>2. Joins(mem, rep, ids)
    BY <1>1, <1>3, <1>4, <2>1 DEF Joins, Pairs, InOrder, Ascending
  <2> HIDE DEF rep, ids, repairs
  <2>3. Grows(rep) /\ \A i \in DOMAIN rep : i \in DOMAIN rep /\ rep[i] = rep[i]
    BY <1>2, <1>3, <2>1, LogsGrow
  <2>4. /\ InOrder' /\ Range(ids) \subseteq Range(mem') /\ Range(mem) \subseteq Range(mem')
    BY <2>2, <2>3, JoinsPair DEF Pairs, InOrder, Kept
  <2>5. Fitting'
    BY <1>2, <2>4, OldComes
  <2>6. Phased' /\ Steered'
    BY <1>2, <2>4 DEF Pairs, Phased, Steered
  <2> QED
    BY <2>4, <2>5, <2>6 DEF Pairs
<1>5. CASE ~drop /\ ~run.cancelled
  <2>1. repairs = <<>> /\ ids = <<>>
    BY <1>5 DEF Ids
  <2>2. log' = log /\ mem' = mem /\ run'.out = <<>>
    BY <1>1, <1>2, <1>3, <1>5, <2>1 DEF Logs
  <2>3. Phased' /\ Steered'
    BY <1>2, <2>2 DEF Pairs, Phased, Steered
  <2> QED
    BY <2>2, <2>3, Pairing
<1>6. CASE drop
  <2>1. run.error /\ repairs = <<>> /\ mem' = Front(mem)
    BY <1>1, <1>6
  <2>2. ids = <<>>
    BY <2>1 DEF Ids
  <2> HIDE DEF repairs, ids
  <2>3. log' = log /\ run'.out = <<>>
    BY <1>2, <1>3, <2>1, <2>2 DEF Logs
  <2>4. store.writes = <<>> /\ mem # <<>> /\ Failed(log[Last(mem)])
    BY <1>2, <2>1, DropIs
  <2>5. /\ Ascending(mem') /\ Laid(log, {n \in Range(mem') : ~Silent(log[n])})
    BY <2>1, <2>4, DropPairs
  <2>6. InOrder'
    BY <2>3, <2>5 DEF InOrder, Ascending, Kept
  <2>7. Fitting'
    BY <2>3, NothingComes
  <2>8. Range(<<>>) = {}
    BY DEF Range
  <2>9. Phased' /\ Steered'
    BY <1>2, <2>4, <2>8 DEF Pairs, Phased, Steered
  <2> QED
    BY <2>6, <2>7, <2>9 DEF Pairs
<1> QED
  BY <1>1, <1>4, <1>5, <1>6

-----------------------------------------------------------------------------
(* Every step keeps the pairing.                                           *)

\* The answers that are made are of a turn that was counted; and the log only grows.
Counted == Numbered' /\ \E new : Grows(new)

LEMMA MoreNumbered ==
  ASSUME IInv, Numbered, NEW new, Grows(new), spent'.requests \in Nat,
         spent.requests <= spent'.requests,
         \A i \in DOMAIN new : new[i].kind = "assistant" =>
           new[i].turn <= spent'.requests /\ (new[i].blank => new[i].calls = 0)
  PROVE  Counted
<1>1. ASSUME NEW n \in DOMAIN log', log'[n].kind = "assistant"
      PROVE  log'[n].turn <= spent'.requests /\ (log'[n].blank => log'[n].calls = 0)
  <2>1. CASE n \in DOMAIN log
    <3>1. log'[n] = log[n] /\ log[n] \in Message /\ spent.requests \in Nat
      BY <2>1, KeptFacts, Facts DEF Grows, Budgets
    <3>2. log[n].turn \in Nat
      BY <1>1, <3>1, MessageFacts
    <3> QED
      BY <1>1, <2>1, <3>1, <3>2 DEF Numbered
  <2>2. CASE n \notin DOMAIN log
    <3>1. n - Len(log) \in DOMAIN new /\ log'[Len(log) + (n - Len(log))] = new[n - Len(log)]
      BY <2>2 DEF Grows
    <3>2. Len(log) + (n - Len(log)) = n
      BY Facts DEF Grows
    <3> QED
      BY <1>1, <3>1, <3>2
  <2> QED
    BY <2>1, <2>2
<1>2. Numbered'
  BY <1>1 DEF Numbered
<1> QED
  BY <1>2 DEF Counted

LEMMA SameNumbered ==
  ASSUME IInv, Numbered, UNCHANGED log, spent'.requests \in Nat, spent.requests <= spent'.requests
  PROVE  Counted
<1>1. Grows(<<>>)
  BY Facts, SameGrows
<1> QED
  BY <1>1, MoreNumbered

\* What is made are results and messages of the user.
LEMMA OthersNumbered ==
  ASSUME IInv, Numbered, NEW new \in Seq(Message), Logs(new), spent'.requests = spent.requests,
         \A i \in DOMAIN new : new[i].kind # "assistant"
  PROVE  Counted
<1>1. Grows(new) /\ spent.requests \in Nat
  BY Facts, LogsGrow DEF Budgets
<1> QED
  BY <1>1, MoreNumbered

LEMMA BeginNumbered ==
  ASSUME IInv, Numbered, NEW ms \in Seq(DOMAIN log), NEW prompts \in {<<>>, <<Plain>>},
         Begin(ms, prompts), spent'.requests = spent.requests
  PROVE  Counted
<1> DEFINE repairs == Interrupted(Records(ms))
<1>1. repairs \in Seq(ResultsOf({"interrupted"}))
  <2>1. Records(ms) \in Seq(Message)
    BY Facts, RecordsAre
  <2> QED
    BY <2>1, InterruptedAre
<1>2. Logs(repairs \o prompts)
  BY DEF Begin
<1> HIDE DEF repairs
<1>3. DEFINE M == ResultsOf({"interrupted"}) \cup {Plain}
<1>4. repairs \in Seq(M) /\ prompts \in Seq(M)
  <2>1. <<>> \in Seq(M) /\ <<Plain>> \in Seq(M)
    OBVIOUS
  <2> QED
    BY <1>1, <2>1, SeqMonotonic
<1>5. \A m \in M : m \in Message /\ m.kind # "assistant"
  BY DEF Message, ResultsOf, Plain, Hows
<1> HIDE DEF M
<1>6. repairs \o prompts \in Seq(M)
  BY <1>4, ConcatProperties
<1>7. repairs \o prompts \in Seq(Message)
  BY <1>5, <1>6, SeqMonotonic
<1>8. \A i \in DOMAIN (repairs \o prompts) : (repairs \o prompts)[i].kind # "assistant"
  BY <1>5, <1>6
<1> QED
  BY <1>2, <1>7, <1>8, OthersNumbered

\* Messages of the user, or results of calls.
LEMMA UserNumbered ==
  ASSUME IInv, Numbered, StartTurn \/ NextTurn \/ Finish \/ Prompt \/ Flushed
  PROVE  Counted
<1>1. spent'.requests = spent.requests
  BY Facts DEF StartTurn, NextTurn, Finish, Prompt, Flushed, Budgets
<1>2. \A polled \in {<<>>, <<Plain>>} : Goes(polled) => Counted
  <2> TAKE polled \in {<<>>, <<Plain>>}
  <2> HAVE Goes(polled)
  <2>1. Plain \in Message /\ Plain.kind # "assistant"
    BY DEF Message, Plain
  <2>2. polled \in Seq(Message)
    <3>1. <<>> \in Seq(Message) /\ <<Plain>> \in Seq(Message)
      BY <2>1
    <3> QED
      BY <3>1
  <2>4. Logs(polled)
    BY DEF Goes
  <2>3. \A i \in DOMAIN polled : polled[i].kind # "assistant"
    <3> HIDE DEF Plain
    <3>1. DOMAIN <<>> = {} /\ DOMAIN <<Plain>> = {1} /\ <<Plain>>[1] = Plain
      OBVIOUS
    <3> QED
      BY <2>1, <3>1
  <2> QED
    BY <1>1, <2>2, <2>3, <2>4, OthersNumbered
<1>3. UNCHANGED log => Counted
  BY <1>1, Facts, SameNumbered
<1>4. CASE StartTurn \/ NextTurn
  BY <1>2, <1>3, <1>4 DEF StartTurn, NextTurn, Polled
<1>5. CASE Finish
  <2> DEFINE repairs == IF run.cancelled THEN Interrupted(Records(mem)) ELSE <<>>
  <2>1. Logs(repairs)
    BY <1>5 DEF Finish
  <2>2. Interrupted(Records(mem)) \in Seq(ResultsOf({"interrupted"}))
    <3>1. Records(mem) \in Seq(Message)
      BY Facts, RecordsAre
    <3> QED
      BY <3>1, InterruptedAre
  <2>3. repairs \in Seq(ResultsOf({"interrupted"}))
    BY <2>2
  <2> HIDE DEF repairs
  <2>4. \A m \in ResultsOf({"interrupted"}) : m \in Message /\ m.kind # "assistant"
    BY DEF Message, ResultsOf, Hows
  <2>5. repairs \in Seq(Message)
    BY <2>3, <2>4, SeqMonotonic
  <2>6. \A i \in DOMAIN repairs : repairs[i].kind # "assistant"
    BY <2>3, <2>4
  <2> QED
    BY <1>1, <2>1, <2>5, <2>6, OthersNumbered
<1>6. CASE Prompt \/ Flushed
  <2>1. Begin(mem, <<Plain>>) \/ UNCHANGED log
    BY <1>6 DEF Prompt, Flushed
  <2> QED
    BY <1>1, <1>3, <2>1, Facts, BeginNumbered
<1> QED
  BY <1>4, <1>5, <1>6

LEMMA RetryNumbered ==
  ASSUME IInv, Remembers, Numbered, Retry
  PROVE  Counted
<1>1. Begin(Front(mem), <<>>) /\ spent'.requests = spent.requests
  BY DEF Retry
<1>2. Front(mem) \in Seq(DOMAIN log)
  BY DropIs DEF Retry, Ready
<1> QED
  BY <1>1, <1>2, BeginNumbered

LEMMA BatchNumbered ==
  ASSUME IInv, Numbered, BatchBegins \/ SeqPrepare \/ SeqDone \/ ParEnds
  PROVE  Counted
<1>1. UNCHANGED spent
  BY DEF BatchBegins, SeqPrepare, SeqDone, ParEnds
<1>2. UNCHANGED log => Counted
  BY <1>1, Facts, SameNumbered
<1>3. ASSUME BatchBegins
      PROVE  Counted
  <2> DEFINE results == [k \in DOMAIN Calls |-> Result(Calls[k], "truncated")]
  <2>1. Logs(results) \/ UNCHANGED log
    BY <1>3 DEF BatchBegins
  <2>2. results \in Seq(ResultsOf({"truncated"}))
    <3>1. {"truncated"} \in SUBSET Hows
      BY DEF Hows
    <3>2. Calls \in Seq(CallIds)
      BY <1>3, CallsAre DEF BatchBegins, Ready
    <3> QED
      BY <3>1, <3>2, ResultsAre
  <2> HIDE DEF results
  <2>3. \A m \in ResultsOf({"truncated"}) : m \in Message /\ m.kind # "assistant"
    BY DEF Message, ResultsOf, Hows
  <2>4. results \in Seq(Message)
    BY <2>2, <2>3, SeqMonotonic
  <2>5. \A i \in DOMAIN results : results[i].kind # "assistant"
    BY <2>2, <2>3
  <2> QED
    BY <1>1, <1>2, <2>1, <2>4, <2>5, OthersNumbered
<1>4. ASSUME SeqPrepare \/ SeqDone
      PROVE  Counted
  <2>1. run.phase = "seq" /\ run.next <= Len(Calls)
    BY <1>4 DEF SeqPrepare, SeqDone, Ready
  <2>2. Calls[run.next] \in CallIds
    BY <2>1, BatchFacts, AtNext
  <2>3. ASSUME NEW how \in {"refused", "aborted", "ran"}, Settles(run.next, how)
        PROVE  Counted
    <3> DEFINE m == Result(Calls[run.next], how)
    <3>1. m \in Message /\ m.kind # "assistant"
      BY <2>2 DEF Result, Message, ResultsOf, Hows, Outcomes
    <3>2. Logs(<<m>>)
      BY <2>3 DEF Settles
    <3> HIDE DEF m
    <3>3. <<m>> \in Seq(Message) /\ \A i \in DOMAIN <<m>> : <<m>>[i].kind # "assistant"
      BY <3>1
    <3> QED
      BY <1>1, <3>2, <3>3, OthersNumbered
  <2>4. \/ UNCHANGED log
        \/ \E how \in {"refused", "aborted", "ran"} : Settles(run.next, how)
    BY <1>4 DEF SeqPrepare, SeqDone
  <2> QED
    BY <1>2, <2>3, <2>4
<1>5. ASSUME ParEnds
      PROVE  Counted
  <2> DEFINE settled == Within([k \in DOMAIN Calls |-> k], {k \in DOMAIN Calls : tools[k] # "none"})
             results == [i \in DOMAIN settled |-> Result(Calls[settled[i]], tools[settled[i]])]
  <2>1. Logs(results) /\ run.phase = "par"
    BY <1>5 DEF ParEnds, Ready
  <2>2. OfCalls(results)
    BY <2>1, ParResultsAre
  <2>3. \A i \in DOMAIN results : results[i].kind # "assistant"
    <3> HIDE DEF settled
    <3> QED
      BY DEF Result
  <2> HIDE DEF results
  <2>4. results \in Seq(Message)
    BY <2>2 DEF OfCalls
  <2> QED
    BY <1>1, <2>1, <2>3, <2>4, OthersNumbered
<1> QED
  BY <1>3, <1>4, <1>5

LEMMA AnswersNumbered ==
  ASSUME IInv, Numbered,
         \/ BlankEnds \/ Publish
         \/ \E calls \in 0..MaxCalls, stop \in {"done", "cut", "error", "aborted"},
               blank \in BOOLEAN : Answer(calls, stop, blank)
  PROVE  Counted
<1>1. spent'.requests = spent.requests /\ spent.requests \in Nat
  BY Facts DEF BlankEnds, Publish, Answer, Budgets
<1>2. ASSUME NEW m \in Message, Logs(<<m>>), m.turn \in Nat, m.turn <= spent.requests,
             m.blank => m.calls = 0
      PROVE  Counted
  <2>1. Grows(<<m>>)
    BY <1>2, OneMore
  <2> QED
    BY <1>1, <1>2, <2>1, MoreNumbered
<1>3. UNCHANGED log => Counted
  BY <1>1, SameNumbered
<1>4. ASSUME BlankEnds
      PROVE  Counted
  <2> DEFINE m == Answered(spent.requests, 0, "error", TRUE)
  <2>1. Logs(<<m>>) \/ UNCHANGED log
    BY <1>4 DEF BlankEnds
  <2>2. m \in Message /\ m.turn = spent.requests /\ m.calls = 0
    BY Facts DEF Answered, Message, Answers
  <2> HIDE DEF m
  <2> QED
    BY <1>1, <1>2, <1>3, <2>1, <2>2
<1>5. ASSUME Publish
      PROVE  Counted
  <2> DEFINE m == Answered(0, 0, IF run.cancelled THEN "aborted" ELSE "error", TRUE)
  <2>1. Logs(<<m>>) \/ UNCHANGED log
    BY <1>5 DEF Publish
  <2>2. m \in Message /\ m.turn = 0 /\ m.calls = 0
    BY Facts DEF Answered, Message, Answers
  <2> HIDE DEF m
  <2> QED
    BY <1>1, <1>2, <1>3, <2>1, <2>2
<1>6. ASSUME NEW calls \in 0..MaxCalls, NEW stop \in {"done", "cut", "error", "aborted"},
             NEW blank \in BOOLEAN, Answer(calls, stop, blank)
      PROVE  Counted
  <2> DEFINE m == Answered(spent.requests, calls, stop, blank)
  <2>1. Logs(<<m>>) /\ (blank => calls = 0)
    BY <1>6 DEF Answer
  <2>2. m \in Message /\ m.turn = spent.requests /\ m.calls = calls /\ m.blank = blank
    BY Facts DEF Answered, Message, Answers
  <2> HIDE DEF m
  <2> QED
    BY <1>1, <1>2, <2>1, <2>2
<1> QED
  BY <1>4, <1>5, <1>6

\* What a repair appends are messages of the log, and results.
LEMMA RestartNumbered ==
  ASSUME IInv, Numbered, Restart
  PROVE  Counted
<1> DEFINE path  == Path(store, store.tip)
           old   == Records(path)
           fixed == Repair(old)
           keep  == Len(LongestCommonPrefix({old, fixed}))
           new   == SubSeq(fixed, keep + 1, Len(fixed))
           M     == {log[n] : n \in store.file}
           X     == M \cup ResultsOf({"missing"})
<1>1. Logs(new) /\ spent'.requests = spent.requests
  <2>1. log' = log \o new /\ spent' = [spent EXCEPT !.restarts = @ + 1]
    BY DEF Restart
  <2> HIDE DEF new
  <2> QED
    BY <2>1, Facts DEF Logs, Budgets
<1>2. keep \in Nat /\ keep <= Len(path) /\ new \in Seq(Message)
  BY BranchIs
<1>3. fixed \in Seq(X)
  BY LoadedAre, RepairAdds
<1>4. store.file \subseteq DOMAIN log
  BY DEF IInv, Filed, Tree
<1>5. \A m \in X : m.kind = "assistant" => m.turn <= spent.requests /\ (m.blank => m.calls = 0)
  BY <1>4 DEF Numbered, ResultsOf
<1> HIDE DEF keep, X
<1>6. \A i \in DOMAIN new : new[i] \in X
  <2> HIDE DEF fixed
  <2>1. Len(fixed) \in Nat /\ \A i \in 1..Len(fixed) : fixed[i] \in X
    BY <1>3
  <2>2. keep + 1 \in Int /\ Len(fixed) \in Int /\ \A i \in (keep + 1)..Len(fixed) : fixed[i] \in X
    BY <1>2, <2>1
  <2>3. new \in Seq(X)
    BY <2>2, SubSeqProperties
  <2> HIDE DEF new
  <2> QED
    BY <2>3
<1> HIDE DEF new
<1>7. Grows(new) /\ spent.requests \in Nat
  BY <1>1, <1>2, Facts, LogsGrow
<1> QED
  BY <1>1, <1>5, <1>6, <1>7, MoreNumbered

LEMMA NextNumbered ==
  ASSUME IInv, Remembers, Numbered, [Next]_vars
  PROVE  Counted
<1>1. CASE StartTurn \/ NextTurn \/ Finish \/ Prompt \/ Flushed \/ Retry
  BY <1>1, UserNumbered, RetryNumbered
<1>2. CASE BatchBegins \/ SeqPrepare \/ SeqDone \/ ParEnds
  BY <1>2, BatchNumbered
<1>3. CASE \/ BlankEnds \/ Publish
           \/ \E calls \in 0..MaxCalls, stop \in {"done", "cut", "error", "aborted"},
                 blank \in BOOLEAN : Answer(calls, stop, blank)
  BY <1>3, AnswersNumbered
<1>4. CASE Restart
  BY <1>4, RestartNumbered
<1>5. CASE \/ UNCHANGED vars
           \/ Request \/ FailedEnds \/ WordsEnd \/ SeqBegins \/ SeqEnds \/ ParPrepare \/ ParStart
           \/ Pauses \/ Settle \/ Cancel \/ Close
           \/ (\E k \in 1..MaxCalls : ParDone(k))
           \/ \E which \in {"steer", "follow"} : Queue(which)
  <2>1. UNCHANGED log
    BY <1>5
       DEF vars, Request, FailedEnds, WordsEnd, SeqBegins, SeqEnds, ParPrepare, ParStart, Pauses,
           Settle, Cancel, Close, ParDone, Queue
  <2>2. \/ UNCHANGED spent
        \/ \E k \in {0, 1} : spent' = [spent EXCEPT !.requests = @ + k]
        \/ spent' = [spent EXCEPT !.cancels = @ + 1]
        \/ spent' = [spent EXCEPT !.closes = @ + 1]
        \/ spent' = [spent EXCEPT !.queued = @ + 1]
    BY <1>5
       DEF vars, Request, FailedEnds, WordsEnd, SeqBegins, SeqEnds, ParPrepare, ParStart, Pauses,
           Settle, Cancel, Close, ParDone, Queue
  <2>3. spent \in Budgets /\ spent.requests \in Nat
    BY Facts
  <2>4. spent'.requests \in Nat /\ spent.requests <= spent'.requests
    BY <2>2, <2>3 DEF Budgets
  <2> QED
    BY <2>1, <2>4, SameNumbered
<1> QED
  BY <1>1, <1>2, <1>3, <1>4, <1>5 DEF Next, ToolStep, LoopStep

LEMMA AnswerPairs ==
  ASSUME IInv, Pairs, NEW calls \in 0..MaxCalls, NEW stop \in {"done", "cut", "error", "aborted"},
         NEW blank \in BOOLEAN, Answer(calls, stop, blank)
  PROVE  Pairs'
<1> DEFINE m == Answered(spent.requests, calls, stop, blank)
<1>1. /\ Logs(<<m>>) /\ UNCHANGED <<mem, store, queue>> /\ run.phase = "waiting"
      /\ run'.phase = "answered" /\ run'.out = <<Len(log) + 1>>
      /\ run'.cancelled = run.cancelled /\ run'.late = run.late
      /\ (blank => calls = 0) /\ (run.late => blank) /\ (run.cancelled => stop = "aborted")
  BY RunIs DEF Answer, Ready
<1>2. spent'.queued = spent.queued /\ spent'.cancels = spent.cancels
  BY Facts DEF Answer, Budgets
<1>3. /\ m \in Message /\ m.kind = "assistant" /\ m.turn = spent.requests /\ m.calls = calls
      /\ m.stop = stop /\ m.blank = blank
  BY Facts DEF Answered, Message, Answers
<1>4. calls = 0 => Range(CallsOf(m)) = {}
  <2>1. CallsOf(m) = [k \in 1..calls |-> <<m.turn, k>>]
    BY <1>3 DEF CallsOf
  <2>2. calls = 0 => DOMAIN CallsOf(m) = {}
    BY <2>1
  <2> QED
    BY <2>2 DEF Range
<1> HIDE DEF m
<1>5. Grows(<<m>>)
  BY <1>1, <1>3, OneMore
<1>6. run.late \/ (Open = {} /\ spent.requests \notin Taken)
  BY <1>1 DEF Pairs, Phased
<1>7. run.late => Silent(m) /\ calls = 0
  <2>1. run.late => run.cancelled
    BY DEF Pairs, Steered
  <2> QED
    BY <1>1, <1>3, <2>1 DEF Silent, Failed
<1>8. Suits(<<m>>)
  <2>1. DOMAIN <<m>> = {1} /\ <<m>>[1] = m /\ Len(<<m>>) = 1
    OBVIOUS
  <2>2. Silent(m) \/ Open = {}
    BY <1>6, <1>7
  <2>3. Range(CallsOf(m)) # {} => m.turn \notin Taken
    BY <1>3, <1>4, <1>6, <1>7
  <2> QED
    BY <1>1, <1>3, <2>1, <2>2, <2>3 DEF Suits
<1>9. run'.out = Ids(Len(log), <<m>>)
  BY <1>1 DEF Ids
<1>10. Fitting'
  BY <1>1, <1>5, <1>8, <1>9, NewComes
<1>11. InOrder'
  BY <1>1, <1>5, KeptStays DEF Pairs
<1>12. Phased'
  BY <1>1 DEF Phased
<1>13. Steered'
  BY <1>1, <1>2 DEF Pairs, Steered
<1> QED
  BY <1>10, <1>11, <1>12, <1>13 DEF Pairs

LEMMA AppendAscends ==
  ASSUME NEW D \in SUBSET Nat, NEW s \in Seq(D), NEW e \in D, Ascending(s),
         \A m \in Range(s) : m < e
  PROVE  Ascending(Append(s, e))
<1> DEFINE t == Append(s, e)
<1>1. /\ Len(s) \in Nat /\ DOMAIN s = 1..Len(s) /\ DOMAIN t = 1..(Len(s) + 1)
      /\ (\A i \in 1..Len(s) : t[i] = s[i]) /\ t[Len(s) + 1] = e
  BY AppendProperties
<1>2. \A i \in 1..Len(s) : s[i] \in Range(s)
  BY <1>1 DEF Range
<1> HIDE DEF t
<1>3. ASSUME NEW i \in DOMAIN t, NEW j \in DOMAIN t, i < j
      PROVE  t[i] < t[j]
  <2>1. i \in 1..Len(s)
    BY <1>1, <1>3
  <2>2. CASE j = Len(s) + 1
    BY <1>1, <1>2, <2>1, <2>2
  <2>3. CASE j # Len(s) + 1
    <3>1. j \in 1..Len(s)
      BY <1>1, <2>3
    <3> QED
      BY <1>1, <1>3, <2>1, <3>1 DEF Ascending
  <2> QED
    BY <2>2, <2>3
<1> QED
  BY <1>3 DEF Ascending, t

\* The history with a message that is published.
Received(n, ms) == /\ run.out # <<>> /\ n = Head(run.out)
                   /\ ms = IF n \in Range(mem) THEN mem ELSE Append(mem, n)
Heard(ms) == {x \in Range(ms) : ~Silent(log[x])}

LEMMA ReceivedIs ==
  ASSUME IInv, Numbered, Pairs, NEW n, NEW ms, Received(n, ms)
  PROVE  /\ ms \in Seq(DOMAIN log) /\ Ascending(ms) /\ Range(ms) = Range(mem) \cup {n}
         /\ n \in DOMAIN log /\ Laid(log, Heard(ms))
         /\ Heard(ms) = IF Silent(log[n]) THEN Kept ELSE Kept \cup {n}
         /\ n \in Range(mem) \/ Silent(log[n]) => Opens(log, Heard(ms)) = Open
         /\ n \notin Range(mem) /\ ~Silent(log[n]) /\ IsResult(log, n) =>
              log[n].of \in Open /\ Opens(log, Heard(ms)) = Open \ {log[n].of}
         /\ n \notin Range(mem) /\ ~Silent(log[n]) /\ ~IsResult(log, n) =>
              Open = {} /\ Opens(log, Heard(ms)) = Made(log, n)
<1>1. /\ run.out \in Seq(DOMAIN log) /\ mem \in Seq(DOMAIN log) /\ run.out # <<>>
      /\ DOMAIN log = 1..Len(log) /\ Len(log) \in Nat
  BY Facts DEF Received
<1>2. n \in DOMAIN log /\ run.out[1] = n /\ 1 \in DOMAIN run.out /\ n \in Range(run.out)
  <2>1. run.out[1] = n /\ 1 \in DOMAIN run.out /\ n \in DOMAIN log
    BY <1>1 DEF Received
  <2> QED
    BY <2>1 DEF Range
<1>3. Range(ms) = Range(mem) \cup {n} /\ ms \in Seq(DOMAIN log)
  <2>1. Range(Append(mem, n)) = Range(mem) \cup {n} /\ Append(mem, n) \in Seq(DOMAIN log)
    BY <1>1, <1>2, AppendRange, AppendProperties
  <2> QED
    BY <1>1, <2>1 DEF Received
<1>4. Ascending(ms)
  <2>1. Ascending(mem)
    BY DEF Pairs, InOrder, Ascending
  <2>2. CASE n \in Range(mem)
    BY <2>1, <2>2 DEF Received
  <2>3. CASE n \notin Range(mem)
    <3>1. \A m \in Range(mem) : m < n
      BY <1>2, <2>3 DEF Pairs, Fitting
    <3>2. DOMAIN log \in SUBSET Nat
      BY <1>1
    <3>3. Ascending(Append(mem, n))
      BY <1>1, <1>2, <2>1, <3>1, <3>2, AppendAscends
    <3> QED
      BY <2>3, <3>3 DEF Received
  <2> QED
    BY <2>2, <2>3
<1>5. Heard(ms) = IF Silent(log[n]) THEN Kept ELSE Kept \cup {n}
  BY <1>3 DEF Heard, Kept
<1>6. Laid(log, Kept)
  BY DEF Pairs, InOrder
<1>7. History(log, Kept) /\ Kept \subseteq Range(mem) /\ History(log, Kept \cup {n})
  <2>1. History(log, Kept) /\ Kept \subseteq Range(mem) /\ log[n] \in Message /\ n \in Nat
    BY <1>1, <1>2, KeptFacts
  <2> QED
    BY <2>1 DEF History
<1>8. CASE n \in Range(mem) \/ Silent(log[n])
  <2>1. Heard(ms) = Kept
    BY <1>5, <1>8 DEF Kept
  <2> QED
    BY <1>2, <1>3, <1>4, <1>5, <1>6, <1>8, <2>1 DEF Open
<1>9. CASE n \notin Range(mem) /\ ~Silent(log[n])
  <2>1. n \in Coming /\ Fits(n) /\ Heard(ms) = Kept \cup {n}
    BY <1>2, <1>5, <1>9 DEF Coming, Pairs, Fitting
  <2>2. \A x \in Kept : x < n
    BY <1>2, <1>7, <1>9 DEF Pairs, Fitting
  <2>3. CASE IsResult(log, n)
    <3>1. log[n].of \in Opens(log, Kept)
      BY <1>9, <2>1, <2>3 DEF Fits, Open
    <3>2. OneResult(log, {n})
      BY DEF OneResult
    <3>3. Laid(log, Kept \cup {n}) /\ Opens(log, Kept \cup {n}) = Opens(log, Kept) \ Given(log, {n})
      <4>1. \A x \in Kept, r \in {n} : x < r
        BY <2>2
      <4>2. \A r \in {n} : IsResult(log, r) /\ log[r].of \in Opens(log, Kept)
        BY <2>3, <3>1
      <4> QED
        BY <1>6, <1>7, <3>2, <4>1, <4>2, AddResults
    <3>4. Given(log, {n}) = {log[n].of}
      BY <2>3 DEF Given
    <3> QED
      BY <1>2, <1>3, <1>4, <1>5, <1>9, <2>1, <2>3, <3>1, <3>3, <3>4 DEF Open
  <2>4. CASE ~IsResult(log, n)
    <3>1. Open = {}
      BY <1>9, <2>1, <2>4 DEF Fits
    <3>2. Made(log, n) # {} => \A a \in Kept : Made(log, a) # {} => log[a].turn # log[n].turn
      BY <2>1 DEF Fits, Taken
    <3>3. Laid(log, Kept \cup {n}) /\ Opens(log, Kept \cup {n}) = Made(log, n)
      BY <1>6, <1>7, <2>2, <2>4, <3>1, <3>2, AddOther DEF Open, Laid
    <3> QED
      BY <1>2, <1>3, <1>4, <1>5, <1>9, <2>1, <2>4, <3>1, <3>3
  <2> QED
    BY <2>3, <2>4
<1> QED
  BY <1>8, <1>9

\* What is still to come when one message has been published.
LEMMA RestComes ==
  ASSUME IInv, Numbered, Remembers, Pairs, NEW n, NEW ms, Received(n, ms), mem' = ms,
         UNCHANGED log, run'.out = Tail(run.out), run'.phase = run.phase
  PROVE  /\ Fitting' /\ InOrder' /\ Kept' = Heard(ms) /\ Open' = Opens(log, Heard(ms))
         /\ Made(log, n) = {} \/ n \in Range(mem) => Due' = Due /\ (Open = {} => Open' = {})
         /\ Made(log, n) # {} /\ n \notin Range(mem) => run.phase = "answered"
<1> DEFINE out == run.out
           rest == Tail(run.out)
<1>1. /\ out \in Seq(DOMAIN log) /\ out # <<>> /\ n = Head(out)
  BY Facts DEF Received
<1>2. /\ rest \in Seq(DOMAIN log) /\ Range(out) = {n} \cup Range(rest)
      /\ n \notin Range(rest) /\ out[1] = n
      /\ \A i \in DOMAIN rest : i \in Nat /\ i + 1 \in DOMAIN out /\ rest[i] = out[i + 1] /\ i >= 1
  <2>1. IsInjective(out)
    BY OutIsInjective
  <2>2. rest \in Seq(DOMAIN log) /\ Range(out) = {n} \cup Range(rest) /\ n \notin Range(rest)
    BY <1>1, <2>1, TailIs
  <2>3. /\ out[1] = n
        /\ \A i \in DOMAIN rest :
             i \in Nat /\ i + 1 \in DOMAIN out /\ rest[i] = out[i + 1] /\ i >= 1
    BY <1>1
  <2> QED
    BY <2>2, <2>3
<1>3. DOMAIN out = 1..Len(out) /\ Len(out) \in Nat
  BY <1>1
<1>4. /\ ms \in Seq(DOMAIN log) /\ Ascending(ms) /\ Range(ms) = Range(mem) \cup {n}
      /\ n \in DOMAIN log /\ Laid(log, Heard(ms))
      /\ Heard(ms) = IF Silent(log[n]) THEN Kept ELSE Kept \cup {n}
  BY ReceivedIs
<1>5. /\ n \in Range(mem) \/ Silent(log[n]) => Opens(log, Heard(ms)) = Open
      /\ n \notin Range(mem) /\ ~Silent(log[n]) /\ IsResult(log, n) =>
           log[n].of \in Open /\ Opens(log, Heard(ms)) = Open \ {log[n].of}
      /\ n \notin Range(mem) /\ ~Silent(log[n]) /\ ~IsResult(log, n) =>
           Open = {} /\ Opens(log, Heard(ms)) = Made(log, n)
  BY ReceivedIs
<1>6. Kept' = Heard(ms) /\ Open' = Opens(log, Heard(ms))
  <2>1. Kept' = Heard(ms)
    BY DEF Kept, Heard
  <2> QED
    BY <2>1 DEF Open
<1>7. InOrder'
  <2>1. (\A i, j \in DOMAIN ms : i < j => ms[i] < ms[j]) /\ Laid(log, Heard(ms))
    BY <1>4 DEF Ascending
  <2> QED
    BY <1>6, <2>1 DEF InOrder
<1> HIDE DEF out, rest
<1>8. Coming' = Range(rest) \ (Range(mem) \cup {n})
  BY <1>4 DEF Coming, rest
<1>9. Coming' \subseteq Coming /\ (\A x \in Coming : x \in Coming' \/ x = n) /\ n \notin Coming'
  BY <1>2, <1>8 DEF Coming, out
<1>10. \A x \in Coming : Fits(x)
  BY DEF Pairs, Fitting
<1>11. n \notin Range(mem) => n \in Coming
  BY <1>2 DEF Coming, out
<1>12. OneResult(log, Coming)
  BY DEF Pairs, Fitting
<1>13. \A x \in Coming' : ~(Made(log, x) # {}) /\ (n \notin Range(mem) => Made(log, n) = {})
  <2> TAKE x \in Coming'
  <2>1. x \in Coming /\ x \in Range(rest) /\ x # n
    BY <1>8, <1>9
  <2>2. ~(out = <<x>>) /\ ~(out = <<n>>)
    <3>1. Range(<<x>>) = {x} /\ Range(<<n>>) = {n}
      BY DEF Range
    <3> QED
      BY <1>2, <2>1, <3>1
  <2> QED
    BY <1>10, <1>11, <2>1, <2>2 DEF Fits, out
<1>14. ASSUME NEW x \in Coming'
       PROVE  Fits(x)'
  <2>1. x \in Coming /\ Fits(x) /\ x # n /\ Made(log, x) = {}
    BY <1>9, <1>10, <1>13, <1>14
  <2>2. \/ Silent(log[x])
        \/ IsResult(log, x) /\ log[x].of \in Open'
        \/ ~IsResult(log, x) /\ Open' = {}
    <3>1. CASE n \in Range(mem) \/ Silent(log[n])
      BY <1>5, <1>6, <2>1, <3>1 DEF Fits
    <3>2. CASE n \notin Range(mem) /\ ~Silent(log[n]) /\ IsResult(log, n)
      <4>1. IsResult(log, x) => log[x].of # log[n].of
        BY <1>11, <1>12, <2>1, <3>2 DEF OneResult
      <4> QED
        BY <1>5, <1>6, <2>1, <3>2, <4>1 DEF Fits
    <3>3. CASE n \notin Range(mem) /\ ~Silent(log[n]) /\ ~IsResult(log, n)
      BY <1>5, <1>6, <1>13, <2>1, <3>3 DEF Fits
    <3> QED
      BY <3>1, <3>2, <3>3
  <2>3. Made(log', x) = {}
    BY <2>1
  <2> QED
    BY <2>2, <2>3 DEF Fits
<1>15. \A i \in DOMAIN rest : rest[i] \notin Range(ms) =>
         /\ \A m \in Range(ms) : m < rest[i]
         /\ \A j \in 1..(i - 1) : rest[j] < rest[i]
  <2> TAKE i \in DOMAIN rest
  <2> HAVE rest[i] \notin Range(ms)
  <2>1. /\ i \in Nat /\ i + 1 \in DOMAIN out /\ out[i + 1] = rest[i] /\ out[i + 1] \notin Range(mem)
        /\ i >= 1
    BY <1>2, <1>4
  <2>2. /\ \A m \in Range(mem) : m < out[i + 1]
        /\ \A j \in 1..((i + 1) - 1) : out[j] < out[i + 1]
    BY <2>1 DEF Pairs, Fitting, out
  <2>3. n < rest[i]
    <3>1. 1 \in 1..((i + 1) - 1)
      BY <2>1
    <3> QED
      BY <1>2, <2>1, <2>2, <3>1
  <2>4. \A j \in 1..(i - 1) : rest[j] < rest[i]
    <3> TAKE j \in 1..(i - 1)
    <3>1. j + 1 \in 1..((i + 1) - 1) /\ j \in 1..i /\ j \in Nat
      BY <2>1
    <3>2. j \in DOMAIN rest
      <4>1. DOMAIN rest = 1..Len(rest) /\ Len(rest) \in Nat
        BY <1>2
      <4> QED
        BY <2>1, <3>1, <4>1
    <3> QED
      BY <1>2, <2>1, <2>2, <3>1, <3>2
  <2> QED
    BY <1>4, <2>1, <2>2, <2>3, <2>4
<1>16. Fitting'
  <2>1. OneResult(log, Coming')
    BY <1>9, <1>12 DEF OneResult
  <2>2. \A i \in DOMAIN run'.out : run'.out[i] \notin Range(mem') =>
          /\ \A m \in Range(mem') : m < run'.out[i]
          /\ \A j \in 1..(i - 1) : run'.out[j] < run'.out[i]
    BY <1>15 DEF rest
  <2>3. OneResult(log', Coming')
    BY <2>1
  <2> QED
    BY <1>14, <2>2, <2>3 DEF Fitting
<1>17. Made(log, n) = {} \/ n \in Range(mem) => Due' = Due /\ (Open = {} => Open' = {})
  <2>1. SUFFICES ASSUME Made(log, n) = {} \/ n \in Range(mem)
                 PROVE  Due' = Due /\ (Open = {} => Open' = {})
    OBVIOUS
  <2>2. Open = {} => Open' = {}
    BY <1>5, <1>6, <2>1
  <2>3. Due' = Open' \ Given(log, Coming')
    BY DEF Due
  <2>4. ASSUME NEW c
        PROVE  c \in Due' <=> c \in Due
    <3>1. c \in Given(log, Coming') <=> \E x \in Coming' : IsResult(log, x) /\ log[x].of = c
      BY GivenIs
    <3>2. c \in Given(log, Coming) <=> \E x \in Coming : IsResult(log, x) /\ log[x].of = c
      BY GivenIs
    <3>3. c \in Due' <=> c \in Open' /\ c \notin Given(log, Coming')
      BY <2>3
    <3>4. c \in Due <=> c \in Open /\ c \notin Given(log, Coming)
      BY DEF Due
    <3>5. CASE n \in Range(mem)
      <4>1. Coming' = Coming
        BY <1>9, <3>5 DEF Coming
      <4> QED
        BY <1>5, <1>6, <3>3, <3>4, <3>5, <4>1
    <3>6. CASE n \notin Range(mem) /\ Silent(log[n])
      <4>1. ~IsResult(log, n)
        BY <3>6 DEF Silent, Failed, IsResult
      <4> QED
        BY <1>5, <1>6, <1>9, <3>1, <3>2, <3>3, <3>4, <3>6, <4>1
    <3>7. CASE n \notin Range(mem) /\ ~Silent(log[n]) /\ IsResult(log, n)
      BY <1>5, <1>6, <1>9, <1>11, <3>1, <3>2, <3>3, <3>4, <3>7
    <3>8. CASE n \notin Range(mem) /\ ~Silent(log[n]) /\ ~IsResult(log, n)
      BY <1>5, <1>6, <2>1, <3>3, <3>4, <3>8
    <3> QED
      BY <3>5, <3>6, <3>7, <3>8
  <2>5. Due' \subseteq Due /\ Due \subseteq Due'
    BY <2>4
  <2> QED
    BY <2>2, <2>5
<1>18. Made(log, n) # {} /\ n \notin Range(mem) => run.phase = "answered"
  BY <1>10, <1>11 DEF Fits
<1> QED
  BY <1>6, <1>7, <1>16, <1>17, <1>18

LEMMA SavesWrites ==
  ASSUME IInv, Pairs, NEW n, NEW fault, store' = Saved(store, n, fault), n \in Range(mem'),
         Range(mem) \subseteq Range(mem')
  PROVE  Range(store'.writes) \subseteq Range(mem')
<1>1. Changes(store, n, fault, store')
  BY SavedIs DEF IInv, Filed
<1>2. Range(store'.writes) \subseteq Range(store.writes) \cup {n}
  BY <1>1 DEF Changes
<1> QED
  BY <1>2 DEF Pairs, Steered

LEMMA PublishPairs ==
  ASSUME IInv, Fails, Remembers, Numbered, Pairs, Publish
  PROVE  Pairs'
<1> DEFINE n == Head(run.out)
           ms == IF n \in Range(mem) THEN mem ELSE Append(mem, n)
           rest == Tail(run.out)
           failure == Len(log) + 1
           m == Answered(0, 0, IF run.cancelled THEN "aborted" ELSE "error", TRUE)
<1>1. Received(n, ms)
  BY DEF Publish, Received
<1>2. PICK fault \in {"none", "before", "after"} :
        /\ store' = Saved(store, n, fault)
        /\ \/ /\ fault = "none" \/ run.phase \in {"closing", "settle"}
              /\ mem' = ms /\ run' = [run EXCEPT !.out = rest] /\ UNCHANGED log
           \/ /\ ~(fault = "none" \/ run.phase \in {"closing", "settle"})
              /\ run.phase = "flush" \/ run.failing
              /\ mem' = ms
              /\ run' = IF run.failing THEN [run EXCEPT !.out = <<>>] ELSE Idle
              /\ UNCHANGED log
           \/ /\ ~(fault = "none" \/ run.phase \in {"closing", "settle"})
              /\ ~(run.phase = "flush" \/ run.failing)
              /\ Logs(<<m>>) /\ mem' = Append(ms, failure)
              /\ run' = [run EXCEPT !.phase = "ended", !.out = <<failure>>, !.error = FALSE,
                                    !.failing = TRUE]
  BY DEF Publish
<1>3. /\ spent'.cancels = spent.cancels /\ spent'.queued = spent.queued
      /\ UNCHANGED <<tools, queue>> /\ spent'.requests = spent.requests
  BY Facts DEF Publish, Budgets
<1>4. run.out # <<>>
  BY <1>1 DEF Received
<1> HIDE DEF ms
<1>5. /\ ms \in Seq(DOMAIN log) /\ Ascending(ms) /\ Range(ms) = Range(mem) \cup {n}
      /\ n \in DOMAIN log /\ Laid(log, Heard(ms))
      /\ Heard(ms) = IF Silent(log[n]) THEN Kept ELSE Kept \cup {n}
  BY <1>1, ReceivedIs
<1>6. CASE /\ mem' = ms /\ run' = [run EXCEPT !.out = rest] /\ UNCHANGED log
  <2>1. /\ run'.phase = run.phase /\ run'.out = Tail(run.out) /\ run'.cancelled = run.cancelled
        /\ run'.late = run.late /\ run'.answer = run.answer /\ run'.next = run.next
        /\ run'.blank = run.blank
    BY <1>6, RunIs
  <2>2. /\ Fitting' /\ InOrder' /\ Kept' = Heard(ms) /\ Open' = Opens(log, Heard(ms))
        /\ Made(log, n) = {} \/ n \in Range(mem) => Due' = Due /\ (Open = {} => Open' = {})
        /\ Made(log, n) # {} /\ n \notin Range(mem) => run.phase = "answered"
    BY <1>1, <1>6, <2>1, RestComes
  <2>3. run.phase # "answered" => Due' = Due /\ (Open = {} => Open' = {})
    BY <2>2
  <2>4. Kept \subseteq Kept'
    BY <1>5, <2>2
  <2>5. Calls' = Calls /\ Left' = Left
    BY <1>6, <2>1 DEF Calls, Left
  <2>6. ASSUME run.phase = "answered", ~Failed(log[run.answer])
        PROVE  run.answer \in Kept' /\ Open' = Range(Calls)
    <3>1. run.out = <<run.answer>> /\ run.answer \in DOMAIN log
          /\ log[run.answer].kind = "assistant" /\ run.answer \notin Range(mem)
      BY <1>4, <2>6 DEF IInv, Turns, Remembers, LastIs
    <3>2. n = run.answer
      BY <3>1
    <3>3. ~Silent(log[n]) /\ ~IsResult(log, n)
      BY <2>6, <3>1, <3>2 DEF Silent, IsResult
    <3>4. Opens(log, Heard(ms)) = Made(log, n)
      BY <1>1, <3>1, <3>2, <3>3, ReceivedIs
    <3> QED
      BY <1>5, <2>2, <3>2, <3>3, <3>4 DEF Made, Calls
  <2>7. Phased'
    <3>1. /\ run.phase = "start" => Open' = {}
          /\ run.phase = "turn" => Open' = {}
          /\ run.phase # "waiting" /\ run.phase # "par"
          /\ run.phase \in {"seq", "par"} => run.answer \in Kept' /\ ~run.blank
          /\ run.phase = "seq" => Due' = Left
          /\ run.phase = "turnEnd" => Due' = {} \/ (run.cancelled /\ ~run.blank)
      BY <1>4, <2>3, <2>4 DEF Pairs, Phased
    <3>2. run.phase = "answered" /\ ~Failed(log[run.answer]) =>
            run.answer \in Kept' /\ Open' = Range(Calls)
      BY <2>6
    <3> QED
      BY <1>6, <2>1, <2>5, <3>1, <3>2 DEF Phased
  <2>8. Range(store'.writes) \subseteq Range(mem')
    <3>1. n \in Range(mem') /\ Range(mem) \subseteq Range(mem')
      BY <1>5, <1>6
    <3> QED
      BY <1>2, <3>1, SavesWrites
  <2>9. Steered'
    BY <1>3, <2>1, <2>8 DEF Pairs, Steered
  <2> QED
    BY <2>2, <2>7, <2>9 DEF Pairs
<1>7. CASE /\ mem' = ms /\ UNCHANGED log
           /\ run.phase = "flush" \/ run.failing
           /\ ~(fault = "none" \/ run.phase \in {"closing", "settle"})
           /\ run' = IF run.failing THEN [run EXCEPT !.out = <<>>] ELSE Idle
  <2>1. /\ run'.out = <<>> /\ run'.phase \in {"idle", "ended"}
        /\ run'.late => run.late /\ run'.cancelled = run.cancelled
        /\ run'.cancelled => run.cancelled
    <3>1. CASE run.failing
      <4>1. run.phase = "ended"
        BY <1>7, <3>1 DEF Fails
      <4>2. run' = [run EXCEPT !.out = <<>>]
        BY <1>7, <3>1
      <4> QED
        BY <4>1, <4>2, RunIs
    <3>2. CASE ~run.failing
      <4>1. run' = Idle
        BY <1>7, <3>2
      <4> QED
        BY <4>1 DEF Idle
    <3> QED
      BY <3>1, <3>2
  <2>2. Fitting'
    BY <2>1, NothingComes
  <2>3. InOrder'
    <3>1. Kept' = Heard(ms)
      BY <1>7 DEF Kept, Heard
    <3> QED
      BY <1>5, <1>7, <3>1 DEF InOrder, Ascending
  <2>4. Phased'
    BY <2>1 DEF Phased
  <2>5. Range(store'.writes) \subseteq Range(mem')
    <3>1. n \in Range(mem') /\ Range(mem) \subseteq Range(mem')
      BY <1>5, <1>7
    <3> QED
      BY <1>2, <3>1, SavesWrites
  <2>6. Steered'
    BY <1>3, <2>1, <2>5 DEF Pairs, Steered
  <2> QED
    BY <2>2, <2>3, <2>4, <2>6 DEF Pairs
<1>8. CASE /\ Logs(<<m>>) /\ mem' = Append(ms, failure)
           /\ run' = [run EXCEPT !.phase = "ended", !.out = <<failure>>, !.error = FALSE,
                                 !.failing = TRUE]
  <2>1. m \in Message /\ Silent(m)
    BY Facts DEF Answered, Message, Answers, Failed, Silent
  <2> HIDE DEF m
  <2>2. Grows(<<m>>) /\ failure \in DOMAIN log' /\ log'[failure] = m
    BY <1>8, <2>1, OneMore
  <2>3. DOMAIN log = 1..Len(log) /\ Len(log) \in Nat /\ DOMAIN log \subseteq DOMAIN log'
        /\ DOMAIN log' \subseteq Nat /\ ms \in Seq(DOMAIN log')
    <3>1. DOMAIN log' = 1..(Len(log) + Len(<<m>>))
          /\ \A ids \in Seq(DOMAIN log) : ids \in Seq(DOMAIN log')
      BY <2>2, Facts, IdsStay
    <3> QED
      BY <1>5, <2>2, <3>1, Facts DEF Grows
  <2>4. \A x \in Range(ms) : x \in DOMAIN log /\ x < failure
    <3>1. Range(ms) \subseteq DOMAIN log
      BY <1>5, RangeOfSeq
    <3> QED
      BY <2>3, <3>1
  <2> HIDE DEF failure
  <2>5. run'.phase = "ended" /\ run'.out = <<failure>> /\ run'.cancelled = run.cancelled
        /\ run'.late = run.late
    BY <1>8, RunIs
  <2>6. Ascending(mem') /\ Range(mem') = Range(ms) \cup {failure}
    <3>1. Ascending(Append(ms, failure))
      <4>1. DOMAIN log' \in SUBSET Nat /\ \A x \in Range(ms) : x < failure
        BY <2>3, <2>4
      <4> QED
        BY <1>5, <2>2, <2>3, <4>1, AppendAscends
    <3> QED
      BY <1>8, <2>2, <2>3, <3>1, AppendRange
  <2>7. Kept' = Heard(ms)
    <3>1. \A x \in Range(ms) : log'[x] = log[x]
      BY <2>2, <2>4 DEF Grows
    <3>2. Silent(log'[failure])
      BY <2>1, <2>2
    <3> QED
      BY <2>6, <3>1, <3>2 DEF Kept, Heard
  <2>8. Laid(log', Heard(ms))
    <3>1. \A x \in Heard(ms) : log'[x] = log[x]
      BY <2>2, <2>4 DEF Grows, Heard
    <3> QED
      BY <1>5, <3>1, SameHistory
  <2>9. InOrder'
    BY <2>6, <2>7, <2>8 DEF InOrder, Ascending
  <2>10. Fitting'
    <3>1. Range(run'.out) \subseteq Range(mem')
      BY <2>5, <2>6 DEF Range
    <3> QED
      BY <3>1, OldComes
  <2>11. Phased'
    BY <2>5 DEF Phased
  <2>12. Range(store'.writes) \subseteq Range(mem')
    <3>1. n \in Range(mem') /\ Range(mem) \subseteq Range(mem')
      BY <1>5, <2>6
    <3> QED
      BY <1>2, <3>1, SavesWrites
  <2>13. Steered'
    BY <1>3, <2>5, <2>12 DEF Pairs, Steered
  <2> QED
    BY <2>9, <2>10, <2>11, <2>13 DEF Pairs
<1> QED
  BY <1>2, <1>6, <1>7, <1>8

-----------------------------------------------------------------------------
(* The pairing in the file.                                                *)

\* The entries on the way to an entry, when what is unfinished is written.
Route(s, n) == Range(Path(Live(s), n))

\* What is on the way and did not fail is in the history M, and no failed answer is
\* between a result and the answer whose call it is of.
Sound(g, M, R) ==
  /\ \A x \in R : ~Failed(g[x]) => x \in M
  /\ \A r \in R : IsResult(g, r) =>
       \E a \in R : /\ a < r /\ g[r].of \in Made(g, a)
                    /\ \A x \in R : a < x /\ x < r => ~Failed(g[x])
Clear(g, R, a) == a \in R /\ \A x \in R : a < x => ~Failed(g[x])

\* What the next entries will stand under, and the calls that results can still come of.
Bases == IF store.writes = <<>> THEN {store.last} ELSE Range(store.writes)
Claimed == Open \cup Given(log, Range(run.out) \ DOMAIN store.up)

Routed ==
  /\ \A n \in {store.tip, store.last} \cup Range(store.writes) :
       Sound(log, Range(mem), Route(store, n))
  /\ \A n \in Range(store.writes), x \in store.file : n < x => Failed(log[x])
  /\ \A b \in Bases, a \in Kept : Made(log, a) \cap Claimed # {} => Clear(log, Route(store, b), a)

\* A run that was not cancelled, and at most one append that failed: the message of that
\* one is alone unfinished until the end of the run, where it is saved.
Loadable == spent.cancels = 0 /\ spent.faults <= 1
Saving ==
  /\ store.writes # <<>> => run.failing /\ \A m, n \in Range(store.writes) : m = n
  /\ run.failing => spent.faults > 0
  /\ run.phase = "settle" => Range(store.writes) \subseteq Range(run.out)
  /\ run.phase = "closing" => run.out = <<>>
  /\ \A n \in Range(run.out) : Failed(log[n]) =>
       Range(run.out) = {n} /\ (store.writes = <<>> => Open = {})
  /\ run.failing /\ run.phase = "ended" => \A n \in Range(run.out) : Failed(log[n])

LEMMA SoundStays ==
  ASSUME NEW g, NEW h, NEW M, NEW N, NEW R, Sound(g, M, R), \A x \in R : h[x] = g[x],
         \A x \in R : x \in M /\ ~Failed(g[x]) => x \in N
  PROVE  Sound(h, N, R)
<1>1. \A x \in R : ~Failed(h[x]) => x \in N
  BY DEF Sound
<1>2. \A x \in R : /\ Made(h, x) = Made(g, x) /\ (IsResult(h, x) <=> IsResult(g, x))
                   /\ h[x].of = g[x].of /\ (Failed(h[x]) <=> Failed(g[x]))
  BY DEF Made, IsResult
<1>3. ASSUME NEW r \in R, IsResult(h, r)
      PROVE  \E a \in R : /\ a < r /\ h[r].of \in Made(h, a)
                          /\ \A x \in R : a < x /\ x < r => ~Failed(h[x])
  <2>1. PICK a \in R : /\ a < r /\ g[r].of \in Made(g, a)
                       /\ \A x \in R : a < x /\ x < r => ~Failed(g[x])
    BY <1>2, <1>3 DEF Sound
  <2> QED
    BY <1>2, <2>1
<1> QED
  BY <1>1, <1>3 DEF Sound

LEMMA SoundAdds ==
  ASSUME NEW g, NEW M, NEW N, NEW R, Sound(g, M, R), R \subseteq Nat, NEW n \in Nat,
         \A x \in R : x < n, M \subseteq N, ~Failed(g[n]) => n \in N,
         IsResult(g, n) => \E a \in R : g[n].of \in Made(g, a) /\ Clear(g, R, a)
  PROVE  Sound(g, N, R \cup {n})
<1>1. \A x \in R \cup {n} : ~Failed(g[x]) => x \in N
  BY DEF Sound
<1>2. ASSUME NEW r \in R, IsResult(g, r)
      PROVE  \E a \in R \cup {n} : /\ a < r /\ g[r].of \in Made(g, a)
                          /\ \A x \in R \cup {n} : a < x /\ x < r => ~Failed(g[x])
  <2>1. PICK a \in R : /\ a < r /\ g[r].of \in Made(g, a)
                       /\ \A x \in R : a < x /\ x < r => ~Failed(g[x])
    BY <1>2 DEF Sound
  <2>2. ~(n < r)
    <3>1. r < n /\ r \in Nat
      OBVIOUS
    <3> QED
      BY <3>1
  <2> QED
    BY <2>1, <2>2
<1>3. ASSUME IsResult(g, n)
      PROVE  \E a \in R \cup {n} : /\ a < n /\ g[n].of \in Made(g, a)
                          /\ \A x \in R \cup {n} : a < x /\ x < n => ~Failed(g[x])
  <2>1. PICK a \in R : g[n].of \in Made(g, a) /\ Clear(g, R, a)
    BY <1>3
  <2>2. ~(n < n)
    OBVIOUS
  <2> QED
    BY <2>1, <2>2 DEF Clear
<1> QED
  BY <1>1, <1>2, <1>3 DEF Sound

\* A history on whose way the calls were answered in order.
LEMMA RouteIsOrderly ==
  ASSUME NEW g, NEW M, NEW R, R \subseteq Nat, Sound(g, M, R),
         \A x \in R : g[x] \in Message /\ (Failed(g[x]) => Made(g, x) = {}),
         NEW K, K = {n \in M : ~Silent(g[n])}, Orderly(g, K), K \subseteq Nat,
         \A x \in K : g[x] \in Message
  PROVE  Orderly(g, R)
<1>1. \A x \in R : ~Failed(g[x]) => x \in K
  BY DEF Sound, Silent
<1>2. \A x \in R : IsResult(g, x) \/ Made(g, x) # {} => x \in K
  BY <1>1 DEF IsResult, Failed
<1>3. OneTurn(g, R)
  BY <1>2 DEF Orderly, OneTurn
<1>4. OneResult(g, R)
  BY <1>2 DEF Orderly, OneResult
<1>5. ASSUME NEW r \in R, IsResult(g, r)
      PROVE  \E a \in R : a < r /\ g[r].of \in Made(g, a) /\ Near(g, R, a, r)
  <2>1. PICK a \in R : /\ a < r /\ g[r].of \in Made(g, a)
                       /\ \A x \in R : a < x /\ x < r => ~Failed(g[x])
    BY <1>5 DEF Sound
  <2>2. PICK b \in K : b < r /\ g[r].of \in Made(g, b) /\ Near(g, K, b, r)
    BY <1>2, <1>5 DEF Orderly, Answering
  <2>3. a \in K
    BY <1>2, <2>1
  <2>4. a = b
    <3>1. g[a] \in Message /\ Made(g, a) # {} /\ Made(g, b) # {}
      BY <2>1, <2>2
    <3>2. g[a].turn = g[r].of[1]
      BY <2>1, <3>1, MadeIs
    <3>3. g[b].turn = g[r].of[1]
      <4>1. g[b] \in Message
        OBVIOUS
      <4> QED
        BY <2>2, <3>1, <4>1, MadeIs
    <3> QED
      BY <2>3, <3>1, <3>2, <3>3 DEF Orderly, OneTurn
  <2>5. Near(g, R, a, r)
    BY <1>1, <2>1, <2>2, <2>4 DEF Near
  <2> QED
    BY <2>1, <2>5
<1> QED
  BY <1>3, <1>4, <1>5 DEF Orderly, Answering

\* A history by its numbers, and as a sequence.
LEMMA OrderlyRecords ==
  ASSUME log \in Seq(Message), NEW ids \in Seq(DOMAIN log), Ascending(ids),
         Orderly(log, Range(ids))
  PROVE  Orderly(Records(ids), DOMAIN Records(ids))
<1> DEFINE g == Records(ids)
<1>1. DOMAIN g = DOMAIN ids /\ \A i \in DOMAIN g : g[i] = log[ids[i]]
  BY DEF Records
<1>2. DOMAIN ids = 1..Len(ids) /\ Len(ids) \in Nat /\ DOMAIN log \subseteq Nat
      /\ \A i \in DOMAIN ids : ids[i] \in DOMAIN log
  BY DEF Ascending
<1>3. \A i \in DOMAIN ids : ids[i] \in Range(ids)
  BY DEF Range
<1>4. \A n \in Range(ids) : \E i \in DOMAIN ids : n = ids[i]
  BY DEF Range
<1> HIDE DEF g
<1>5. \A i \in DOMAIN g : Made(g, i) = Made(log, ids[i])
           /\ (IsResult(g, i) <=> IsResult(log, ids[i]))
  BY <1>1 DEF Made, IsResult
<1>6. \A i, j \in DOMAIN ids : (ids[i] < ids[j] <=> i < j) /\ (ids[i] = ids[j] => i = j)
  <2> TAKE i, j \in DOMAIN ids
  <2>1. i \in Nat /\ j \in Nat /\ ids[i] \in Nat /\ ids[j] \in Nat
    BY <1>2
  <2>2. i < j \/ j < i \/ i = j
    BY <2>1
  <2>3. (i < j => ids[i] < ids[j]) /\ (j < i => ids[j] < ids[i])
    BY DEF Ascending
  <2> QED
    BY <2>1, <2>2, <2>3
<1>7. OneTurn(g, DOMAIN g)
  <2>1. SUFFICES ASSUME NEW i \in DOMAIN g, NEW j \in DOMAIN g, Made(g, i) # {}, Made(g, j) # {},
                        g[i].turn = g[j].turn
                 PROVE  i = j
    BY DEF OneTurn
  <2>2. ids[i] = ids[j]
    BY <1>1, <1>3, <1>5, <2>1 DEF Orderly, OneTurn
  <2> QED
    BY <1>1, <1>6, <2>2
<1>8. OneResult(g, DOMAIN g)
  <2>1. SUFFICES ASSUME NEW i \in DOMAIN g, NEW j \in DOMAIN g, IsResult(g, i), IsResult(g, j),
                        g[i].of = g[j].of
                 PROVE  i = j
    BY DEF OneResult
  <2>2. ids[i] = ids[j]
    BY <1>1, <1>3, <1>5, <2>1 DEF Orderly, OneResult
  <2> QED
    BY <1>1, <1>6, <2>2
<1>9. Answering(g, DOMAIN g)
  <2>1. SUFFICES ASSUME NEW r \in DOMAIN g, IsResult(g, r)
                 PROVE  \E a \in DOMAIN g : a < r /\ g[r].of \in Made(g, a)
                             /\ Near(g, DOMAIN g, a, r)
    BY DEF Answering
  <2>2. PICK n \in Range(ids) : n < ids[r] /\ log[ids[r]].of \in Made(log, n)
                                /\ Near(log, Range(ids), n, ids[r])
    BY <1>1, <1>3, <1>5, <2>1 DEF Orderly, Answering
  <2>3. PICK a \in DOMAIN ids : n = ids[a]
    BY <1>4
  <2>4. a < r /\ g[r].of \in Made(g, a)
    BY <1>1, <1>5, <1>6, <2>2, <2>3
  <2>5. Near(g, DOMAIN g, a, r)
    <3>1. SUFFICES ASSUME NEW x \in DOMAIN g, a < x, x < r PROVE Behind(g, a, x)
      BY DEF Near
    <3>2. Behind(log, ids[a], ids[x])
      BY <1>1, <1>3, <1>6, <2>2, <2>3, <3>1 DEF Near
    <3> QED
      BY <1>1, <1>5, <2>3, <3>2 DEF Behind
  <2> QED
    BY <1>1, <2>3, <2>4, <2>5
<1>10. Orderly(g, DOMAIN g)
  BY <1>7, <1>8, <1>9 DEF Orderly
<1> QED
  BY <1>10 DEF g

\* And back.
LEMMA LaidRecords ==
  ASSUME NEW g \in Seq(Message), NEW ids \in Seq(DOMAIN g), Ascending(ids), NEW ms \in Seq(Message),
         DOMAIN ms = DOMAIN ids, \A i \in DOMAIN ids : g[ids[i]] = ms[i], Laid(ms, DOMAIN ms)
  PROVE  Laid(g, Range(ids)) /\ Opens(g, Range(ids)) = Opens(ms, DOMAIN ms)
<1>1. DOMAIN ids = 1..Len(ids) /\ Len(ids) \in Nat /\ DOMAIN g \subseteq Nat
      /\ \A i \in DOMAIN ids : ids[i] \in DOMAIN g
  BY DEF Ascending
<1>2. \A i \in DOMAIN ids : ids[i] \in Range(ids)
  BY DEF Range
<1>3. \A n \in Range(ids) : \E i \in DOMAIN ids : n = ids[i]
  BY DEF Range
<1>4. \A i \in DOMAIN ids : Made(ms, i) = Made(g, ids[i])
           /\ (IsResult(ms, i) <=> IsResult(g, ids[i]))
  BY DEF Made, IsResult
<1>5. \A i, j \in DOMAIN ids : ids[i] < ids[j] <=> i < j
  <2> TAKE i, j \in DOMAIN ids
  <2>1. i \in Nat /\ j \in Nat /\ ids[i] \in Nat /\ ids[j] \in Nat
    BY <1>1
  <2>2. i < j \/ j < i \/ i = j
    BY <2>1
  <2>3. (i < j => ids[i] < ids[j]) /\ (j < i => ids[j] < ids[i])
    BY DEF Ascending
  <2> QED
    BY <2>1, <2>2, <2>3
<1> DEFINE S == Range(ids)
           D == DOMAIN ids
<1>6. OneTurn(ms, D) /\ OneResult(ms, D) /\ Answering(ms, D) /\ LastIsOpen(ms, D)
  BY DEF Laid, Orderly
<1> HIDE DEF S, D
<1>7. OneTurn(g, S)
  <2>1. SUFFICES ASSUME NEW m \in S, NEW n \in S, Made(g, m) # {}, Made(g, n) # {},
                        g[m].turn = g[n].turn
                 PROVE  m = n
    BY DEF OneTurn
  <2>2. PICK i \in D : m = ids[i]
    BY <1>3 DEF S, D
  <2>3. PICK j \in D : n = ids[j]
    BY <1>3 DEF S, D
  <2>4. ms[i].turn = ms[j].turn /\ Made(ms, i) # {} /\ Made(ms, j) # {}
    BY <1>4, <2>1, <2>2, <2>3 DEF D
  <2>5. i = j
    BY <1>6, <2>4 DEF OneTurn
  <2> QED
    BY <2>2, <2>3, <2>5
<1>8. OneResult(g, S)
  <2>1. SUFFICES ASSUME NEW m \in S, NEW n \in S, IsResult(g, m), IsResult(g, n), g[m].of = g[n].of
                 PROVE  m = n
    BY DEF OneResult
  <2>2. PICK i \in D : m = ids[i]
    BY <1>3 DEF S, D
  <2>3. PICK j \in D : n = ids[j]
    BY <1>3 DEF S, D
  <2>4. ms[i].of = ms[j].of /\ IsResult(ms, i) /\ IsResult(ms, j)
    BY <1>4, <2>1, <2>2, <2>3 DEF D
  <2>5. i = j
    BY <1>6, <2>4 DEF OneResult
  <2> QED
    BY <2>2, <2>3, <2>5
<1>9. Answering(g, S)
  <2>1. SUFFICES ASSUME NEW n \in S, IsResult(g, n)
                 PROVE  \E m \in S : m < n /\ g[n].of \in Made(g, m) /\ Near(g, S, m, n)
    BY DEF Answering
  <2>2. PICK r \in D : n = ids[r]
    BY <1>3 DEF S, D
  <2>3. PICK a \in D : a < r /\ ms[r].of \in Made(ms, a) /\ Near(ms, D, a, r)
    BY <1>4, <1>6, <2>1, <2>2 DEF Answering, D
  <2>4. ids[a] \in S /\ ids[a] < n /\ g[n].of \in Made(g, ids[a])
    BY <1>2, <1>4, <1>5, <2>2, <2>3 DEF S, D
  <2>5. Near(g, S, ids[a], n)
    <3>1. SUFFICES ASSUME NEW y \in S, ids[a] < y, y < n PROVE Behind(g, ids[a], y)
      BY DEF Near
    <3>2. PICK x \in D : y = ids[x]
      BY <1>3 DEF S, D
    <3>3. Behind(ms, a, x)
      BY <1>5, <2>2, <2>3, <3>1, <3>2 DEF Near, D
    <3> QED
      BY <1>4, <3>2, <3>3 DEF Behind, D
  <2> QED
    BY <2>4, <2>5
<1>10. ASSUME NEW c
       PROVE  /\ c \in Opens(g, S) <=> c \in Opens(ms, D)
  <2>1. (\E n \in S : IsResult(g, n) /\ g[n].of = c)
        <=> (\E i \in D : IsResult(ms, i) /\ ms[i].of = c)
    BY <1>2, <1>3, <1>4 DEF S, D
  <2>2. (\E n \in S : c \in Made(g, n)) <=> (\E i \in D : c \in Made(ms, i))
    BY <1>2, <1>3, <1>4 DEF S, D
  <2> QED
    BY <2>1, <2>2, GivenIs
<1>11. LastIsOpen(g, S)
  <2>1. SUFFICES ASSUME NEW m \in S, NEW c, c \in Made(g, m), c \in Opens(g, S), NEW n \in S, m < n
                 PROVE  Behind(g, m, n)
    BY DEF LastIsOpen
  <2>2. PICK a \in D : m = ids[a]
    BY <1>3 DEF S, D
  <2>3. PICK x \in D : n = ids[x]
    BY <1>3 DEF S, D
  <2>4. c \in Made(ms, a) /\ c \in Opens(ms, D) /\ a < x
    BY <1>4, <1>5, <1>10, <2>1, <2>2, <2>3 DEF D
  <2>5. Behind(ms, a, x)
    BY <1>6, <2>4 DEF LastIsOpen
  <2> QED
    BY <1>4, <2>2, <2>3, <2>5 DEF Behind, D
<1>12. Opens(g, S) \subseteq Opens(ms, D) /\ Opens(ms, D) \subseteq Opens(g, S)
  BY <1>10
<1> QED
  BY <1>7, <1>8, <1>9, <1>11, <1>12 DEF Laid, Orderly, S, D

LEMMA RoutesAre ==
  ASSUME IInv, Remembers
  PROVE  /\ DOMAIN store.up \subseteq DOMAIN log /\ DOMAIN store.up \subseteq Nat
         /\ store.file \subseteq DOMAIN store.up /\ Range(store.writes) \subseteq DOMAIN store.up
         /\ \A n \in {store.tip, store.last} \cup Range(store.writes) :
              n \in Live(store).file \cup {0} /\ Route(store, n) \subseteq DOMAIN store.up
         /\ Bases \subseteq {store.tip, store.last} \cup Range(store.writes)
<1>1. DOMAIN log = 1..Len(log) /\ Len(log) \in Nat
  BY Facts
<1>2. Tree(store) /\ DOMAIN store.up \subseteq DOMAIN log
  BY DEF IInv, Filed
<1>3. /\ Live(store).file = store.file \cup Range(store.writes)
      /\ \A n \in Live(store).file \cup {0} : Path(Live(store), n) \in Seq(DOMAIN store.up)
  BY <1>1, <1>2, LiveIs
<1>4. store.file \subseteq DOMAIN store.up /\ Range(store.writes) \subseteq DOMAIN store.up
  BY <1>2 DEF Tree, Range
<1>5. \A n \in {store.tip, store.last} \cup Range(store.writes) : n \in Live(store).file \cup {0}
  BY <1>2, <1>3 DEF Remembers, Follows, Tree
<1>6. \A n \in {store.tip, store.last} \cup Range(store.writes) :
        Route(store, n) \subseteq DOMAIN store.up
  BY <1>3, <1>5, RangeOfSeq DEF Route
<1>7. Bases \subseteq {store.tip, store.last} \cup Range(store.writes)
  BY DEF Bases
<1> QED
  BY <1>1, <1>2, <1>4, <1>5, <1>6, <1>7

\* Nothing is saved, and what is in the history stays there.
LEMMA RoutedStays ==
  ASSUME IInv, Remembers, Routed, NEW new, Grows(new), UNCHANGED store,
         \A x \in Range(mem) : ~Failed(log[x]) => x \in Range(mem'),
         \A a \in Kept' : Made(log', a) \cap Claimed' # {} =>
           a \in Kept /\ Made(log', a) \cap Claimed' \subseteq Claimed
  PROVE  Routed'
<1> DEFINE N == {store.tip, store.last} \cup Range(store.writes)
<1>1. /\ DOMAIN store.up \subseteq DOMAIN log /\ store.file \subseteq DOMAIN store.up
      /\ Range(store.writes) \subseteq DOMAIN store.up
      /\ \A n \in N : Route(store, n) \subseteq DOMAIN log
      /\ Bases \subseteq N
  BY RoutesAre
<1>2. \A x \in DOMAIN log : log'[x] = log[x]
  BY DEF Grows
<1>3. \A n \in N : Sound(log, Range(mem), Route(store, n))
  BY DEF Routed
<1> HIDE DEF N
<1>4. \A n \in N : Sound(log', Range(mem'), Route(store, n))
  <2> TAKE n \in N
  <2>1. \A x \in Route(store, n) : log'[x] = log[x]
    BY <1>1, <1>2
  <2>2. \A x \in Route(store, n) : x \in Range(mem) /\ ~Failed(log[x]) => x \in Range(mem')
    OBVIOUS
  <2>3. Sound(log, Range(mem), Route(store, n))
    BY <1>3
  <2> QED
    BY <2>1, <2>2, <2>3, SoundStays
<1>5. \A n \in {store'.tip, store'.last} \cup Range(store'.writes) :
        Sound(log', Range(mem'), Route(store', n))
  BY <1>4 DEF N
<1>6. \A n \in Range(store'.writes), x \in store'.file : n < x => Failed(log'[x])
  <2>1. \A n \in Range(store.writes), x \in store.file : n < x => Failed(log[x])
    BY DEF Routed
  <2> QED
    BY <1>1, <1>2, <2>1
<1>7. Bases' = Bases
  BY DEF Bases
<1>8. ASSUME NEW b \in Bases, NEW a \in Kept', Made(log', a) \cap Claimed' # {}
      PROVE  Clear(log', Route(store', b), a)
  <2>1. a \in Kept /\ Made(log', a) \cap Claimed' \subseteq Claimed
    BY <1>8
  <2>2. Made(log', a) = Made(log, a)
    <3>1. a \in DOMAIN log
      BY <2>1, KeptFacts
    <3> QED
      BY <1>2, <3>1 DEF Made
  <2>3. Clear(log, Route(store, b), a)
    BY <1>8, <2>1, <2>2 DEF Routed
  <2>4. \A x \in Route(store, b) : log'[x] = log[x]
    BY <1>1, <1>2
  <2> QED
    BY <2>3, <2>4 DEF Clear
<1> QED
  BY <1>5, <1>6, <1>7, <1>8 DEF Routed

\* The history stays as it is.
LEMMA RoutedHere ==
  ASSUME IInv, Remembers, Pairs', Routed, NEW new, Grows(new), UNCHANGED <<mem, store>>,
         \A n \in Range(run'.out) :
           n \notin DOMAIN log \/ n \in Range(run.out) \/ n \in DOMAIN store.up
  PROVE  Routed'
<1>1. /\ Kept' = Kept /\ Open' = Open
      /\ \A n \in DOMAIN log : log'[n] = log[n] /\ (IsResult(log', n) <=> IsResult(log, n))
  BY KeptStays
<1>2. Range(mem) \subseteq DOMAIN log /\ Range(run.out) \subseteq DOMAIN log
  BY KeptFacts
<1>3. ASSUME NEW c \in Claimed'
      PROVE  c \in Claimed
  <2>1. CASE c \in Open'
    BY <1>1, <2>1 DEF Claimed
  <2>2. CASE c \in Given(log', Range(run'.out) \ DOMAIN store'.up)
    <3>1. PICK n \in Range(run'.out) \ DOMAIN store'.up : IsResult(log', n) /\ log'[n].of = c
      BY <2>2, GivenIs
    <3>2. CASE n \notin Range(mem)
      <4>1. n \in Coming'
        BY <3>1, <3>2 DEF Coming
      <4>2. Fits(n)'
        BY <4>1 DEF Pairs, Fitting
      <4>3. c \in Open'
        BY <3>1, <4>2 DEF Fits, Silent, Failed, IsResult
      <4> QED
        BY <2>1, <4>3
    <3>3. CASE n \in Range(mem)
      <4>1. n \in Range(run.out) \ DOMAIN store.up /\ n \in DOMAIN log
        BY <1>2, <3>1, <3>3
      <4>2. IsResult(log, n) /\ log[n].of = c
        BY <1>1, <3>1, <4>1
      <4>3. c \in Given(log, Range(run.out) \ DOMAIN store.up)
        BY <4>1, <4>2, GivenIs
      <4> QED
        BY <4>3 DEF Claimed
    <3> QED
      BY <3>2, <3>3
  <2> QED
    BY <1>3, <2>1, <2>2 DEF Claimed
<1>4. \A a \in Kept' : Made(log', a) \cap Claimed' # {} =>
        a \in Kept /\ Made(log', a) \cap Claimed' \subseteq Claimed
  BY <1>1, <1>3
<1> QED
  BY <1>4, RoutedStays

\* A step of the loop that does not save.
LEMMA LoopLoads ==
  ASSUME IInv, Fails, Remembers, Pairs', Routed, Saving, NEW new, Grows(new),
         UNCHANGED <<mem, store>>, run.phase \in Loops, run'.phase \in Loops \cup {"ended"},
         run'.failing = run.failing,
         \/ run'.out = run.out /\ UNCHANGED log
         \/ /\ Publishes(run'.out)
            /\ \A n \in Range(run'.out) : Failed(log'[n]) => Range(run'.out) = {n} /\ Open = {}
  PROVE  Routed' /\ Saving'
<1>1. store.writes = <<>> /\ ~run.failing
  BY InLoop
<1>2. \A n \in Range(run'.out) : n \notin DOMAIN log \/ n \in Range(run.out)
  BY PublishedAreNew
<1>3. Routed'
  BY <1>2, RoutedHere
<1>4. Open' = Open
  BY KeptStays
<1>5. \A n \in Range(run'.out) : Failed(log'[n]) =>
        Range(run'.out) = {n} /\ (store'.writes = <<>> => Open' = {})
  <2>1. CASE run'.out = run.out /\ UNCHANGED log
    <3>1. \A n \in Range(run.out) : Failed(log[n]) =>
            Range(run.out) = {n} /\ (store.writes = <<>> => Open = {})
      BY DEF Saving
    <3> QED
      BY <1>4, <2>1, <3>1
  <2>2. CASE \A n \in Range(run'.out) : Failed(log'[n]) => Range(run'.out) = {n} /\ Open = {}
    BY <1>4, <2>2
  <2> QED
    BY <2>1, <2>2
<1>6. run'.phase # "settle" /\ run'.phase # "closing" /\ ~run'.failing /\ store'.writes = <<>>
  BY <1>1 DEF Loops
<1> QED
  BY <1>3, <1>5, <1>6 DEF Saving

\* What every step may use of a session that was not cancelled.
Held == IInv /\ Fails /\ Remembers /\ Numbered /\ Pairs /\ Clean /\ Loadable /\ Routed /\ Saving

LEMMA NotCancelled ==
  ASSUME Held
  PROVE  ~run.cancelled /\ ~run.late
<1>1. spent.cancels = 0 /\ (run.cancelled => spent.cancels > 0)
  BY DEF Held, Loadable, Pairs, Steered
<1> QED
  BY <1>1 DEF Held, Pairs, Steered

\* A step of the loop that makes no message.
LEMMA SilentLoads ==
  ASSUME Held, Pairs', UNCHANGED <<log, mem, store>>, run.phase \in Loops,
         run'.phase \in Loops \cup {"ended"}, run'.failing = run.failing, run'.out = run.out
  PROVE  Routed' /\ Saving'
<1>1. Grows(<<>>)
  BY Facts, SameGrows DEF Held
<1> QED
  BY <1>1, LoopLoads DEF Held

\* One that makes messages, and publishes them.
LEMMA MessagesLoad ==
  ASSUME Held, Pairs', NEW new, new \in Seq(Message), Logs(new), UNCHANGED <<mem, store>>,
         run.phase \in Loops, run'.phase \in Loops \cup {"ended"}, run'.failing = run.failing,
         run'.out = Ids(Len(log), new),
         \A i \in DOMAIN new : Failed(new[i]) => Len(new) = 1 /\ Open = {}
  PROVE  Routed' /\ Saving'
<1>1. IInv /\ log \in Seq(Message)
  BY Facts DEF Held
<1>2. Grows(new)
  BY <1>1, LogsGrow
<1>3. Publishes(run'.out)
  BY <1>1, <1>2, IdsPublish
<1>4. /\ DOMAIN run'.out = 1..Len(new) /\ \A i \in 1..Len(new) : run'.out[i] = Len(log) + i
      /\ DOMAIN new = 1..Len(new) /\ Len(new) \in Nat
  BY <1>1, Facts, IdsAre
<1>5. ASSUME NEW n \in Range(run'.out), Failed(log'[n])
      PROVE  Range(run'.out) = {n} /\ Open = {}
  <2>1. PICK i \in 1..Len(new) : n = run'.out[i] /\ n = Len(log) + i
    BY <1>4 DEF Range
  <2>2. log'[n] = new[i]
    BY <1>2, <1>4, <2>1 DEF Grows
  <2>3. Len(new) = 1 /\ Open = {}
    BY <1>4, <1>5, <2>2
  <2>4. DOMAIN run'.out = {1} /\ n = run'.out[1]
    BY <1>4, <2>1, <2>3
  <2> QED
    BY <2>3, <2>4 DEF Range
<1> QED
  BY <1>2, <1>3, <1>5, LoopLoads DEF Held

LEMMA QuietLoads ==
  ASSUME Held, Pairs',
         \/ Pauses \/ FailedEnds \/ Request \/ WordsEnd \/ SeqBegins \/ SeqEnds \/ ParPrepare
         \/ ParStart \/ (\E k \in 1..MaxCalls : ParDone(k))
         \/ \E which \in {"steer", "follow"} : Queue(which)
  PROVE  Routed' /\ Saving'
<1>1. IInv
  BY DEF Held
<1>2. UNCHANGED <<log, mem, store>>
  BY DEF Pauses, FailedEnds, Request, WordsEnd, SeqBegins, SeqEnds, ParPrepare, ParStart, ParDone,
         Queue
<1>3. run.phase \in Loops
  BY DEF Pauses, FailedEnds, Request, WordsEnd, SeqBegins, SeqEnds, ParPrepare, ParStart, ParDone,
         Queue, Ready, Loops
<1>4. /\ run'.phase \in Loops \cup {"ended"} /\ run'.failing = run.failing /\ run'.out = run.out
  <2>1. CASE Pauses \/ FailedEnds \/ Request \/ WordsEnd
    BY <1>1, <2>1, RunIs DEF Pauses, FailedEnds, Request, WordsEnd, Loops
  <2>2. CASE SeqEnds \/ ParPrepare
    BY <1>1, <1>3, <2>2, RunIs DEF SeqEnds, ParPrepare, Loops
  <2>3. CASE UNCHANGED run
    BY <1>3, <2>3
  <2> QED
    BY <2>1, <2>2, <2>3 DEF SeqBegins, ParStart, ParDone, Queue
<1> QED
  BY <1>2, <1>3, <1>4, SilentLoads

LEMMA GoesLoads ==
  ASSUME Held, Pairs', NEW polled \in {<<>>, <<Plain>>}, Goes(polled), UNCHANGED <<mem, store>>,
         run.phase \in Loops
  PROVE  Routed' /\ Saving'
<1>1. polled \in Seq(Message) /\ \A i \in DOMAIN polled : ~Failed(polled[i])
  <2>1. Plain \in Message /\ ~Failed(Plain)
    BY DEF Message, Plain, Failed
  <2> HIDE DEF Plain
  <2>2. <<>> \in Seq(Message) /\ <<Plain>> \in Seq(Message)
    BY <2>1
  <2>3. DOMAIN <<>> = {} /\ DOMAIN <<Plain>> = {1} /\ <<Plain>>[1] = Plain
    OBVIOUS
  <2> QED
    BY <2>1, <2>2, <2>3
<1>2. Logs(polled)
  BY DEF Goes
<1>3. run'.phase = "turn" /\ run'.failing = run.failing /\ run'.out = Ids(Len(log), polled)
  BY RunIs DEF Goes, Held
<1>4. run'.phase \in Loops
  BY <1>3 DEF Loops
<1> QED
  BY <1>1, <1>2, <1>3, <1>4, MessagesLoad

LEMMA TurnsLoad ==
  ASSUME Held, Pairs', StartTurn \/ NextTurn
  PROVE  Routed' /\ Saving'
<1>1. run.phase \in Loops /\ UNCHANGED <<mem, store>>
  BY DEF StartTurn, NextTurn, Ready, Loops
<1>2. \/ \E polled \in {<<>>, <<Plain>>} : Goes(polled)
      \/ run' = [run EXCEPT !.phase = "ended"] /\ UNCHANGED log
  BY DEF StartTurn, NextTurn, Polled
<1>3. CASE \E polled \in {<<>>, <<Plain>>} : Goes(polled)
  BY <1>1, <1>3, GoesLoads
<1>4. CASE run' = [run EXCEPT !.phase = "ended"] /\ UNCHANGED log
  <2>1. run'.phase = "ended" /\ run'.failing = run.failing /\ run'.out = run.out
    BY <1>4, RunIs DEF Held
  <2> QED
    BY <1>1, <1>4, <2>1, SilentLoads
<1> QED
  BY <1>2, <1>3, <1>4

LEMMA OneLoads ==
  ASSUME Held, Pairs', NEW m \in Message, Logs(<<m>>), UNCHANGED <<mem, store>>,
         run.phase \in Loops, run'.phase \in Loops \cup {"ended"}, run'.failing = run.failing,
         run'.out = <<Len(log) + 1>>, Failed(m) => Open = {}
  PROVE  Routed' /\ Saving'
<1>1. <<m>> \in Seq(Message) /\ Len(<<m>>) = 1 /\ DOMAIN <<m>> = {1} /\ <<m>>[1] = m
  OBVIOUS
<1>2. Ids(Len(log), <<m>>) = <<Len(log) + 1>>
  <2>1. Len(log) \in Nat
    BY Facts DEF Held
  <2> DEFINE one == <<m>>
             ids == Ids(Len(log), one)
  <2>2. one \in Seq(Message) /\ Len(one) = 1
    BY <1>1
  <2> HIDE DEF one
  <2>3. ids \in Seq(Nat \ {0}) /\ Len(ids) = Len(one)
        /\ \A i \in 1..Len(one) : ids[i] = Len(log) + i
    BY <2>1, <2>2, IdsAre
  <2> HIDE DEF ids
  <2>4. ids = <<Len(log) + 1>>
    BY <2>2, <2>3
  <2> QED
    BY <2>4 DEF ids, one
<1> QED
  BY <1>1, <1>2, MessagesLoad

LEMMA BlankLoads ==
  ASSUME Held, Pairs', BlankEnds
  PROVE  Routed' /\ Saving'
<1> DEFINE m == Answered(spent.requests, 0, "error", TRUE)
<1>1. run.phase \in Loops /\ UNCHANGED <<mem, store>> /\ Ready("answered")
      /\ log[run.answer].stop = "done" /\ log[run.answer].blank
  BY DEF BlankEnds, Ready, Loops
<1>2. \/ Logs(<<m>>) /\ run' = [run EXCEPT !.phase = "ended", !.out = <<Len(log) + 1>>]
      \/ /\ run' = [run EXCEPT !.phase = "turnEnd", !.blank = TRUE, !.more = FALSE]
         /\ UNCHANGED log
  BY DEF BlankEnds
<1>3. m \in Message
  BY Facts DEF Answered, Message, Answers, Held
<1> HIDE DEF m
<1>4. Open = {}
  <2>1. run.answer \in DOMAIN log /\ log[run.answer].kind = "assistant"
    BY <1>1 DEF Held, IInv, Turns, Ready
  <2>2. log[run.answer].calls = 0 /\ ~Failed(log[run.answer])
    BY <1>1, <2>1 DEF Held, Numbered, Failed
  <2> QED
    BY <1>1, <2>2, AnswerIsOpen DEF Held
<1>5. CASE Logs(<<m>>) /\ run' = [run EXCEPT !.phase = "ended", !.out = <<Len(log) + 1>>]
  <2>1. run'.phase = "ended" /\ run'.failing = run.failing /\ run'.out = <<Len(log) + 1>>
    BY <1>5, RunIs DEF Held
  <2> QED
    BY <1>1, <1>3, <1>4, <1>5, <2>1, OneLoads
<1>6. CASE /\ run' = [run EXCEPT !.phase = "turnEnd", !.blank = TRUE, !.more = FALSE]
           /\ UNCHANGED log
  <2>1. run'.phase = "turnEnd" /\ run'.failing = run.failing /\ run'.out = run.out
    BY <1>6, RunIs DEF Held
  <2>2. run'.phase \in Loops
    BY <2>1 DEF Loops
  <2> QED
    BY <1>1, <1>6, <2>1, <2>2, SilentLoads
<1> QED
  BY <1>2, <1>5, <1>6

LEMMA AnswerLoads ==
  ASSUME Held, Pairs', NEW calls \in 0..MaxCalls, NEW stop \in {"done", "cut", "error", "aborted"},
         NEW blank \in BOOLEAN, Answer(calls, stop, blank)
  PROVE  Routed' /\ Saving'
<1> DEFINE m == Answered(spent.requests, calls, stop, blank)
<1>1. run.phase = "waiting" /\ UNCHANGED <<mem, store>> /\ Logs(<<m>>)
  BY DEF Answer, Ready
<1>2. run'.phase = "answered" /\ run'.failing = run.failing /\ run'.out = <<Len(log) + 1>>
  BY RunIs DEF Answer, Held
<1>3. m \in Message
  BY Facts DEF Answered, Message, Answers, Held
<1>4. Open = {}
  BY <1>1, NotCancelled DEF Held, Pairs, Phased
<1>5. run.phase \in Loops /\ run'.phase \in Loops
  BY <1>1, <1>2 DEF Loops
<1> HIDE DEF m
<1> QED
  BY <1>1, <1>2, <1>3, <1>4, <1>5, OneLoads

LEMMA BatchBeginsLoads ==
  ASSUME Held, Pairs', BatchBegins
  PROVE  Routed' /\ Saving'
<1> DEFINE results == [k \in DOMAIN Calls |-> Result(Calls[k], "truncated")]
<1>1. run.phase = "answered" /\ UNCHANGED <<mem, store>> /\ run.out = <<>>
  BY DEF BatchBegins, Ready
<1>2. \/ /\ Logs(results)
         /\ run' = [run EXCEPT !.phase = "turnEnd", !.blank = FALSE, !.more = TRUE,
                               !.out = Ids(Len(log), results)]
      \/ /\ UNCHANGED log
         /\ \E mode \in {"seq", "par"} :
              run' = [run EXCEPT !.phase = mode, !.blank = FALSE, !.more = TRUE, !.next = 1]
  BY DEF BatchBegins
<1>3. results \in Seq(ResultsOf({"truncated"}))
  <2>1. {"truncated"} \in SUBSET Hows
    BY DEF Hows
  <2>2. Calls \in Seq(CallIds)
    BY <1>1, CallsAre DEF Held
  <2> QED
    BY <2>1, <2>2, ResultsAre
<1>4. results \in Seq(Message) /\ \A i \in DOMAIN results : ~Failed(results[i])
  <2>1. \A x \in ResultsOf({"truncated"}) : x \in Message /\ ~Failed(x)
    BY DEF Message, ResultsOf, Hows, Failed
  <2> HIDE DEF results
  <2>2. results \in Seq(Message)
    BY <1>3, <2>1, SeqMonotonic
  <2>3. \A i \in DOMAIN results : ~Failed(results[i])
    BY <1>3, <2>1
  <2> QED
    BY <2>2, <2>3
<1> HIDE DEF results
<1>5. run.phase \in Loops
  BY <1>1 DEF Loops
<1>6. CASE /\ Logs(results)
           /\ run' = [run EXCEPT !.phase = "turnEnd", !.blank = FALSE, !.more = TRUE,
                                 !.out = Ids(Len(log), results)]
  <2>1. /\ run'.phase = "turnEnd" /\ run'.failing = run.failing
        /\ run'.out = Ids(Len(log), results)
    BY <1>6, RunIs DEF Held
  <2>2. run'.phase \in Loops
    BY <2>1 DEF Loops
  <2> QED
    BY <1>1, <1>4, <1>5, <1>6, <2>1, <2>2, MessagesLoad
<1>7. CASE /\ UNCHANGED log
           /\ \E mode \in {"seq", "par"} :
                run' = [run EXCEPT !.phase = mode, !.blank = FALSE, !.more = TRUE, !.next = 1]
  <2>1. PICK mode \in {"seq", "par"} :
          run' = [run EXCEPT !.phase = mode, !.blank = FALSE, !.more = TRUE, !.next = 1]
    BY <1>7
  <2>2. run'.phase = mode /\ run'.failing = run.failing /\ run'.out = run.out
    BY <2>1, RunIs DEF Held
  <2>3. run'.phase \in Loops
    BY <2>2 DEF Loops
  <2> QED
    BY <1>1, <1>5, <1>7, <2>2, <2>3, SilentLoads
<1> QED
  BY <1>2, <1>6, <1>7

LEMMA SettlesLoad ==
  ASSUME Held, Pairs', SeqPrepare \/ SeqDone
  PROVE  Routed' /\ Saving'
<1>1. run.phase = "seq" /\ run.next <= Len(Calls) /\ UNCHANGED <<mem, store>>
  BY DEF SeqPrepare, SeqDone, Ready
<1>2. run.phase \in Loops
  BY <1>1 DEF Loops
<1>3. Calls[run.next] \in CallIds
  BY <1>1, BatchFacts, AtNext DEF Held
<1>4. ASSUME NEW how \in {"refused", "aborted", "ran"}, Settles(run.next, how)
      PROVE  Routed' /\ Saving'
  <2> DEFINE m == Result(Calls[run.next], how)
  <2>1. m \in Message /\ ~Failed(m)
    BY <1>3 DEF Result, Message, ResultsOf, Hows, Outcomes, Failed
  <2>2. Logs(<<m>>)
    BY <1>4 DEF Settles
  <2> HIDE DEF m
  <2>3. run'.phase = run.phase /\ run'.failing = run.failing /\ run'.out = <<Len(log) + 1>>
    BY <1>4, RunIs DEF Settles, Held
  <2> QED
    BY <1>1, <1>2, <2>1, <2>2, <2>3, OneLoads
<1>5. \/ UNCHANGED <<log, run>>
      \/ \E how \in {"refused", "aborted", "ran"} : Settles(run.next, how)
  BY DEF SeqPrepare, SeqDone
<1> QED
  BY <1>1, <1>2, <1>4, <1>5, SilentLoads

LEMMA ParEndsLoads ==
  ASSUME Held, Pairs', ParEnds
  PROVE  Routed' /\ Saving'
<1> DEFINE settled == Within([k \in DOMAIN Calls |-> k], {k \in DOMAIN Calls : tools[k] # "none"})
           results == [i \in DOMAIN settled |-> Result(Calls[settled[i]], tools[settled[i]])]
<1>1. Logs(results) /\ run.phase = "par" /\ UNCHANGED <<mem, store>>
  BY DEF ParEnds, Ready
<1>2. OfCalls(results)
  BY <1>1, ParResultsAre DEF Held
<1>3. \A i \in DOMAIN results : ~Failed(results[i])
  <2> HIDE DEF settled
  <2> QED
    BY DEF Result, Failed
<1>4. \E more \in {TRUE, ~Terminates} :
        run' = [run EXCEPT !.phase = "turnEnd", !.more = more, !.out = Ids(Len(log), results)]
  BY DEF ParEnds
<1> HIDE DEF results
<1>5. run'.phase = "turnEnd" /\ run'.failing = run.failing /\ run'.out = Ids(Len(log), results)
  BY <1>4, RunIs DEF Held
<1>6. results \in Seq(Message)
  BY <1>2 DEF OfCalls
<1>7. run.phase \in Loops /\ run'.phase \in Loops
  BY <1>1, <1>5 DEF Loops
<1> QED
  BY <1>1, <1>3, <1>5, <1>6, <1>7, MessagesLoad

LEMMA CloseLoads ==
  ASSUME Held, Pairs', Close
  PROVE  Routed' /\ Saving'
<1>1. UNCHANGED <<log, mem, store>> /\ Looping /\ spent'.faults = spent.faults
  BY Facts DEF Close, Held, Budgets
<1>2. run'.phase = "ended" /\ run'.failing = run.failing /\ run'.out = <<>>
  BY RunIs DEF Close, Held
<1>3. Range(run'.out) = {}
  BY <1>2 DEF Range
<1>4. Grows(<<>>)
  BY <1>1, Facts, SameGrows DEF Held
<1>5. Routed'
  BY <1>1, <1>3, <1>4, RoutedHere DEF Held
<1>6. Saving'
  <2>1. Saving
    BY DEF Held
  <2> QED
    BY <1>1, <1>2, <1>3, <2>1 DEF Saving
<1> QED
  BY <1>5, <1>6

\* A run begins when nothing is unfinished, and what it finds open it answers.
LEMMA BeginLoads ==
  ASSUME Held, Pairs', NEW ms \in Seq(DOMAIN log), IsInjective(ms), Range(ms) \subseteq Range(mem),
         \A x \in Range(mem) : ~Failed(log[x]) => x \in Range(ms),
         NEW S, S = {n \in Range(ms) : ~Silent(log[n])}, Laid(log, S), Opens(log, S) = Open,
         NEW prompts \in {<<>>, <<Plain>>}, Begin(ms, prompts), UNCHANGED store,
         store.writes = <<>>
  PROVE  Routed' /\ Saving'
<1> DEFINE rep == Interrupted(Records(ms))
           ids == Ids(Len(log), rep)
           new == rep \o prompts
           out == ids \o Ids(Len(log) + Len(rep), prompts)
<1>1. /\ Logs(new) /\ mem' = ms \o ids /\ run' = [Idle EXCEPT !.phase = "start", !.out = out]
  BY DEF Begin
<1>2. rep \in Seq(Message)
  BY InterruptedHarmless DEF Held
<1>3. prompts \in Seq(Message) /\ \A i \in DOMAIN prompts : prompts[i] = Plain
  <2>1. Plain \in Message
    BY DEF Message
  <2>2. <<>> \in Seq(Message) /\ <<Plain>> \in Seq(Message)
    BY <2>1
  <2>3. \A i \in DOMAIN <<Plain>> : <<Plain>>[i] = Plain
    OBVIOUS
  <2>4. \A i \in DOMAIN <<>> : <<>>[i] = Plain
    OBVIOUS
  <2> QED
    BY <2>2, <2>3, <2>4
<1>4. Range(ms) \subseteq DOMAIN log /\ S \subseteq Range(ms)
  BY DEF Range
<1>5. \A n \in Range(ms) \ S : ~IsResult(log, n) /\ Made(log, n) = {}
  BY <1>4, SilentIs DEF Held
<1>6. Opens(log, Range(ms)) = Open
  BY <1>4, <1>5, LeaveOut
<1>7. \A i \in DOMAIN rep : rep[i].kind = "result" /\ rep[i].of \in Open
  <2>1. OneTurn(log, Range(ms))
    BY <1>5 DEF Laid, Orderly, OneTurn
  <2>2. log \in Seq(Message)
    BY Facts DEF Held
  <2>3. \A i \in DOMAIN rep : rep[i].kind = "result" /\ rep[i].of \in Opens(log, Range(ms))
    BY <2>1, <2>2, InterruptedAnswers
  <2> QED
    BY <1>6, <2>3
<1> HIDE DEF rep
<1>8. /\ new \in Seq(Message) /\ Len(new) = Len(rep) + Len(prompts)
      /\ Len(rep) \in Nat /\ Len(prompts) \in Nat /\ Len(log) \in Nat
      /\ \A k \in DOMAIN new : \/ k \in DOMAIN rep /\ new[k] = rep[k]
                               \/ new[k] = Plain
  <2>1. /\ new \in Seq(Message) /\ Len(new) = Len(rep) + Len(prompts)
        /\ Len(rep) \in Nat /\ Len(prompts) \in Nat
        /\ DOMAIN rep = 1..Len(rep) /\ DOMAIN prompts = 1..Len(prompts)
        /\ DOMAIN new = 1..(Len(rep) + Len(prompts))
        /\ \A k \in DOMAIN new :
             new[k] = IF k <= Len(rep) THEN rep[k] ELSE prompts[k - Len(rep)]
    BY <1>2, <1>3
  <2>2. Len(log) \in Nat
    BY Facts DEF Held
  <2> HIDE DEF new
  <2>3. \A k \in DOMAIN new : ~(k <= Len(rep)) => k - Len(rep) \in DOMAIN prompts
    BY <2>1
  <2> QED
    BY <1>3, <2>1, <2>2, <2>3
<1>9. out = Ids(Len(log), new)
  BY <1>2, <1>3, <1>8, IdsJoin
<1> HIDE DEF new
<1>10. Grows(new)
  BY <1>1, <1>8, Facts, LogsGrow DEF Held
<1>11. /\ out \in Seq(Nat \ {0}) /\ DOMAIN out = 1..Len(new)
       /\ \A i \in 1..Len(new) : out[i] = Len(log) + i
  <2> HIDE DEF out
  <2> QED
    BY <1>8, <1>9, IdsAre
<1>12. /\ ids \in Seq(Nat \ {0}) /\ DOMAIN ids = 1..Len(rep) /\ DOMAIN rep = 1..Len(rep)
       /\ \A i \in 1..Len(rep) : ids[i] = Len(log) + i
  BY <1>2, <1>8, IdsAre
<1> HIDE DEF out, ids
<1>13. run'.phase = "start" /\ run'.out = out /\ ~run'.failing
  BY <1>1 DEF Idle
<1>14. \A n \in Range(out) : \/ IsResult(log', n) /\ log'[n].of \in Open
                             \/ log'[n] = Plain
  <2>1. \A i \in 1..Len(new) : log'[out[i]] = new[i] /\ i \in DOMAIN new
    <3>1. DOMAIN new = 1..Len(new)
      BY <1>8
    <3>2. \A i \in DOMAIN new : log'[Len(log) + i] = new[i]
      BY <1>10 DEF Grows
    <3> QED
      BY <1>11, <3>1, <3>2
  <2>2. \A n \in Range(out) : \E i \in 1..Len(new) : n = out[i]
    BY <1>11 DEF Range
  <2> QED
    BY <1>7, <1>8, <2>1, <2>2 DEF IsResult
<1>15. Plain.kind = "user"
  BY DEF Plain
<1>16. Range(mem') = Range(ms) \cup Range(ids)
  <2>1. ms \in Seq(Nat) /\ ids \in Seq(Nat)
    <3>1. DOMAIN log \subseteq Nat /\ Nat \ {0} \subseteq Nat
      BY KeptFacts DEF Held
    <3> QED
      BY <1>12, <3>1, SeqMonotonic
  <2> QED
    BY <1>1, <2>1, RangeConcatenation
<1>17. \A n \in Range(ids) : log'[n].kind = "result"
  <2>1. \A i \in 1..Len(rep) : log'[ids[i]] \in Message /\ log'[ids[i]].kind = "result"
    <3> TAKE i \in 1..Len(rep)
    <3>1. i \in DOMAIN new /\ new[i] = rep[i]
      <4>1. i \in DOMAIN rep /\ DOMAIN prompts = 1..Len(prompts) /\ new = rep \o prompts
        BY <1>2, <1>3 DEF new
      <4> QED
        BY <1>2, <1>3, <4>1
    <3>2. log'[Len(log) + i] = new[i]
      BY <1>10, <3>1 DEF Grows
    <3> QED
      BY <1>2, <1>7, <1>12, <3>1, <3>2
  <2>2. \A n \in Range(ids) : \E i \in 1..Len(rep) : n = ids[i]
    BY <1>12 DEF Range
  <2> QED
    BY <2>1, <2>2
<1>18. Open' = {}
  BY <1>13 DEF Pairs, Phased
<1>19. \A c \in Claimed' : c \in Open
  <2> TAKE c \in Claimed'
  <2>1. c \in Given(log', Range(out) \ DOMAIN store'.up)
    BY <1>13, <1>18 DEF Claimed
  <2>2. PICK n \in Range(out) : IsResult(log', n) /\ log'[n].of = c
    BY <2>1, GivenIs
  <2> QED
    BY <1>14, <1>15, <2>2 DEF IsResult
<1>20. \A a \in Kept' : Made(log', a) # {} => a \in Kept
  <2> TAKE a \in Kept'
  <2> HAVE Made(log', a) # {}
  <2>1. a \in Range(mem') /\ ~Silent(log'[a])
    BY DEF Kept
  <2>2. log'[a].kind = "assistant"
    <3>1. log'[a].kind # "assistant" => CallsOf(log'[a]) = <<>>
      BY DEF CallsOf
    <3>2. Range(<<>>) = {}
      BY DEF Range
    <3> QED
      BY <3>1, <3>2 DEF Made
  <2>3. a \in Range(ms)
    BY <1>16, <1>17, <2>1, <2>2
  <2>4. log'[a] = log[a]
    BY <1>4, <1>10, <2>3 DEF Grows
  <2> QED
    BY <2>1, <2>3, <2>4 DEF Kept
<1>21. Routed'
  <2>1. \A a \in Kept' : Made(log', a) \cap Claimed' # {} =>
          a \in Kept /\ Made(log', a) \cap Claimed' \subseteq Claimed
    BY <1>19, <1>20 DEF Claimed
  <2>2. \A x \in Range(mem) : ~Failed(log[x]) => x \in Range(mem')
    BY <1>16
  <2>3. IInv /\ Remembers /\ Routed
    BY DEF Held
  <2> QED
    BY <1>10, <2>1, <2>2, <2>3, RoutedStays
<1>22. Saving'
  <2>1. \A n \in Range(run'.out) : ~Failed(log'[n])
    BY <1>13, <1>14, <1>15 DEF Failed, IsResult
  <2> QED
    BY <1>13, <2>1 DEF Saving
<1> QED
  BY <1>21, <1>22

\* Nothing is unfinished when a run of the session begins.
LEMMA NothingUnfinished ==
  ASSUME Held, run.phase \in {"idle", "flush"}
  PROVE  store.writes = <<>>
BY DEF Held, Saving, Fails

LEMMA PromptLoads ==
  ASSUME Held, Pairs', Prompt \/ Flushed
  PROVE  Routed' /\ Saving'
<1>1. store.writes = <<>>
  BY NothingUnfinished DEF Prompt, Flushed, Ready
<1>2. Begin(mem, <<Plain>>) /\ UNCHANGED store
  BY <1>1 DEF Prompt, Flushed
<1>3. mem \in Seq(DOMAIN log) /\ IsInjective(mem)
  BY Facts DEF Held
<1>4. Laid(log, Kept)
  BY DEF Held, Pairs, InOrder
<1>5. Kept = {n \in Range(mem) : ~Silent(log[n])} /\ Opens(log, Kept) = Open
  BY DEF Kept, Open
<1> QED
  BY <1>1, <1>2, <1>3, <1>4, <1>5, BeginLoads

\* Only a failure leaves the history.
LEMMA DropLeaves ==
  ASSUME IInv, mem # <<>>, Failed(log[Last(mem)])
  PROVE  \A x \in Range(mem) : ~Failed(log[x]) => x \in Range(Front(mem))
<1>1. mem \in Seq(DOMAIN log) /\ DOMAIN mem = 1..Len(mem) /\ Len(mem) \in Nat /\ Len(mem) # 0
  BY Facts
<1>2. DOMAIN Front(mem) = 1..(Len(mem) - 1)
      /\ \A i \in 1..(Len(mem) - 1) : Front(mem)[i] = mem[i]
  <2>1. Front(mem) = SubSeq(mem, 1, Len(mem) - 1)
    BY DEF Front
  <2> QED
    BY <1>1, <2>1
<1>3. SUFFICES ASSUME NEW x \in Range(mem), ~Failed(log[x])
               PROVE  x \in Range(Front(mem))
  OBVIOUS
<1>4. PICK i \in 1..Len(mem) : x = mem[i]
  BY <1>1 DEF Range
<1>5. i # Len(mem)
  BY <1>3, <1>4 DEF Last
<1>6. i \in 1..(Len(mem) - 1)
  <2>1. i \in Nat /\ i >= 1 /\ i <= Len(mem) /\ Len(mem) \in Nat
    BY <1>1, <1>4
  <2> QED
    BY <1>5, <2>1
<1>7. i \in DOMAIN Front(mem) /\ Front(mem)[i] = x
  BY <1>2, <1>4, <1>6
<1> QED
  BY <1>7 DEF Range

LEMMA RetryLoads ==
  ASSUME Held, Pairs', Retry
  PROVE  Routed' /\ Saving'
<1>1. /\ run.phase = "ended" /\ run.error /\ Begin(Front(mem), <<>>) /\ UNCHANGED store
  BY DEF Retry, Ready
<1>2. /\ Front(mem) \in Seq(DOMAIN log) /\ IsInjective(Front(mem))
      /\ Range(Front(mem)) \subseteq Range(mem)
      /\ store.writes = <<>> /\ mem # <<>> /\ Failed(log[Last(mem)])
  BY <1>1, DropIs, FrontKeeps, Facts DEF Held
<1>3. \A x \in Range(mem) : ~Failed(log[x]) => x \in Range(Front(mem))
  BY <1>2, DropLeaves DEF Held
<1> DEFINE S == {n \in Range(Front(mem)) : ~Silent(log[n])}
<1>4. Laid(log, S) /\ Opens(log, S) = Open
  BY <1>2, DropPairs DEF Held
<1>5. S = {n \in Range(Front(mem)) : ~Silent(log[n])}
  OBVIOUS
<1> HIDE DEF S
<1> QED
  BY <1>1, <1>2, <1>3, <1>4, <1>5, BeginLoads

LEMMA FinishLoads ==
  ASSUME Held, Pairs', Finish
  PROVE  Routed' /\ Saving'
<1>1. /\ run.phase = "ended" /\ UNCHANGED <<store, spent>>
  BY DEF Finish, Ready
<1>2. ~run.cancelled
  BY NotCancelled
<1>3. /\ Logs(<<>>) /\ run' = [run EXCEPT !.phase = "closing", !.out = Ids(Len(log), <<>>)]
      /\ \E drop \in {FALSE, run.error} :
           mem' = IF drop THEN Front(mem) ELSE mem \o Ids(Len(log), <<>>)
  BY <1>2 DEF Finish
<1>4. Ids(Len(log), <<>>) = <<>>
  BY DEF Ids
<1>5. log \in Seq(Message) /\ mem \in Seq(DOMAIN log)
  BY Facts DEF Held
<1>6. UNCHANGED log /\ Range(<<>>) = {}
  BY <1>3, <1>5 DEF Logs, Range
<1>7. run'.phase = "closing" /\ run'.out = <<>> /\ run'.failing = run.failing
  BY <1>3, <1>4, RunIs DEF Held
<1>8. Grows(<<>>)
  BY <1>5, <1>6, SameGrows
<1>9. CASE mem' = mem
  BY <1>1, <1>6, <1>7, <1>8, <1>9, RoutedHere DEF Held, Saving
<1>10. CASE run.error /\ mem' = Front(mem)
  <2>1. /\ Range(Front(mem)) \subseteq Range(mem) /\ mem # <<>> /\ Failed(log[Last(mem)])
    BY <1>1, <1>10, DropIs DEF Held
  <2>2. \A x \in Range(mem) : ~Failed(log[x]) => x \in Range(Front(mem))
    BY <2>1, DropLeaves DEF Held
  <2>3. Kept' = {n \in Range(Front(mem)) : ~Silent(log[n])}
    BY <1>6, <1>10 DEF Kept
  <2>4. Opens(log, {n \in Range(Front(mem)) : ~Silent(log[n])}) = Open
    BY <2>1, DropPairs DEF Held
  <2>5. Open' = Open
    BY <1>6, <2>3, <2>4 DEF Open
  <2>6. \A a \in Kept' : a \in Kept
    BY <2>1, <2>3 DEF Kept
  <2>7. Claimed' \subseteq Claimed
    <3>1. Given(log', {}) = {}
      BY DEF Given
    <3>2. Range(run'.out) \ DOMAIN store'.up = {}
      BY <1>6, <1>7
    <3> QED
      BY <2>5, <3>1, <3>2 DEF Claimed
  <2>8. IInv /\ Remembers /\ Routed
    BY DEF Held
  <2>9. \A a \in Kept' : Made(log', a) \cap Claimed' # {} =>
          a \in Kept /\ Made(log', a) \cap Claimed' \subseteq Claimed
    BY <2>6, <2>7
  <2>10. Routed'
    BY <1>1, <1>8, <1>10, <2>2, <2>8, <2>9, RoutedStays
  <2>11. Saving'
    BY <1>1, <1>6, <1>7 DEF Held, Saving
  <2> QED
    BY <2>10, <2>11
<1>11. mem \o <<>> = mem
  BY <1>5
<1> QED
  BY <1>3, <1>4, <1>9, <1>10, <1>11

LEMMA SettleLoads ==
  ASSUME Held, Pairs', Settle
  PROVE  Routed' /\ Saving'
<1> DEFINE unsaved == Within(mem, Range(store.writes))
<1>1. /\ UNCHANGED <<log, mem, store, spent>> /\ run.out = <<>>
         /\ run.phase \in {"closing", "settle"}
      /\ run' = IF run.phase = "closing" /\ unsaved # <<>>
                THEN [run EXCEPT !.phase = "settle", !.out = unsaved]
                ELSE Idle
  BY DEF Settle, Ready
<1>2. unsaved \in Seq(DOMAIN log) /\ Range(unsaved) = Range(store.writes)
  <2>1. mem \in Seq(DOMAIN log) /\ Range(store.writes) \subseteq Range(mem)
    BY Facts DEF Held, Pairs, Steered
  <2>2. unsaved \in Seq(DOMAIN log) /\ Range(unsaved) = Range(mem) \cap Range(store.writes)
    BY <2>1, WithinKeeps
  <2> HIDE DEF unsaved
  <2> QED
    BY <2>1, <2>2
<1> HIDE DEF unsaved
<1>3. Range(<<>>) = {}
  BY DEF Range
<1>4. Grows(<<>>)
  BY <1>1, Facts, SameGrows DEF Held
<1>5. Range(run'.out) \subseteq DOMAIN store.up
  <2>1. Range(store.writes) \subseteq DOMAIN store.up
    BY RoutesAre DEF Held
  <2>2. CASE run' = [run EXCEPT !.phase = "settle", !.out = unsaved]
    <3>1. run'.out = unsaved
      BY <2>2, RunIs DEF Held
    <3> QED
      BY <1>2, <2>1, <3>1
  <2>3. CASE run' = Idle
    BY <1>3, <2>3 DEF Idle
  <2> QED
    BY <1>1, <2>2, <2>3
<1>6. Routed'
  BY <1>1, <1>4, <1>5, RoutedHere DEF Held
<1>7. Saving'
  <2>1. CASE run.phase = "closing" /\ unsaved # <<>>
    <3>1. run'.phase = "settle" /\ run'.out = unsaved /\ run'.failing = run.failing
      BY <1>1, <2>1, RunIs DEF Held
    <3>2. store.writes # <<>>
      BY <1>2, <1>3, <2>1, EmptyRange
    <3>3. \A n \in Range(store.writes) : Range(store.writes) = {n}
      BY <3>2 DEF Held, Saving
    <3> QED
      BY <1>1, <1>2, <3>1, <3>2, <3>3 DEF Held, Saving
  <2>2. CASE ~(run.phase = "closing" /\ unsaved # <<>>)
    <3>1. run' = Idle
      BY <1>1, <2>2
    <3>2. run'.phase = "idle" /\ run'.out = <<>> /\ ~run'.failing
      BY <3>1 DEF Idle
    <3>3. Range(store.writes) = {}
      BY <1>1, <1>2, <1>3, <2>2 DEF Held, Saving
    <3>4. store.writes = <<>>
      <4>1. store.writes \in Seq(DOMAIN store.up)
        BY DEF Held, IInv, Filed, Tree
      <4> QED
        BY <3>3, <4>1, EmptyRange
    <3> QED
      BY <1>1, <1>3, <3>2, <3>4 DEF Saving
  <2> QED
    BY <2>1, <2>2
<1> QED
  BY <1>6, <1>7

-----------------------------------------------------------------------------
(* What is saved and loaded keeps the pairing.                             *)

\* A message whose append failed is saved: every way is as it was.
LEMMA AgainRoutes ==
  ASSUME NEW s, Tree(s), NEW m \in Nat, DOMAIN s.up \subseteq 1..m, NEW n \in Range(s.writes),
         NEW fault \in {"none", "before", "after"}, NEW t, t = Saved(s, n, fault), Tree(t)
  PROVE  \A k \in Live(s).file \cup {0} : Route(t, k) = Route(s, k)
<1>1. n \in DOMAIN s.up /\ s.file \subseteq DOMAIN s.up
  BY DEF Tree, Range
<1>2. Changes(s, n, fault, t)
  BY SavedIs
<1>3. DOMAIN t.up = DOMAIN s.up /\ \A k \in DOMAIN s.up : t.up[k] = s.up[k]
  BY <1>1, <1>2 DEF Changes
<1>4. /\ Live(s).file = s.file \cup Range(s.writes) /\ Live(s).up = s.up /\ Stands(Live(s), m)
      /\ Live(s).file \subseteq DOMAIN s.up
  BY LiveIs
<1>5. Live(t).file = t.file \cup Range(t.writes) /\ Live(t).up = t.up /\ Stands(Live(t), m)
  BY <1>3, LiveIs
<1>6. Live(t).file = Live(s).file
  BY <1>2, <1>4, <1>5 DEF Changes
<1>7. \A k \in Live(s).file \cup {0} : Path(Live(t), k) = Path(Live(s), k)
  BY <1>3, <1>4, <1>5, <1>6, PathStays
<1> QED
  BY <1>7 DEF Route

\* A new message is saved: it is at the end of the way to the last one.
LEMMA NewRoute ==
  ASSUME NEW s, Tree(s), NEW m \in Nat, DOMAIN s.up \subseteq 1..m,
         s.last \in Live(s).file \cup {0}, NEW n \in 1..m, Newer(s, n),
         NEW fault \in {"none", "before", "after"}, NEW t, t = Saved(s, n, fault), Tree(t)
  PROVE  /\ \A k \in Live(s).file \cup {0} : Route(t, k) = Route(s, k)
         /\ Route(t, n) = Route(s, s.last) \cup {n}
<1>1. n \notin DOMAIN s.up /\ Range(s.writes) \subseteq DOMAIN s.up /\ n \in Nat \ {0}
      /\ s.file \subseteq DOMAIN s.up
  <2>1. n \notin DOMAIN s.up
    BY DEF Newer
  <2> QED
    BY <2>1 DEF Tree, Range
<1>2. Changes(s, n, fault, t)
  BY SavedIs
<1>3. /\ DOMAIN t.up = DOMAIN s.up \cup {n} /\ (\A k \in DOMAIN s.up : t.up[k] = s.up[k])
      /\ t.up[n] = s.last
  BY <1>1, <1>2 DEF Changes
<1>4. /\ Live(s).file = s.file \cup Range(s.writes) /\ Live(s).up = s.up /\ Stands(Live(s), m)
      /\ Live(s).file \subseteq DOMAIN s.up
  BY LiveIs
<1>5. Live(t).file = t.file \cup Range(t.writes) /\ Live(t).up = t.up /\ Stands(Live(t), m)
  <2>1. DOMAIN t.up \subseteq 1..m
    BY <1>3
  <2> QED
    BY <2>1, LiveIs
<1>6. Live(t).file = Live(s).file \cup {n}
  BY <1>1, <1>2, <1>4, <1>5 DEF Changes
<1>7. \A k \in Live(s).file \cup {0} : Path(Live(t), k) = Path(Live(s), k)
  <2>1. \A k \in DOMAIN s.up : s.up[k] # n
    <3>1. \A k \in DOMAIN s.up : s.up[k] \in Nat /\ s.up[k] < k /\ k < n /\ k \in Nat
      BY DEF Tree, Newer
    <3> QED
      BY <1>1, <3>1
  <2> QED
    BY <1>3, <1>4, <1>5, <1>6, <2>1, PathStays
<1>8. Path(Live(t), n) = Append(Path(Live(s), s.last), n)
  <2>1. Path(Live(t), n)
        = Append(Path(Live(t), IF Live(t).up[n] \in Live(t).file THEN Live(t).up[n] ELSE 0), n)
    BY <1>5, <1>6, PathIs DEF Stands
  <2>2. (IF Live(t).up[n] \in Live(t).file THEN Live(t).up[n] ELSE 0) = s.last
    BY <1>3, <1>5, <1>6
  <2> QED
    BY <1>7, <2>1, <2>2
<1>9. Route(t, n) = Route(s, s.last) \cup {n}
  <2>1. Path(Live(s), s.last) \in Seq(1..m)
    <3>1. Path(Live(s), s.last) \in Seq(DOMAIN s.up)
      BY LiveIs
    <3> QED
      BY <3>1, SeqMonotonic
  <2>2. Range(Append(Path(Live(s), s.last), n)) = Range(Path(Live(s), s.last)) \cup {n}
    BY <2>1, AppendRange
  <2> QED
    BY <1>8, <2>2 DEF Route
<1>10. \A k \in Live(s).file \cup {0} : Route(t, k) = Route(s, k)
  BY <1>7 DEF Route
<1> QED
  BY <1>9, <1>10

\* The answer whose call a published result is of is in the history.
LEMMA AnswerIsKept ==
  ASSUME Held, NEW n \in Range(run.out), IsResult(log, n)
  PROVE  \E a \in Kept : log[n].of \in Made(log, a)
<1>1. CASE n \in Range(mem)
  <2>1. n \in Kept
    BY <1>1 DEF Kept, Silent, Failed, IsResult
  <2>2. Orderly(log, Kept)
    BY DEF Held, Pairs, InOrder, Laid
  <2> QED
    BY <2>1, <2>2 DEF Orderly, Answering
<1>2. CASE n \notin Range(mem)
  <2>1. n \in Coming
    BY <1>2 DEF Coming
  <2>2. Fits(n)
    BY <2>1 DEF Held, Pairs, Fitting
  <2>3. log[n].of \in Open
    BY <2>2 DEF Fits, Silent, Failed, IsResult
  <2> QED
    BY <2>3, GivenIs DEF Open
<1> QED
  BY <1>1, <1>2

\* A new message is saved.
LEMMA RoutedSaves ==
  ASSUME Held, Pairs', NEW n, NEW ms, Received(n, ms), n \notin DOMAIN store.up, Newer(store, n),
         NEW new, Grows(new), NEW fault \in {"none", "before", "after"},
         store' = Saved(store, n, fault), Tree(store'), Range(ms) \subseteq Range(mem'),
         Kept' = Heard(ms), Open' = Opens(log, Heard(ms)),
         \A c \in Given(log', Range(run'.out) \ DOMAIN store'.up) :
           c \in Given(log, Range(run.out) \ DOMAIN store.up) /\ ~Failed(log[n]),
         run.failing => fault = "none" /\ Failed(log[n])
  PROVE  Routed'
<1> DEFINE N == {store.tip, store.last} \cup Range(store.writes)
           R == Route(store, store.last)
<1>1. IInv /\ Remembers /\ Numbered /\ Pairs /\ Clean /\ Routed /\ Saving
  BY DEF Held
<1>2. /\ DOMAIN store.up \subseteq DOMAIN log /\ DOMAIN store.up \subseteq Nat
      /\ store.file \subseteq DOMAIN store.up /\ Range(store.writes) \subseteq DOMAIN store.up
      /\ \A k \in N : k \in Live(store).file \cup {0} /\ Route(store, k) \subseteq DOMAIN store.up
      /\ Bases \subseteq N
  BY <1>1, RoutesAre
<1>3. /\ ms \in Seq(DOMAIN log) /\ Range(ms) = Range(mem) \cup {n} /\ n \in DOMAIN log
      /\ Heard(ms) = IF Silent(log[n]) THEN Kept ELSE Kept \cup {n}
  BY <1>1, ReceivedIs
<1>4. /\ n \in Range(mem) \/ Silent(log[n]) => Open' = Open
      /\ n \notin Range(mem) /\ ~Silent(log[n]) /\ IsResult(log, n) => Open' = Open \ {log[n].of}
      /\ n \notin Range(mem) /\ ~Silent(log[n]) /\ ~IsResult(log, n) =>
           Open = {} /\ Open' = Made(log, n)
  BY <1>1, ReceivedIs
<1>5. \A x \in DOMAIN log : log'[x] = log[x] /\ Made(log', x) = Made(log, x)
  <2>1. \A x \in DOMAIN log : log'[x] = log[x]
    BY DEF Grows
  <2> QED
    BY <2>1 DEF Made
<1>6. n \in Range(run.out)
  BY <1>1, Facts DEF Received, Range
<1>7. DOMAIN log = 1..Len(log) /\ Len(log) \in Nat /\ \A x \in DOMAIN log : log[x] \in Message
  BY <1>1, Facts
<1>8. Changes(store, n, fault, store')
  BY <1>1, SavedIs DEF IInv, Filed
<1>9. /\ \A k \in N : Route(store', k) = Route(store, k)
      /\ Route(store', n) = R \cup {n}
  <2>1. Tree(store) /\ DOMAIN store.up \subseteq 1..Len(log)
    BY <1>1, <1>7 DEF IInv, Filed
  <2>2. store.last \in Live(store).file \cup {0} /\ n \in 1..Len(log)
    BY <1>2, <1>3, <1>7
  <2>3. /\ \A k \in Live(store).file \cup {0} : Route(store', k) = Route(store, k)
        /\ Route(store', n) = Route(store, store.last) \cup {n}
    BY <1>7, <2>1, <2>2, NewRoute
  <2> QED
    BY <1>2, <2>3
<1>10. R \subseteq DOMAIN store.up /\ R \subseteq Nat /\ R \subseteq DOMAIN log /\ n \in Nat
       /\ \A x \in R : x < n
  <2>1. R \subseteq DOMAIN store.up
    BY <1>2
  <2> HIDE DEF R
  <2> QED
    BY <1>2, <1>3, <1>7, <2>1 DEF Newer
<1>11. store.writes # <<>> => run.failing /\ fault = "none" /\ Failed(log[n])
  BY <1>1 DEF Saving
<1>12. Failed(log[n]) => ~IsResult(log, n) /\ Made(log, n) = {}
  <2>1. Failed(log[n]) => log[n].kind = "assistant" /\ log[n].calls = 0
    BY <1>1, <1>3 DEF Clean, Failed
  <2> QED
    BY <1>3, <1>7, <2>1, MadeIs DEF IsResult
<1> HIDE DEF N, R
<1>13. \A k \in N : Sound(log', Range(mem'), Route(store, k))
  <2> TAKE k \in N
  <2>1. Sound(log, Range(mem), Route(store, k))
    BY <1>1 DEF Routed, N
  <2>2. \A x \in Route(store, k) : log'[x] = log[x]
    BY <1>2, <1>5
  <2>3. \A x \in Route(store, k) : x \in Range(mem) /\ ~Failed(log[x]) => x \in Range(mem')
    BY <1>3
  <2> QED
    BY <2>1, <2>2, <2>3, SoundStays
<1>14. Sound(log', Range(mem'), R \cup {n})
  <2>1. Sound(log', Range(mem'), R)
    BY <1>13 DEF N, R
  <2>2. n \in Range(mem')
    BY <1>3
  <2>3. ASSUME IsResult(log', n)
        PROVE  \E a \in R : log'[n].of \in Made(log', a) /\ Clear(log', R, a)
    <3>1. IsResult(log, n) /\ log'[n] = log[n]
      BY <1>3, <1>5, <2>3 DEF IsResult
    <3>2. PICK a \in Kept : log[n].of \in Made(log, a)
      BY <1>6, <3>1, AnswerIsKept
    <3>3. store.writes = <<>>
      BY <1>11, <1>12, <3>1
    <3>4. log[n].of \in Claimed
      <4>1. n \in Range(run.out) \ DOMAIN store.up
        BY <1>6
      <4> QED
        BY <3>1, <4>1, GivenIs DEF Claimed
    <3>5. Clear(log, R, a)
      BY <1>1, <3>2, <3>3, <3>4 DEF Routed, Bases, R
    <3>6. a \in R /\ Made(log', a) = Made(log, a)
      BY <1>5, <1>10, <3>5 DEF Clear
    <3>7. Clear(log', R, a)
      BY <1>5, <1>10, <3>5 DEF Clear
    <3> QED
      BY <3>1, <3>2, <3>6, <3>7
  <2> QED
    BY <1>10, <2>1, <2>2, <2>3, SoundAdds
<1>15. \A k \in {store'.tip, store'.last} \cup Range(store'.writes) : k = n \/ k \in N
  BY <1>8 DEF Changes, N
<1>16. \A k \in {store'.tip, store'.last} \cup Range(store'.writes) :
         Sound(log', Range(mem'), Route(store', k))
  BY <1>9, <1>13, <1>14, <1>15
<1>17. ASSUME NEW w \in Range(store'.writes), NEW x \in store'.file, w < x
       PROVE  Failed(log'[x])
  <2>1. (w = n \/ w \in Range(store.writes)) /\ (x = n \/ x \in store.file)
    BY <1>8 DEF Changes
  <2>2. CASE w = n
    <3>1. x = n \/ x < n
      BY <1>2, <2>1 DEF Newer
    <3>2. x \in Nat
      BY <1>2, <1>10, <2>1
    <3> QED
      BY <1>10, <1>17, <2>2, <3>1, <3>2
  <2>3. CASE w \in Range(store.writes) /\ x = n
    <3>1. store.writes # <<>>
      BY <2>3 DEF Range
    <3> QED
      BY <1>3, <1>5, <1>11, <2>3, <3>1
  <2>4. CASE w \in Range(store.writes) /\ x \in store.file
    BY <1>1, <1>2, <1>5, <1>17, <2>4 DEF Routed
  <2> QED
    BY <2>1, <2>2, <2>3, <2>4
<1>18. ASSUME NEW b \in Bases', NEW a \in Kept', NEW c \in Made(log', a) \cap Claimed'
       PROVE  Clear(log', Route(store', b), a)
  <2>1. a \in Kept \/ (a = n /\ ~Silent(log[n]))
    BY <1>3
  <2>2. a \in DOMAIN log /\ c \in Made(log, a)
    <3>1. Kept \subseteq DOMAIN log
      BY <1>1, KeptFacts
    <3> QED
      BY <1>3, <1>5, <1>18, <2>1, <3>1
  <2>3. c \in Open' \/ (c \in Given(log, Range(run.out) \ DOMAIN store.up) /\ ~Failed(log[n]))
    BY <1>18 DEF Claimed
  <2>4. c \in Open' => c \in Open \/ (~Silent(log[n]) /\ c \in Made(log, n))
    BY <1>4
  <2>5. a # n => ~(~Silent(log[n]) /\ c \in Made(log, n))
    <3>1. SUFFICES ASSUME a # n, ~Silent(log[n]), c \in Made(log, n) PROVE FALSE
      OBVIOUS
    <3>2. n \in Kept'
      BY <1>3, <3>1
    <3>3. OneTurn(log', Kept')
      BY DEF Pairs, InOrder, Laid, Orderly
    <3>4. log[a].turn = c[1] /\ log[n].turn = c[1]
      BY <1>3, <1>7, <2>2, <3>1, MadeIs
    <3>5. Made(log', a) # {} /\ Made(log', n) # {} /\ log'[a].turn = log'[n].turn
      BY <1>3, <1>5, <2>2, <3>1, <3>4
    <3> QED
      BY <3>1, <3>2, <3>3, <3>5 DEF OneTurn
  <2>6. a # n => a \in Kept /\ c \in Made(log, a) \cap Claimed
    BY <2>1, <2>2, <2>3, <2>4, <2>5 DEF Claimed
  <2>7. CASE store.writes # <<>>
    <3>1. fault = "none" /\ Failed(log[n])
      BY <1>11, <2>7
    <3>2. a # n
      BY <1>12, <2>2, <3>1
    <3>3. Range(store'.writes) = Range(store.writes)
      BY <1>2, <1>8, <3>1, ZenonT(40) DEF Changes
    <3>4. Bases = Range(store.writes)
      BY <2>7 DEF Bases
    <3>5. store'.writes # <<>>
      <4>1. Range(store.writes) # {}
        BY <1>1, <2>7, EmptyRange DEF IInv, Filed, Tree
      <4>2. Range(<<>>) = {}
        BY DEF Range
      <4> QED
        BY <3>3, <4>1, <4>2
    <3>6. b \in Bases
      BY <3>3, <3>4, <3>5 DEF Bases
    <3>7. Clear(log, Route(store, b), a)
      BY <1>1, <2>6, <3>2, <3>6 DEF Routed
    <3>8. Route(store', b) = Route(store, b) /\ Route(store, b) \subseteq DOMAIN log
      BY <1>2, <1>9, <3>6
    <3> QED
      BY <1>5, <3>7, <3>8 DEF Clear
  <2>8. CASE store.writes = <<>>
    <3>1. b = n
      <4>1. Range(store.writes) = {} /\ store'.last = n
        BY <1>8, <2>8 DEF Changes, Range
      <4>2. Range(store'.writes) \subseteq {n}
        BY <1>8, <4>1 DEF Changes
      <4> QED
        BY <4>1, <4>2 DEF Bases
    <3>2. CASE a = n
      BY <1>9, <1>10, <3>1, <3>2 DEF Clear
    <3>3. CASE a # n
      <4>1. ~Failed(log[n])
        <5>1. SUFFICES ASSUME Failed(log[n]) PROVE FALSE
          OBVIOUS
        <5>2. Open = {}
          BY <1>1, <1>6, <2>8, <5>1 DEF Saving
        <5> QED
          BY <2>3, <2>4, <2>5, <3>3, <5>1, <5>2
      <4>2. Clear(log, R, a)
        BY <1>1, <2>6, <2>8, <3>3 DEF Routed, Bases, R
      <4> QED
        BY <1>3, <1>5, <1>9, <1>10, <3>1, <4>1, <4>2 DEF Clear
    <3> QED
      BY <3>2, <3>3
  <2> QED
    BY <2>7, <2>8
<1>19. \A b \in Bases', a \in Kept' : Made(log', a) \cap Claimed' # {} =>
         Clear(log', Route(store', b), a)
  BY <1>18
<1> QED
  BY <1>16, <1>17, <1>19 DEF Routed

\* What was left unfinished is saved at the end of a run.
LEMMA SettledLoads ==
  ASSUME Held, Tree(store'), run.phase = "settle", run.out # <<>>, NEW n, n = Head(run.out),
         store' = Saved(store, n, "none"), mem' = mem, UNCHANGED log,
         run' = [run EXCEPT !.out = Tail(run.out)], spent'.faults = spent.faults
  PROVE  Routed' /\ Saving'
<1>1. /\ Tree(store) /\ DOMAIN store.up \subseteq 1..Len(log) /\ Len(log) \in Nat
      /\ run.out \in Seq(DOMAIN log)
  BY Facts DEF Held, IInv, Filed
<1>2. /\ run'.out = Tail(run.out) /\ run'.failing = run.failing /\ run'.phase = "settle"
  BY RunIs DEF Held
<1>3. Range(run.out) = {n} \cup Range(Tail(run.out)) /\ n \notin Range(Tail(run.out))
  <2>1. IsInjective(run.out)
    BY OutIsInjective DEF Held
  <2> QED
    BY <1>1, <2>1, TailIs
<1>4. Range(run.out) \subseteq Range(store.writes) /\ n \in Range(store.writes)
  BY <1>3 DEF Held, Remembers, Unfinished, Again
<1>5. /\ store.writes # <<>> /\ run.failing /\ Range(store.writes) = {n}
  <2>1. store.writes # <<>>
    BY <1>4 DEF Range
  <2> QED
    BY <1>4, <2>1 DEF Held, Saving
<1>6. Range(run'.out) = {}
  BY <1>2, <1>3, <1>4, <1>5
<1>7. Changes(store, n, "none", store')
  BY <1>1, SavedIs
<1>8. Range(store'.writes) = {} /\ store'.writes = <<>>
  <2>1. Range(store'.writes) = {}
    BY <1>5, <1>7 DEF Changes
  <2>2. store'.writes \in Seq(DOMAIN store'.up)
    BY DEF Tree
  <2> QED
    BY <2>1, <2>2, EmptyRange
<1>9. store'.last = n /\ store'.tip \in {n, store.tip}
  BY <1>7 DEF Changes
<1>10. \A k \in Live(store).file \cup {0} : Route(store', k) = Route(store, k)
  BY <1>1, <1>4, AgainRoutes
<1> DEFINE N == {store.tip, store.last} \cup Range(store.writes)
<1>11. \A k \in N : Route(store', k) = Route(store, k) /\ Sound(log, Range(mem), Route(store, k))
  <2>1. \A k \in N : k \in Live(store).file \cup {0}
    BY RoutesAre DEF Held
  <2>2. \A k \in N : Sound(log, Range(mem), Route(store, k))
    BY DEF Held, Routed
  <2> QED
    BY <1>10, <2>1, <2>2
<1>12. {store'.tip, store'.last} \cup Range(store'.writes) \subseteq N /\ n \in N
  BY <1>4, <1>8, <1>9
<1>13. Bases' = {n} /\ n \in Bases
  BY <1>4, <1>5, <1>8, <1>9 DEF Bases
<1>14. Kept' = Kept /\ Open' = Open
  BY Kept0
<1>15. Claimed' \subseteq Claimed
  <2>1. Given(log', {}) = {} /\ Range(run'.out) \ DOMAIN store'.up = {}
    BY <1>6 DEF Given
  <2> QED
    BY <1>14, <2>1 DEF Claimed
<1> HIDE DEF N
<1>16. \A a \in Kept' : Made(log', a) \cap Claimed' # {} => Clear(log', Route(store', n), a)
  <2>1. \A a \in Kept : Made(log, a) \cap Claimed # {} => Clear(log, Route(store, n), a)
    BY <1>13 DEF Held, Routed
  <2>2. Route(store', n) = Route(store, n)
    BY <1>11, <1>12
  <2>3. \A a \in Kept : Made(log, a) \cap Claimed' # {} => Clear(log, Route(store', n), a)
    BY <1>15, <2>1, <2>2
  <2> QED
    BY <1>14, <2>3
<1>17. \A k \in {store'.tip, store'.last} \cup Range(store'.writes) :
         Sound(log', Range(mem'), Route(store', k))
  <2>1. \A k \in N : Sound(log, Range(mem), Route(store', k))
    BY <1>11
  <2> QED
    BY <1>12, <2>1
<1>18. Routed'
  BY <1>8, <1>13, <1>16, <1>17 DEF Routed
<1>19. Saving'
  BY <1>2, <1>5, <1>6, <1>8 DEF Held, Saving
<1> QED
  BY <1>18, <1>19

\* A message is published that was not tried before.
LEMMA FirstTime ==
  ASSUME Held, run.out # <<>>, run.phase \notin Again, NEW n, n = Head(run.out)
  PROVE  n \notin DOMAIN store.up /\ Newer(store, n) /\ n \in Range(run.out)
<1>1. run.out \in Seq(DOMAIN log)
  BY Facts DEF Held
<1>2. n \in Range(run.out) /\ 1 \in DOMAIN run.out /\ n = run.out[1]
  BY <1>1 DEF Range
<1>3. n \notin DOMAIN store.up
  BY <1>2 DEF Held, Remembers, Unfinished
<1>4. Newer(store, n)
  BY <1>2, <1>3 DEF Held, IInv, Filed, Outgoing
<1> QED
  BY <1>2, <1>3, <1>4

\* It is saved.
LEMMA SavedLoads ==
  ASSUME Held, Pairs', Tree(store'), run.phase \notin Again \cup {"closing", "idle"},
         run.out # <<>>,
         NEW n, n = Head(run.out), NEW ms, Received(n, ms),
         store' = Saved(store, n, "none"), mem' = ms, UNCHANGED log,
         run' = [run EXCEPT !.out = Tail(run.out)], spent'.faults = spent.faults
  PROVE  Routed' /\ Saving'
<1>1. /\ Tree(store) /\ log \in Seq(Message) /\ run.out \in Seq(DOMAIN log) /\ IInv
  BY Facts DEF Held, IInv, Filed
<1>2. /\ run'.out = Tail(run.out) /\ run'.failing = run.failing /\ run'.phase = run.phase
  BY <1>1, RunIs
<1>3. /\ Range(run.out) = {n} \cup Range(Tail(run.out)) /\ n \notin Range(Tail(run.out))
  <2>1. IsInjective(run.out)
    BY OutIsInjective DEF Held
  <2> QED
    BY <1>1, <2>1, TailIs
<1>4. n \notin DOMAIN store.up /\ Newer(store, n)
  BY FirstTime
<1>5. Kept' = Heard(ms) /\ Open' = Opens(log, Heard(ms))
  BY <1>2, RestComes DEF Held
<1>6. Changes(store, n, "none", store')
  BY <1>1, SavedIs
<1>7. DOMAIN store.up \subseteq DOMAIN store'.up /\ Range(store'.writes) = Range(store.writes)
  <2>1. Range(store.writes) \subseteq DOMAIN store.up
    BY <1>1 DEF Tree, Range
  <2>2. /\ DOMAIN store'.up = DOMAIN store.up \cup {n}
        /\ Range(store'.writes) = Range(store.writes) \ {n}
    BY <1>6 DEF Changes
  <2> QED
    BY <1>4, <2>1, <2>2
<1>8. Failed(log[n]) => Range(run'.out) = {}
  <2>1. Failed(log[n]) => Range(run.out) = {n}
    BY <1>3 DEF Held, Saving
  <2> QED
    BY <1>2, <1>3, <2>1
<1>9. \A m \in Range(run'.out) : ~Failed(log[m])
  <2> SUFFICES ASSUME NEW m \in Range(run'.out), Failed(log[m])
               PROVE  FALSE
    OBVIOUS
  <2>1. m \in Range(run.out)
    BY <1>2, <1>3
  <2>2. Range(run.out) = {m}
    BY <2>1 DEF Held, Saving
  <2> QED
    BY <1>2, <1>3, <2>2
<1>10. \A c \in Given(log', Range(run'.out) \ DOMAIN store'.up) :
         c \in Given(log, Range(run.out) \ DOMAIN store.up) /\ ~Failed(log[n])
  <2>1. TAKE c \in Given(log', Range(run'.out) \ DOMAIN store'.up)
  <2>2. PICK x \in Range(run'.out) \ DOMAIN store'.up : IsResult(log, x) /\ log[x].of = c
    BY <2>1, GivenIs
  <2>3. x \in Range(run.out) \ DOMAIN store.up
    BY <1>2, <1>3, <1>7
  <2> QED
    BY <1>8, <2>2, <2>3, GivenIs
<1>11. run.failing => Failed(log[n])
  <2>1. run.failing => run.phase = "ended"
    BY DEF Held, Fails, Again
  <2> QED
    BY <1>3, <2>1 DEF Held, Saving
<1>12. Grows(<<>>)
  BY <1>1, SameGrows
<1>13. Routed'
  <2>1. Range(ms) \subseteq Range(mem')
    OBVIOUS
  <2> QED
    BY <1>4, <1>5, <1>10, <1>11, <1>12, <2>1, RoutedSaves
<1>14. Saving'
  <2>1. store'.writes # <<>> => store.writes # <<>>
    <3>1. store'.writes \in Seq(DOMAIN store'.up)
      BY DEF Tree
    <3>2. Range(<<>>) = {}
      BY DEF Range
    <3> QED
      BY <1>7, <3>1, <3>2, EmptyRange
  <2>2. /\ store'.writes # <<>> => run'.failing /\ \A m, k \in Range(store'.writes) : m = k
        /\ run'.failing => spent'.faults > 0
    BY <1>2, <1>7, <2>1 DEF Held, Saving
  <2>3. run'.phase # "settle" /\ run'.phase # "closing"
    BY <1>2 DEF Again
  <2>4. \A m \in Range(run'.out) : ~Failed(log'[m])
    BY <1>9
  <2>5. run'.failing => Range(run'.out) = {}
    BY <1>2, <1>8, <1>11
  <2> QED
    BY <2>2, <2>3, <2>4, <2>5 DEF Saving
<1> QED
  BY <1>13, <1>14

\* It cannot be saved: the run ends with a failed answer.
LEMMA UnsavedLoads ==
  ASSUME Held, Pairs', Tree(store'), run.phase \notin Again \cup {"closing", "idle"},
         run.out # <<>>,
         NEW n, n = Head(run.out), NEW ms, Received(n, ms), ~run.failing,
         NEW fault \in {"before", "after"}, store' = Saved(store, n, fault),
         NEW m \in Message, Failed(m), Silent(m), Logs(<<m>>), mem' = Append(ms, Len(log) + 1),
         run' = [run EXCEPT !.phase = "ended", !.out = <<Len(log) + 1>>, !.error = FALSE,
                            !.failing = TRUE],
         spent'.faults = spent.faults + 1
  PROVE  Routed' /\ Saving'
<1> DEFINE failure == Len(log) + 1
<1>1. /\ Tree(store) /\ log \in Seq(Message) /\ run.out \in Seq(DOMAIN log) /\ IInv
      /\ DOMAIN log = 1..Len(log) /\ Len(log) \in Nat
  BY Facts DEF Held, IInv, Filed
<1>2. Grows(<<m>>) /\ failure \in DOMAIN log' /\ log'[failure] = m
  BY <1>1, OneMore
<1>3. /\ ms \in Seq(DOMAIN log) /\ Laid(log, Heard(ms)) /\ n \in DOMAIN log
  BY ReceivedIs DEF Held
<1>4. n \notin DOMAIN store.up /\ Newer(store, n)
  BY FirstTime
<1>5. \A x \in Range(ms) : x \in DOMAIN log /\ log'[x] = log[x] /\ x # failure
  <2>1. Range(ms) \subseteq DOMAIN log
    BY <1>3, RangeOfSeq
  <2>2. failure \notin DOMAIN log
    BY <1>1
  <2> QED
    BY <1>2, <2>1, <2>2 DEF Grows
<1> HIDE DEF failure
<1>6. Range(mem') = Range(ms) \cup {failure}
  <2>1. ms \in Seq(DOMAIN log')
    BY <1>1, <1>2, <1>3, IdsStay
  <2>2. mem' = Append(ms, failure)
    BY DEF failure
  <2> QED
    BY <1>2, <2>1, <2>2, AppendRange
<1>7. Kept' = Heard(ms)
  <2>1. Silent(log'[failure])
    BY <1>2
  <2> QED
    BY <1>5, <1>6, <2>1 DEF Kept, Heard
<1>8. Open' = Opens(log, Heard(ms))
  <2>1. \A x \in Heard(ms) : log'[x] = log[x]
    BY <1>5 DEF Heard
  <2>2. Opens(log', Heard(ms)) = Opens(log, Heard(ms))
    BY <2>1, SameHistory
  <2> QED
    BY <1>7, <2>2 DEF Open
<1>9. /\ run'.phase = "ended" /\ run'.out = <<failure>> /\ run'.failing
  <2>1. run'.phase = "ended" /\ run'.out = <<Len(log) + 1>> /\ run'.failing = TRUE
    BY <1>1, RunIs
  <2> QED
    BY <2>1 DEF failure
<1>10. Range(run'.out) = {failure}
  BY <1>9 DEF Range
<1>11. Failed(log'[failure]) /\ ~IsResult(log', failure)
  BY <1>2 DEF Failed, IsResult
<1>12. \A c \in Given(log', Range(run'.out) \ DOMAIN store'.up) :
         c \in Given(log, Range(run.out) \ DOMAIN store.up) /\ ~Failed(log[n])
  <2>1. TAKE c \in Given(log', Range(run'.out) \ DOMAIN store'.up)
  <2>2. PICK x \in Range(run'.out) : IsResult(log', x)
    BY <2>1, GivenIs
  <2> QED
    BY <1>10, <1>11, <2>2
<1>13. Routed'
  <2>1. Range(ms) \subseteq Range(mem')
    BY <1>6
  <2>2. fault \in {"none", "before", "after"}
    OBVIOUS
  <2> QED
    BY <1>2, <1>4, <1>7, <1>8, <1>12, <2>1, <2>2, RoutedSaves
<1>14. \A x, y \in Range(store'.writes) : x = y
  <2>1. Changes(store, n, fault, store') /\ fault # "none"
    BY <1>1, SavedIs
  <2>2. Range(store'.writes) = Range(store.writes) \cup {n}
    BY <2>1 DEF Changes
  <2>3. Range(store.writes) = {}
    <3>1. store.writes = <<>>
      BY DEF Held, Saving
    <3> QED
      BY <3>1 DEF Range
  <2> QED
    BY <2>2, <2>3
<1>15. Saving'
  <2>1. spent'.faults > 0
    BY Facts DEF Budgets, Held
  <2>2. store'.writes # <<>>
    <3>1. Range(store'.writes) = Range(store.writes) \cup {n}
      <4>1. Changes(store, n, fault, store') /\ fault # "none"
        BY <1>1, SavedIs
      <4> QED
        BY <4>1 DEF Changes
    <3>2. Range(<<>>) = {}
      BY DEF Range
    <3> QED
      BY <3>1, <3>2
  <2> QED
    BY <1>9, <1>10, <1>11, <1>14, <2>1, <2>2 DEF Saving
<1> QED
  BY <1>13, <1>15

LEMMA PublishLoads ==
  ASSUME Held, Pairs', IInv', Loadable', Publish
  PROVE  Routed' /\ Saving'
<1> DEFINE n == Head(run.out)
           ms == IF n \in Range(mem) THEN mem ELSE Append(mem, n)
           failure == Len(log) + 1
           m == Answered(0, 0, IF run.cancelled THEN "aborted" ELSE "error", TRUE)
<1>1. Received(n, ms) /\ run.out # <<>>
  BY DEF Publish, Received
<1>2. PICK fault \in {"none", "before", "after"} :
        /\ store' = Saved(store, n, fault)
        /\ spent' = [spent EXCEPT !.faults = @ + (IF fault = "none" THEN 0 ELSE 1)]
        /\ \/ /\ fault = "none" \/ run.phase \in {"closing", "settle"}
              /\ mem' = ms /\ run' = [run EXCEPT !.out = Tail(run.out)] /\ UNCHANGED log
           \/ /\ fault # "none" /\ run.failing
           \/ /\ fault # "none" /\ run.phase = "flush"
           \/ /\ fault # "none" /\ ~run.failing
              /\ Logs(<<m>>) /\ mem' = Append(ms, failure)
              /\ run' = [run EXCEPT !.phase = "ended", !.out = <<failure>>, !.error = FALSE,
                                    !.failing = TRUE]
  BY DEF Publish
<1> HIDE DEF ms, m
<1>3. spent'.faults = IF fault = "none" THEN spent.faults ELSE spent.faults + 1
  BY <1>2, Facts DEF Budgets, Held
<1>4. spent.faults \in Nat /\ spent'.faults <= 1
  BY Facts DEF Budgets, Held, Loadable
<1>5. run.failing => fault = "none"
  <2>1. run.failing => spent.faults > 0
    BY DEF Held, Saving
  <2> QED
    BY <1>3, <1>4, <2>1
<1>6. Tree(store')
  BY DEF IInv, Filed
<1>7. run.phase \notin {"closing", "idle", "flush"}
  <2>1. run.phase # "closing" /\ run.phase # "idle"
    BY <1>1 DEF Held, Saving, Remembers, Unfinished
  <2>2. run.phase # "flush"
    <3> SUFFICES ASSUME run.phase = "flush" PROVE FALSE
      OBVIOUS
    <3>1. store.writes = <<>> /\ Range(run.out) \subseteq Range(store.writes)
      BY NothingUnfinished DEF Held, Remembers, Unfinished, Again
    <3>2. Range(<<>>) = {}
      BY DEF Range
    <3>3. run.out \in Seq(DOMAIN log)
      BY Facts DEF Held
    <3> QED
      BY <1>1, <3>1, <3>2, <3>3, EmptyRange
  <2> QED
    BY <2>1, <2>2
<1> HIDE DEF n
<1>8. CASE run.phase = "settle"
  <2>1. run.out \in Seq(DOMAIN log)
    BY Facts DEF Held
  <2>2. n \in Range(run.out)
    BY <1>1, <2>1 DEF n, Range
  <2>3. n \in Range(store.writes)
    BY <1>8, <2>2 DEF Held, Remembers, Unfinished, Again
  <2>4. run.failing
    <3>1. store.writes # <<>>
      BY <2>3 DEF Range
    <3> QED
      BY <3>1 DEF Held, Saving
  <2>5. fault = "none"
    BY <1>5, <2>4
  <2>6. ms = mem
    BY <2>3 DEF ms, Held, Pairs, Steered
  <2>7. mem' = mem /\ run' = [run EXCEPT !.out = Tail(run.out)] /\ UNCHANGED log
        /\ spent'.faults = spent.faults /\ store' = Saved(store, n, "none")
    BY <1>2, <1>3, <2>5, <2>6
  <2> QED
    BY <1>1, <1>6, <1>8, <2>7, SettledLoads DEF n
<1>9. CASE run.phase # "settle" /\ fault = "none"
  <2>1. mem' = ms /\ run' = [run EXCEPT !.out = Tail(run.out)] /\ UNCHANGED log
        /\ spent'.faults = spent.faults /\ store' = Saved(store, n, "none")
    BY <1>2, <1>3, <1>9
  <2>2. run.phase \notin Again \cup {"closing", "idle"}
    BY <1>7, <1>9 DEF Again
  <2>3. n = Head(run.out)
    BY DEF n
  <2> QED
    BY <1>1, <1>6, <2>1, <2>2, <2>3, SavedLoads
<1>10. CASE run.phase # "settle" /\ fault # "none"
  <2>1. /\ Logs(<<m>>) /\ mem' = Append(ms, failure) /\ ~run.failing
        /\ run' = [run EXCEPT !.phase = "ended", !.out = <<failure>>, !.error = FALSE,
                              !.failing = TRUE]
    BY <1>2, <1>5, <1>7, <1>10
  <2>2. run.phase \notin Again \cup {"closing", "idle"}
    BY <1>7, <1>10 DEF Again
  <2>3. n = Head(run.out) /\ fault \in {"before", "after"} /\ store' = Saved(store, n, fault)
        /\ spent'.faults = spent.faults + 1
    BY <1>2, <1>3, <1>10 DEF n
  <2>4. m \in Message /\ Silent(m) /\ Failed(m)
    BY Facts DEF m, Answered, Message, Answers, Failed, Silent, Held
  <2> QED
    BY <1>1, <1>6, <2>1, <2>2, <2>3, <2>4, UnsavedLoads
<1> QED
  BY <1>8, <1>9, <1>10

\* A way that an entry is missing on: what is left of it is behind that entry.
LEMMA CutPath ==
  ASSUME NEW m, NEW s, Stands(s, m), NEW t, Stands(t, m), NEW w \in 1..m,
         t.file = s.file \cup {w}, t.up = s.up
  PROVE  \A n \in s.file \cup {0} :
           \/ Path(s, n) = Path(t, n)
           \/ w < n /\ \A x \in Range(Path(s, n)) : w < x
<1> DEFINE Beyond(n) == w < n /\ \A x \in Range(Path(s, n)) : w < x
           T == {n \in Nat : n \in s.file \cup {0} => Path(s, n) = Path(t, n) \/ Beyond(n)}
<1>1. /\ m \in Nat /\ s.file \in SUBSET (1..m) /\ t.file \in SUBSET (1..m)
      /\ \A n \in s.file : s.up[n] \in Nat /\ s.up[n] < n
      /\ \A n \in t.file : t.up[n] \in Nat /\ t.up[n] < n
  BY DEF Stands
<1>2. /\ Path(s, 0) = <<>> /\ Path(t, 0) = <<>>
      /\ \A n \in s.file :
           Path(s, n) = Append(Path(s, IF s.up[n] \in s.file THEN s.up[n] ELSE 0), n)
      /\ \A n \in t.file :
           Path(t, n) = Append(Path(t, IF t.up[n] \in t.file THEN t.up[n] ELSE 0), n)
  BY <1>1, PathIs
<1>3. \A n \in s.file \cup {0} : Path(s, n) \in Seq(Nat)
  <2>1. TAKE n \in s.file \cup {0}
  <2>2. Path(s, n) \in Seq(s.file)
    BY <1>1, PathClimbs DEF Climbs
  <2>3. s.file \subseteq Nat
    BY <1>1
  <2> QED
    BY <2>2, <2>3, SeqMonotonic
<1>4. ASSUME NEW n \in Nat, \A k \in Nat : k < n => k \in T
      PROVE  n \in T
  <2> SUFFICES ASSUME n \in s.file
               PROVE  Path(s, n) = Path(t, n) \/ Beyond(n)
    BY <1>2
  <2> DEFINE p == s.up[n]
  <2>1. n \in t.file /\ t.up[n] = p /\ p \in Nat /\ p < n /\ n \in Nat /\ w \in Nat
    BY <1>1
  <2>2. CASE p \in s.file
    <3>1. p \in t.file /\ p \in s.file \cup {0}
      BY <2>2
    <3>2. Path(s, n) = Append(Path(s, p), n) /\ Path(t, n) = Append(Path(t, p), n)
      BY <1>2, <2>1, <2>2, <3>1
    <3>3. Path(s, p) = Path(t, p) \/ Beyond(p)
      BY <1>4, <2>1, <3>1
    <3>4. CASE Beyond(p)
      <4>1. Range(Path(s, n)) = Range(Path(s, p)) \cup {n}
        BY <1>3, <2>1, <3>1, <3>2, AppendRange
      <4>2. w < p /\ \A x \in Range(Path(s, p)) : w < x
        BY <3>4
      <4>3. w < n
        BY <2>1, <4>2
      <4> QED
        BY <4>1, <4>2, <4>3
    <3> QED
      BY <3>2, <3>3, <3>4
  <2>3. CASE p \notin s.file /\ p = w
    <3>1. Path(s, n) = Append(<<>>, n)
      BY <1>2, <2>3
    <3>2. Path(s, n) = <<n>>
      BY <3>1
    <3>3. Range(Path(s, n)) = {n}
      <4>1. DOMAIN <<n>> = {1} /\ <<n>>[1] = n
        OBVIOUS
      <4> QED
        BY <3>2, <4>1 DEF Range
    <3> QED
      BY <2>1, <2>3, <3>3
  <2>4. CASE p \notin s.file /\ p # w
    <3>1. p \notin t.file
      BY <2>4
    <3>2. Path(s, n) = Append(<<>>, n) /\ Path(t, n) = Append(<<>>, n)
      BY <1>2, <2>1, <2>4, <3>1
    <3> QED
      BY <3>2
  <2> QED
    BY <2>2, <2>3, <2>4
<1>5. \A n \in Nat : n \in T
  <2> HIDE DEF T
  <2> QED
    BY <1>4, Minimal
<1> QED
  BY <1>1, <1>5

\* What is on the way to the last entry of the file is in order, or it is all failed.
LEMMA LoadedInOrder ==
  ASSUME Held
  PROVE  Orderly(log, Range(Path(store, store.tip)))
<1> DEFINE P == Range(Path(store, store.tip))
<1>1. /\ Tree(store) /\ DOMAIN store.up \subseteq 1..Len(log) /\ Len(log) \in Nat
      /\ log \in Seq(Message) /\ DOMAIN log = 1..Len(log)
      /\ \A x \in DOMAIN log : log[x] \in Message
      /\ store.tip \in store.file \cup {0} /\ store.file \subseteq DOMAIN store.up
  BY Facts, SMTT(40) DEF Held, IInv, Filed, Tree
<1>2. /\ Live(store).file = store.file \cup Range(store.writes) /\ Live(store).up = store.up
      /\ Stands(store, Len(log)) /\ Stands(Live(store), Len(log))
      /\ (store.writes = <<>> => Live(store) = store)
      /\ Path(store, store.tip) \in Seq(DOMAIN store.up)
  BY <1>1, LiveIs
<1>3. P \subseteq DOMAIN store.up
  BY <1>2, RangeOfSeq
<1>4. \A x \in DOMAIN log : Failed(log[x]) => Made(log, x) = {} /\ ~IsResult(log, x)
  <2>1. TAKE x \in DOMAIN log
  <2>2. HAVE Failed(log[x])
  <2>3. log[x].kind = "assistant" /\ log[x].calls = 0
    BY <2>2 DEF Held, Clean, Failed
  <2>4. \A c \in Made(log, x) : log[x].calls # 0
    BY <1>1, MadeIs
  <2> QED
    BY <2>3, <2>4 DEF IsResult
<1>5. Range(Path(store, store.tip)) = Route(store, store.tip) \/ \A x \in P : Failed(log[x])
  <2>1. CASE store.writes = <<>>
    BY <1>2, <2>1 DEF Route
  <2>2. CASE store.writes # <<>>
    <3>1. store.writes \in Seq(DOMAIN store.up) /\ Range(store.writes) # {}
      BY <1>1, <2>2, EmptyRange DEF Tree
    <3>2. PICK w \in Range(store.writes) : TRUE
      BY <3>1
    <3>3. Range(store.writes) = {w}
      BY <3>2, <2>2 DEF Held, Saving
    <3>4. w \in 1..Len(log)
      <4>1. Range(store.writes) \subseteq DOMAIN store.up
        BY <3>1, RangeOfSeq
      <4> QED
        BY <1>1, <3>2, <4>1
    <3>5. \/ Path(store, store.tip) = Path(Live(store), store.tip)
          \/ \A x \in P : w < x
      BY <1>1, <1>2, <3>3, <3>4, CutPath
    <3>6. ASSUME \A x \in P : w < x, NEW x \in P
          PROVE  Failed(log[x])
      <4>1. x \in store.file
        <5>1. Path(store, store.tip) \in Seq(store.file)
          BY <1>1, LoadedAre DEF Held
        <5> QED
          BY <5>1, RangeOfSeq
      <4> QED
        BY <3>2, <3>6, <4>1 DEF Held, Routed
    <3> QED
      BY <3>5, <3>6 DEF Route
  <2> QED
    BY <2>1, <2>2
<1> HIDE DEF P
<1>6. CASE P = Route(store, store.tip)
  <2>1. Sound(log, Range(mem), P)
    BY <1>6 DEF Held, Routed
  <2>2. Orderly(log, Kept)
    BY DEF Held, Pairs, InOrder, Laid
  <2>3. Kept \subseteq DOMAIN log /\ DOMAIN log \subseteq Nat
    BY KeptFacts DEF Held
  <2>4. P \subseteq Nat /\ \A x \in P : log[x] \in Message /\ (Failed(log[x]) => Made(log, x) = {})
    BY <1>1, <1>3, <1>4
  <2>5. Kept = {n \in Range(mem) : ~Silent(log[n])}
    BY DEF Kept
  <2>6. Kept \subseteq Nat /\ \A x \in Kept : log[x] \in Message
    BY <1>1, <2>3
  <2>7. Orderly(log, P)
    BY <2>1, <2>2, <2>4, <2>5, <2>6, RouteIsOrderly
  <2> QED
    BY <2>7 DEF P
<1>7. CASE \A x \in P : Failed(log[x])
  <2>1. \A x \in P : Made(log, x) = {} /\ ~IsResult(log, x)
    BY <1>1, <1>3, <1>4, <1>7
  <2>2. Orderly(log, P)
    BY <2>1 DEF Orderly, OneTurn, OneResult, Answering
  <2> QED
    BY <2>2 DEF P
<1> QED
  BY <1>5, <1>6, <1>7 DEF P

\* What a load brings back is the repaired history, in the order it was made.
LEMMA LoadedIsWhole ==
  ASSUME Held, IInv', Restart
  PROVE  /\ mem' \in Seq(DOMAIN log') /\ Ascending(mem') /\ log' \in Seq(Message)
         /\ \E ms : /\ Whole(ms) /\ DOMAIN ms = DOMAIN mem'
                    /\ \A i \in DOMAIN mem' : log'[mem'[i]] = ms[i]
<1> DEFINE path  == Path(store, store.tip)
           old   == Records(path)
           fixed == Repair(old)
           keep  == Len(LongestCommonPrefix({old, fixed}))
           new   == SubSeq(fixed, keep + 1, Len(fixed))
           ids   == Ids(Len(log), new)
           kept  == SubSeq(path, 1, keep)
<1>1. mem' = kept \o ids /\ Logs(new)
  BY DEF Restart, Logs
<1>2. /\ path \in Seq(DOMAIN log) /\ log \in Seq(Message) /\ Len(log) \in Nat
         /\ DOMAIN log \subseteq Nat
      /\ Orderly(log, Range(path)) /\ IInv /\ Len(Records(path)) = Len(path)
  <2>1. IInv /\ log \in Seq(Message) /\ Len(log) \in Nat /\ DOMAIN log = 1..Len(log)
    BY Facts DEF Held
  <2>2. Orderly(log, Range(path))
    BY LoadedInOrder
  <2>3. path \in Seq(DOMAIN log) /\ Len(Records(path)) = Len(path)
    BY <2>1, LoadedAre
  <2> HIDE DEF path
  <2> QED
    BY <2>1, <2>2, <2>3
<1>3. keep \in Nat /\ keep <= Len(path) /\ new \in Seq(Message)
  BY <1>2, BranchIs
<1>4. Ascending(path)
  <2>1. /\ Tree(store) /\ DOMAIN store.up \subseteq 1..Len(log) /\ store.tip \in store.file \cup {0}
    BY <1>2, Facts DEF IInv, Filed, Tree
  <2>2. Stands(store, Len(log))
    BY <1>2, <2>1, LiveIs
  <2>3. Climbs(path, store.file, store.tip)
    BY <2>1, <2>2, PathClimbs DEF Stands
  <2> QED
    BY <2>3 DEF Climbs, Ascending
<1> HIDE DEF path
<1>5. old \in Seq(Message) /\ Orderly(old, DOMAIN old) /\ DOMAIN old = DOMAIN path
      /\ (\A i \in DOMAIN path : old[i] = log[path[i]]) /\ Len(old) = Len(path)
  <2>1. old \in Seq(Message)
    BY <1>2, RecordsAre
  <2>2. Orderly(old, DOMAIN old)
    BY <1>2, <1>4, OrderlyRecords
  <2>3. DOMAIN old = DOMAIN path /\ (\A i \in DOMAIN path : old[i] = log[path[i]])
    BY DEF Records
  <2>4. Len(old) = Len(path)
    BY <1>2
  <2> HIDE DEF old
  <2> QED
    BY <2>1, <2>2, <2>3, <2>4
<1>6. \A k \in DOMAIN old : Failed(old[k]) => Made(old, k) = {}
  <2>1. TAKE k \in DOMAIN old
  <2>2. HAVE Failed(old[k])
  <2>3. path[k] \in DOMAIN log /\ old[k] = log[path[k]] /\ old[k] \in Message
    BY <1>2, <1>5
  <2> HIDE DEF old
  <2>4. old[k].calls = 0
    BY <2>2, <2>3 DEF Held, Clean
  <2>5. \A c \in Made(old, k) : old[k].calls # 0
    BY <2>3, MadeIs
  <2> QED
    BY <2>4, <2>5
<1> HIDE DEF old
<1>7. Whole(fixed) /\ fixed \in Seq(Message)
  BY <1>5, <1>6, RepairIsWhole DEF Whole
<1> HIDE DEF fixed
<1>8. keep <= Len(fixed) /\ \A i \in 1..keep : old[i] = fixed[i]
  <2> DEFINE k == Len(LongestCommonPrefix({old, fixed}))
  <2>1. k \in Nat /\ k <= Len(old) /\ k <= Len(fixed) /\ \A i \in 1..k : old[i] = fixed[i]
    BY <1>5, <1>7, CommonBeginning
  <2>2. keep = k
    OBVIOUS
  <2> HIDE DEF k, keep
  <2> QED
    BY <2>1, <2>2
<1>9. Grows(new)
  BY <1>1, <1>2, <1>3, LogsGrow
<1>10. /\ Len(path) \in Nat /\ Len(fixed) \in Nat /\ DOMAIN path = 1..Len(path)
       /\ DOMAIN fixed = 1..Len(fixed)
  BY <1>2, <1>7
<1> HIDE DEF keep
<1>11. /\ kept \in Seq(DOMAIN log) /\ Len(kept) = keep /\ \A i \in 1..keep : kept[i] = path[i]
  <2>1. \A i \in 1..keep : path[i] \in DOMAIN log
    BY <1>2, <1>3, <1>10
  <2> QED
    BY <1>2, <1>3, <1>10, <2>1, SubSeqProperties
<1>12. /\ Len(new) = Len(fixed) - keep
       /\ \A i \in 1..(Len(fixed) - keep) : new[i] = fixed[keep + i]
  <2>1. \A i \in (keep + 1)..Len(fixed) : fixed[i] \in Message
    BY <1>3, <1>7, <1>10
  <2>2. keep + 1 \in Int /\ Len(fixed) \in Int
    BY <1>3, <1>10
  <2>3. Len(new) = IF keep + 1 <= Len(fixed) THEN Len(fixed) - (keep + 1) + 1 ELSE 0
    BY <2>1, <2>2, SubSeqProperties
  <2>4. \A i \in 1..(Len(fixed) - (keep + 1) + 1) : new[i] = fixed[(keep + 1) + i - 1]
    BY <2>1, <2>2, SubSeqProperties
  <2> HIDE DEF new
  <2>5. \A i \in 1..(Len(fixed) - keep) :
          i \in 1..(Len(fixed) - (keep + 1) + 1) /\ (keep + 1) + i - 1 = keep + i
    BY <1>3, <1>10
  <2>6. Len(new) = Len(fixed) - keep
    <3> DEFINE a == Len(fixed)
               b == Len(new)
    <3>1. a \in Nat /\ keep \in Nat /\ keep <= a
      BY <1>3, <1>8, <1>10
    <3>2. b = IF keep + 1 <= a THEN a - (keep + 1) + 1 ELSE 0
      BY <2>3
    <3> HIDE DEF a, b
    <3>3. b = a - keep
      BY <3>1, <3>2
    <3> QED
      BY <3>3 DEF a, b
  <2> QED
    BY <2>4, <2>5, <2>6
<1> HIDE DEF new, kept
<1>13. /\ ids \in Seq(Nat \ {0}) /\ Len(ids) = Len(new)
          /\ \A i \in 1..Len(new) : ids[i] = Len(log) + i
  BY <1>2, <1>3, IdsAre
<1> HIDE DEF ids
<1>14. /\ kept \in Seq(Nat) /\ ids \in Seq(Nat) /\ Len(kept \o ids) = Len(fixed)
       /\ \A i \in 1..keep : (kept \o ids)[i] = path[i]
       /\ \A i \in 1..(Len(fixed) - keep) : (kept \o ids)[keep + i] = Len(log) + i
       /\ kept \o ids \in Seq(Nat)
  <2>1. kept \in Seq(Nat) /\ ids \in Seq(Nat)
    BY <1>2, <1>11, <1>13, SeqMonotonic
  <2>2. /\ Len(kept \o ids) = Len(kept) + Len(ids) /\ kept \o ids \in Seq(Nat)
        /\ \A i \in 1..(Len(kept) + Len(ids)) :
             (kept \o ids)[i] = IF i <= Len(kept) THEN kept[i] ELSE ids[i - Len(kept)]
    BY <2>1, ConcatProperties
  <2>3. Len(kept) = keep /\ Len(ids) = Len(fixed) - keep /\ Len(kept) + Len(ids) = Len(fixed)
    BY <1>3, <1>10, <1>11, <1>12, <1>13
  <2>4. ASSUME NEW i \in 1..keep PROVE (kept \o ids)[i] = path[i]
    <3>1. i \in 1..Len(fixed) /\ i <= keep
      BY <1>3, <1>8, <1>10
    <3> QED
      BY <1>11, <2>2, <2>3, <3>1
  <2>5. ASSUME NEW i \in 1..(Len(fixed) - keep) PROVE (kept \o ids)[keep + i] = Len(log) + i
    <3>1. keep + i \in 1..Len(fixed) /\ ~(keep + i <= keep) /\ (keep + i) - keep = i
      BY <1>3, <1>8, <1>10
    <3> QED
      BY <1>12, <1>13, <2>2, <2>3, <3>1
  <2> QED
    BY <2>1, <2>2, <2>3, <2>4, <2>5
<1>15. DOMAIN mem' = 1..Len(fixed)
  <2> DEFINE all == kept \o ids
  <2>1. all \in Seq(Nat) /\ Len(all) = Len(fixed) /\ mem' = all
    BY <1>1, <1>14
  <2> HIDE DEF all
  <2>2. DOMAIN all = 1..Len(all)
    BY <2>1
  <2> QED
    BY <2>1, <2>2
<1>16. ASSUME NEW i \in 1..Len(fixed)
       PROVE  log'[mem'[i]] = fixed[i]
  <2>1. CASE i <= keep
    <3>1. i \in 1..keep /\ i \in DOMAIN path
      BY <1>3, <1>10, <2>1
    <3>2. mem'[i] = path[i]
      BY <1>1, <1>14, <3>1
    <3>3. path[i] \in DOMAIN log
      BY <1>2, <3>1
    <3>4. old[i] = fixed[i] /\ old[i] = log[path[i]]
      BY <1>5, <1>8, <3>1
    <3> QED
      BY <1>9, <3>2, <3>3, <3>4 DEF Grows
  <2>2. CASE ~(i <= keep)
    <3> DEFINE j == i - keep
    <3>1. j \in 1..(Len(fixed) - keep) /\ keep + j = i
      BY <1>3, <1>10, <2>2
    <3> HIDE DEF j
    <3>2. j \in DOMAIN new /\ new[j] = fixed[i]
      <4>1. DOMAIN new = 1..Len(new)
        BY <1>3
      <4>2. DOMAIN new = 1..(Len(fixed) - keep)
        BY <1>12, <4>1
      <4> QED
        BY <1>12, <3>1, <4>2
    <3>3. mem'[i] = Len(log) + j
      BY <1>1, <1>14, <3>1
    <3> QED
      BY <1>9, <3>2, <3>3 DEF Grows
  <2> QED
    BY <2>1, <2>2
<1>17. mem' \in Seq(DOMAIN log') /\ log' \in Seq(Message)
  BY Facts DEF IInv, Typed
<1>18. Ascending(mem')
  <2>1. mem' = Path(store', store'.tip) /\ Tree(store')
    BY <1>2, LoadedIsSaved
  <2>2. DOMAIN store'.up \subseteq DOMAIN log' /\ DOMAIN log' = 1..Len(log') /\ Len(log') \in Nat
    BY <1>17 DEF IInv, Filed
  <2>3. Stands(store', Len(log')) /\ store'.tip \in store'.file \cup {0}
    BY <2>1, <2>2, LiveIs DEF Tree
  <2>4. Climbs(Path(store', store'.tip), store'.file, store'.tip)
    BY <2>3, PathClimbs DEF Stands
  <2> QED
    BY <2>1, <2>4 DEF Climbs, Ascending
<1> QED
  BY <1>7, <1>10, <1>15, <1>16, <1>17, <1>18

\* A load brings back a history without open calls.
LEMMA RestartLoads ==
  ASSUME Held, IInv', Restart
  PROVE  Pairs' /\ Routed' /\ Saving'
<1> DEFINE M == Range(mem')
<1>1. /\ mem' \in Seq(DOMAIN log') /\ Ascending(mem') /\ log' \in Seq(Message)
      /\ \E ms : /\ Whole(ms) /\ DOMAIN ms = DOMAIN mem'
                 /\ \A i \in DOMAIN mem' : log'[mem'[i]] = ms[i]
  BY LoadedIsWhole
<1>2. PICK ms : /\ Whole(ms) /\ DOMAIN ms = DOMAIN mem'
                /\ \A i \in DOMAIN mem' : log'[mem'[i]] = ms[i]
  BY <1>1
<1>3. Laid(log', M) /\ Opens(log', M) = {}
  <2>1. ms \in Seq(Message) /\ Laid(ms, DOMAIN ms) /\ Opens(ms, DOMAIN ms) = {}
    BY <1>2 DEF Whole
  <2> QED
    BY <1>1, <1>2, <2>1, LaidRecords
<1>4. \A x \in M : ~Failed(log'[x])
  <2>1. \A i \in DOMAIN mem' : ~Failed(log'[mem'[i]])
    BY <1>2 DEF Whole
  <2> QED
    BY <2>1 DEF Range
<1>5. /\ mem' = Path(store', store'.tip) /\ store'.last = store'.tip /\ store'.writes = <<>>
      /\ Tree(store') /\ run' = Idle
  BY LoadedIsSaved DEF Held
<1>6. /\ run'.phase = "idle" /\ run'.out = <<>> /\ ~run'.cancelled /\ ~run'.late /\ ~run'.failing
  BY <1>5 DEF Idle
<1>7. Range(<<>>) = {}
  BY DEF Range
<1> HIDE DEF M
<1>8. Kept' = M
  BY <1>4 DEF Kept, Silent, M
<1>9. Open' = {}
  BY <1>3, <1>8 DEF Open
<1>10. Pairs'
  <2>1. InOrder'
    BY <1>1, <1>3, <1>8 DEF InOrder, Ascending
  <2>2. Fitting'
    BY <1>6, NothingComes
  <2>3. Phased'
    BY <1>6 DEF Phased
  <2>4. queue'.steer = 0 /\ queue'.follow = 0
    BY DEF Restart
  <2>5. Steered'
    BY <1>5, <1>6, <1>7, <2>4 DEF Steered
  <2> QED
    BY <2>1, <2>2, <2>3, <2>5 DEF Pairs
<1>11. Route(store', store'.tip) = M
  <2>1. DOMAIN store'.up \subseteq DOMAIN log' /\ DOMAIN log' = 1..Len(log') /\ Len(log') \in Nat
    BY <1>1 DEF IInv, Filed
  <2>2. Live(store') = store'
    BY <1>5, <2>1, LiveIs
  <2> QED
    BY <1>5, <2>2 DEF Route, M
<1>12. Sound(log', M, M)
  <2>1. ASSUME NEW r \in M, IsResult(log', r)
        PROVE  \E a \in M : /\ a < r /\ log'[r].of \in Made(log', a)
                            /\ \A x \in M : a < x /\ x < r => ~Failed(log'[x])
    BY <1>3, <1>4, <2>1 DEF Laid, Orderly, Answering
  <2> QED
    BY <2>1 DEF Sound
<1>13. Claimed' = {}
  <2>1. Given(log', {}) = {} /\ Range(run'.out) \ DOMAIN store'.up = {}
    BY <1>6, <1>7 DEF Given
  <2> QED
    BY <1>9, <2>1 DEF Claimed
<1>14. Routed'
  <2>1. \A n \in {store'.tip, store'.last} \cup Range(store'.writes) :
          Sound(log', Range(mem'), Route(store', n))
    BY <1>5, <1>7, <1>11, <1>12 DEF M
  <2>2. \A n \in Range(store'.writes), x \in store'.file : n < x => Failed(log'[x])
    BY <1>5, <1>7
  <2>3. \A b \in Bases', a \in Kept' :
          Made(log', a) \cap Claimed' # {} => Clear(log', Route(store', b), a)
    BY <1>13
  <2> QED
    BY <2>1, <2>2, <2>3 DEF Routed
<1>15. Saving'
  BY <1>5, <1>6, <1>7 DEF Saving
<1> QED
  BY <1>10, <1>14, <1>15

-----------------------------------------------------------------------------
(* The inductive invariant and the theorem.                                *)

\* No bound is given back.
LEMMA Spending ==
  ASSUME IInv, [Next]_vars
  PROVE  /\ {spent.cancels, spent.queued, spent.faults, spent.restarts} \subseteq Nat
         /\ {spent'.cancels, spent'.queued, spent'.faults, spent'.restarts} \subseteq Nat
         /\ spent.cancels <= spent'.cancels /\ spent.queued <= spent'.queued
         /\ spent.faults <= spent'.faults /\ spent.restarts <= spent'.restarts
<1> DEFINE Spend == \/ UNCHANGED spent
                      \/ (\E k \in {0, 1} : spent' = [spent EXCEPT !.requests = @ + k])
                      \/ (\E k \in {0, 1} : spent' = [spent EXCEPT !.faults = @ + k])
                      \/ (\E k \in 0..MaxCalls : spent' = [spent EXCEPT !.calls = @ + k])
                      \/ spent' = [spent EXCEPT !.cancels = @ + 1]
                      \/ spent' = [spent EXCEPT !.closes = @ + 1]
                      \/ spent' = [spent EXCEPT !.queued = @ + 1]
                      \/ spent' = [spent EXCEPT !.prompts = @ + 1]
                      \/ spent' = [spent EXCEPT !.restarts = @ + 1]
<1>1. ASSUME \/ UNCHANGED vars \/ Flushed \/ StartTurn \/ FailedEnds \/ BlankEnds \/ WordsEnd
           \/ BatchBegins \/ SeqBegins \/ SeqPrepare \/ SeqDone \/ SeqEnds \/ ParPrepare \/ ParStart
           \/ (\E k \in 1..MaxCalls : ParDone(k))
           \/ ParEnds \/ Pauses \/ NextTurn \/ Retry \/ Finish \/ Settle
      PROVE  UNCHANGED spent
  BY <1>1 DEF vars, Flushed, StartTurn, FailedEnds, BlankEnds, WordsEnd, BatchBegins, SeqBegins,
              SeqPrepare, SeqDone, SeqEnds, ParPrepare, ParStart, ParDone, ParEnds, Pauses,
              NextTurn,
              Retry, Finish, Settle
<1>2. ASSUME \/ Prompt \/ Request \/ Cancel \/ Close \/ Restart
             \/ \E which \in {"steer", "follow"} : Queue(which)
      PROVE  Spend
  BY <1>2 DEF Prompt, Request, Cancel, Close, Restart, Queue
<1>3. ASSUME Publish
      PROVE  Spend
  <2>1. PICK fault : spent' = [spent EXCEPT !.faults = @ + (IF fault = "none" THEN 0 ELSE 1)]
    BY <1>3 DEF Publish
  <2> QED
    BY <2>1
<1>4. ASSUME NEW calls \in 0..MaxCalls, NEW stop \in {"done", "cut", "error", "aborted"},
             NEW blank \in BOOLEAN, Answer(calls, stop, blank)
      PROVE  Spend
  BY <1>4 DEF Answer
<1>5. Spend
  BY <1>1, <1>2, <1>3, <1>4 DEF Next, ToolStep, LoopStep
<1>6. spent \in Budgets /\ MaxCalls \in Nat
  BY Facts
<1> QED
  BY <1>5, <1>6 DEF Budgets

\* What a step leaves clean was clean.
LEMMA CleanBefore ==
  ASSUME IInv, Remembers, Numbered, [Next]_vars
  PROVE  (Clean' => Clean) /\ (Loadable' => Loadable)
<1>1. /\ {spent.cancels, spent.queued, spent.faults, spent.restarts} \subseteq Nat
      /\ {spent'.cancels, spent'.queued, spent'.faults, spent'.restarts} \subseteq Nat
      /\ spent.cancels <= spent'.cancels /\ spent.queued <= spent'.queued
      /\ spent.faults <= spent'.faults /\ spent.restarts <= spent'.restarts
  BY Spending
<1>2. PICK new : Grows(new)
  BY NextNumbered DEF Counted
<1>3. ASSUME Clean'
      PROVE  Clean
  <2>1. \A i \in DOMAIN log : i \in DOMAIN log' /\ log'[i] = log[i]
    BY <1>2 DEF Grows
  <2>2. \A i \in DOMAIN log : Failed(log[i]) => log[i].calls = 0
    BY <1>3, <2>1 DEF Clean
  <2>3. spent.cancels > 0 => spent'.queued = 0 /\ spent'.restarts = 0
    <3>1. spent'.cancels > 0 => spent'.queued = 0 /\ spent'.restarts = 0
      BY <1>3 DEF Clean
    <3>2. spent.cancels > 0 => spent'.cancels > 0
      BY <1>1
    <3> QED
      BY <3>1, <3>2
  <2>4. spent.faults > 1 => spent'.restarts = 0
    <3>1. spent'.faults > 1 => spent'.restarts = 0
      BY <1>3 DEF Clean
    <3>2. spent.faults > 1 => spent'.faults > 1
      BY <1>1
    <3> QED
      BY <3>1, <3>2
  <2>5. /\ spent'.queued = 0 => spent.queued = 0
        /\ spent'.restarts = 0 => spent.restarts = 0
    BY <1>1
  <2> QED
    BY <2>2, <2>3, <2>4, <2>5 DEF Clean
<1>4. ASSUME Loadable'
      PROVE  Loadable
  BY <1>1, <1>4 DEF Loadable
<1> QED
  BY <1>3, <1>4

LEMMA StepPairs ==
  ASSUME IInv, Fails, Remembers, Numbered, Clean, Pairs, Next, ~Restart
  PROVE  Pairs'
<1>1. CASE StartTurn \/ NextTurn \/ Request \/ Pauses \/ FailedEnds \/ Close \/ WordsEnd
           \/ BlankEnds
  BY <1>1, StartTurnPairs, NextTurnPairs, RequestPairs, StopsPairs, WordsEndPairs, BlankEndsPairs
<1>2. CASE \/ BatchBegins \/ SeqBegins \/ SeqPrepare \/ SeqDone \/ SeqEnds \/ ParPrepare \/ ParStart
           \/ (\E k \in 1..MaxCalls : ParDone(k)) \/ ParEnds
  BY <1>2, BatchBeginsPairs, SeqPairs, SeqEndsPairs, ParPreparePairs, ParGoesPairs, ParEndsPairs
<1>3. CASE Prompt \/ Flushed \/ Retry \/ Finish \/ Settle \/ Cancel
  BY <1>3, PromptPairs, FlushedPairs, RetryPairs, FinishPairs, SettlePairs, CancelPairs
<1>4. CASE Publish \/ \E which \in {"steer", "follow"} : Queue(which)
  BY <1>4, PublishPairs, QueuePairs
<1>5. CASE \E calls \in 0..MaxCalls, stop \in {"done", "cut", "error", "aborted"},
              blank \in BOOLEAN : Answer(calls, stop, blank)
  BY <1>5, AnswerPairs
<1> QED
  BY <1>1, <1>2, <1>3, <1>4, <1>5 DEF Next, ToolStep, LoopStep

LEMMA StepLoads ==
  ASSUME Held, IInv', Pairs', Loadable', Next, ~Restart
  PROVE  Routed' /\ Saving'
<1>1. CASE \/ Pauses \/ FailedEnds \/ Request \/ WordsEnd \/ SeqBegins \/ SeqEnds \/ ParPrepare
           \/ ParStart \/ (\E k \in 1..MaxCalls : ParDone(k))
           \/ \E which \in {"steer", "follow"} : Queue(which)
  BY <1>1, QuietLoads
<1>2. CASE StartTurn \/ NextTurn \/ BlankEnds \/ BatchBegins \/ SeqPrepare \/ SeqDone \/ ParEnds
           \/ Close
  BY <1>2, TurnsLoad, BlankLoads, BatchBeginsLoads, SettlesLoad, ParEndsLoads, CloseLoads
<1>3. CASE Prompt \/ Flushed \/ Retry \/ Finish \/ Settle \/ Publish
  BY <1>3, PromptLoads, RetryLoads, FinishLoads, SettleLoads, PublishLoads
<1>4. CASE \E calls \in 0..MaxCalls, stop \in {"done", "cut", "error", "aborted"},
              blank \in BOOLEAN : Answer(calls, stop, blank)
  BY <1>4, AnswerLoads
<1>5. ~Cancel
  <2> SUFFICES ASSUME Cancel PROVE FALSE
    OBVIOUS
  <2>1. spent'.cancels = spent.cancels + 1 /\ spent.cancels \in Nat
    BY Facts DEF Cancel, Budgets, Held
  <2> QED
    BY <2>1 DEF Loadable
<1> QED
  BY <1>1, <1>2, <1>3, <1>4, <1>5 DEF Next, ToolStep, LoopStep

\* The pairing, as long as the session is clean; and what a load will need of the file.
Mended == Numbered /\ (Clean => Pairs /\ (Loadable => Routed /\ Saving))

LEMMA InitMends == Init => Mended
<1> SUFFICES ASSUME Init PROVE Mended
  OBVIOUS
<1>1. /\ DOMAIN log = {} /\ Range(mem) = {} /\ Range(store.writes) = {} /\ Range(run.out) = {}
      /\ DOMAIN mem = {} /\ DOMAIN run.out = {} /\ store.file = {} /\ store.writes = <<>>
      /\ store.tip = 0 /\ store.last = 0 /\ run.out = <<>> /\ run.phase = "idle"
      /\ DOMAIN store.up = {}
      /\ ~run.failing /\ ~run.late /\ ~run.cancelled
  BY DEF Init, EmptyStore, Idle, Range
<1>2. Numbered
  BY <1>1 DEF Numbered
<1>3. Kept = {} /\ Coming = {}
  BY <1>1 DEF Kept, Coming
<1>4. Pairs
  <2>1. InOrder
    BY <1>1, <1>3 DEF InOrder, Laid, Orderly, OneTurn, OneResult, Answering, LastIsOpen
  <2>2. Fitting
    BY <1>1, <1>3 DEF Fitting, OneResult
  <2>3. Phased /\ Steered
    BY <1>1 DEF Phased, Steered, Init
  <2> QED
    BY <2>1, <2>2, <2>3 DEF Pairs
<1>5. Route(store, 0) = {}
  <2>1. IInv
    BY InitHolds
  <2>2. Tree(store) /\ DOMAIN store.up \subseteq 1..Len(log) /\ Len(log) \in Nat
    BY <1>1, <2>1, Facts DEF IInv, Filed
  <2>3. Live(store) = store /\ Path(store, 0) \in Seq(DOMAIN store.up)
    BY <1>1, <2>2, LiveIs
  <2>4. Range(Path(store, 0)) \subseteq {}
    BY <1>1, <2>3, RangeOfSeq
  <2> QED
    BY <2>3, <2>4 DEF Route
<1>6. Routed
  <2>1. Sound(log, Range(mem), {})
    BY DEF Sound
  <2> QED
    BY <1>1, <1>3, <1>5, <2>1 DEF Routed
<1>7. Saving
  BY <1>1 DEF Saving
<1> QED
  BY <1>2, <1>4, <1>6, <1>7 DEF Mended

LEMMA NextMends ==
  ASSUME IInv, IInv', Fails, Remembers, Mended, [Next]_vars
  PROVE  Mended'
<1>1. Numbered'
  BY NextNumbered DEF Mended, Counted
<1>2. (Clean' => Clean) /\ (Loadable' => Loadable)
  BY CleanBefore DEF Mended
<1>3. CASE Next /\ ~Restart
  <2>1. Clean' => Pairs'
    BY <1>2, <1>3, StepPairs DEF Mended
  <2>2. Clean' /\ Loadable' => Routed' /\ Saving'
    BY <1>2, <1>3, <2>1, StepLoads DEF Mended, Held
  <2> QED
    BY <1>1, <2>1, <2>2 DEF Mended
<1>4. CASE Restart
  <2>1. spent' = [spent EXCEPT !.restarts = @ + 1] /\ spent \in Budgets
    BY <1>4, Facts DEF Restart
  <2>2. /\ spent'.restarts = spent.restarts + 1 /\ spent.restarts \in Nat
        /\ spent'.cancels = spent.cancels /\ spent.cancels \in Nat
        /\ spent'.faults = spent.faults /\ spent.faults \in Nat
    BY <2>1 DEF Budgets
  <2>3. Clean' => Loadable
    <3>1. Clean' => (spent'.cancels > 0 => spent'.restarts = 0)
          /\ (spent'.faults > 1 => spent'.restarts = 0)
      BY DEF Clean
    <3> QED
      BY <2>2, <3>1 DEF Loadable
  <2>4. Clean' => Held
    BY <1>2, <2>3 DEF Mended, Held
  <2>5. Clean' => Pairs' /\ Routed' /\ Saving'
    BY <1>4, <2>4, RestartLoads
  <2> QED
    BY <1>1, <2>5 DEF Mended
<1>5. CASE UNCHANGED vars
  <2>1. UNCHANGED <<log, mem, store, run, tools, queue, started, spent>>
    BY <1>5 DEF vars
  <2>2. ASSUME Pairs
        PROVE  Pairs'
    <3>1. Kept' = Kept /\ Open' = Open /\ Taken' = Taken /\ Coming' = Coming
      BY <2>1, Kept0 DEF Coming
    <3>2. Due' = Due
      BY <2>1, <3>1 DEF Due
    <3>3. Calls' = Calls /\ Left' = Left
      BY <2>1 DEF Calls, Left
    <3>4. Phased'
      BY <2>1, <2>2, <3>1, <3>2, <3>3 DEF Pairs, Phased
    <3>5. Steered'
      BY <2>1, <2>2 DEF Pairs, Steered
    <3> QED
      BY <2>1, <2>2, <3>4, <3>5, Pairing
  <2>3. Routed => Routed'
    BY <2>1 DEF Routed, Bases, Claimed, Kept, Open
  <2>4. Saving => Saving'
    BY <2>1 DEF Saving, Kept, Open
  <2> QED
    BY <1>1, <1>2, <2>2, <2>3, <2>4 DEF Mended
<1> QED
  BY <1>3, <1>4, <1>5

\* What is kept of a history in order is in order.
LEMMA WithinAscends ==
  ASSUME NEW D \in SUBSET Nat, NEW s \in Seq(D), NEW S, Ascending(s)
  PROVE  Ascending(Within(s, S))
<1> DEFINE n == Len(s)
           f == Scan(s, S)
           Good(k) == /\ f[k] \in Seq(D) /\ Ascending(f[k])
                      /\ \A x \in Range(f[k]) : \E i \in 1..k : x = s[i]
           T == {k \in Nat : k <= n => Good(k)}
<1>1. n \in Nat /\ DOMAIN s = 1..n /\ \A i \in 1..n : s[i] \in D
  OBVIOUS
<1>2. /\ Within(s, S) = f[n] /\ f[0] = <<>>
      /\ \A i \in 1..n : f[i] = IF s[i] \in S THEN Append(f[i - 1], s[i]) ELSE f[i - 1]
  BY ScanFacts
<1> HIDE DEF f
<1>3. 0 \in T
  <2>1. f[0] \in Seq(D) /\ Range(f[0]) = {} /\ Ascending(f[0])
    BY <1>2 DEF Range, Ascending
  <2> QED
    BY <2>1
<1>4. ASSUME NEW k \in Nat, k \in T
      PROVE  k + 1 \in T
  <2>1. SUFFICES ASSUME k + 1 <= n PROVE Good(k + 1)
    OBVIOUS
  <2>2. Good(k) /\ k + 1 \in 1..n /\ (k + 1) - 1 = k
    BY <1>1, <1>4, <2>1
  <2>3. f[k + 1] = IF s[k + 1] \in S THEN Append(f[k], s[k + 1]) ELSE f[k]
    BY <1>2, <2>2
  <2>4. \A i \in 1..k : i \in 1..(k + 1) /\ i \in DOMAIN s /\ i < k + 1 /\ k + 1 \in DOMAIN s
    BY <1>1, <2>2
  <2>5. \A i \in 1..k : s[i] < s[k + 1]
    BY <2>4 DEF Ascending
  <2>6. CASE s[k + 1] \in S
    <3> DEFINE e == s[k + 1]
    <3>1. e \in D /\ f[k + 1] = Append(f[k], e) /\ f[k] \in Seq(D) /\ Ascending(f[k])
      BY <1>1, <2>2, <2>3, <2>6
    <3>2. \A x \in Range(f[k]) : x < e
      BY <2>2, <2>5
    <3> HIDE DEF e
    <3>3. Ascending(f[k + 1])
      BY <3>1, <3>2, AppendAscends
    <3>4. f[k + 1] \in Seq(D)
      BY <3>1
    <3>5. Range(f[k + 1]) = Range(f[k]) \cup {e}
      BY <3>1, AppendRange
    <3>6. \A x \in Range(f[k + 1]) : \E i \in 1..(k + 1) : x = s[i]
      <4>1. \A x \in Range(f[k]) : \E i \in 1..(k + 1) : x = s[i]
        BY <2>2, <2>4
      <4>2. k + 1 \in 1..(k + 1)
        OBVIOUS
      <4> QED
        BY <3>5, <4>1, <4>2 DEF e
    <3> QED
      BY <3>3, <3>4, <3>6
  <2>7. CASE s[k + 1] \notin S
    <3>1. f[k + 1] = f[k]
      BY <2>3, <2>7
    <3> QED
      BY <2>2, <2>4, <3>1
  <2> QED
    BY <2>6, <2>7
<1>5. n \in T
  <2> HIDE DEF T, n
  <2> QED
    BY <1>1, <1>3, <1>4, Induction
<1> QED
  BY <1>1, <1>2, <1>5

LEMMA CleanRequest ==
  ASSUME IInv, Clean, Pairs
  PROVE  Paired(Context(mem))
<1> DEFINE S == {n \in DOMAIN log : ~Silent(log[n])}
           ids == Within(mem, S)
<1>1. /\ log \in Seq(Message) /\ mem \in Seq(DOMAIN log) /\ Range(mem) \subseteq DOMAIN log
      /\ DOMAIN log \in SUBSET Nat
  BY Facts, KeptFacts
<1>2. ids \in Seq(DOMAIN log) /\ Range(ids) = Kept
  <2>1. ids \in Seq(DOMAIN log) /\ Range(ids) = Range(mem) \cap S
    BY <1>1, WithinKeeps
  <2> HIDE DEF ids
  <2> QED
    BY <1>1, <2>1 DEF Kept
<1>3. Ascending(ids)
  <2>1. Ascending(mem)
    BY DEF Pairs, InOrder, Ascending
  <2> HIDE DEF S
  <2> QED
    BY <1>1, <2>1, WithinAscends
<1>4. Context(mem) = Repair(Records(ids))
  BY DEF Context
<1> HIDE DEF ids
<1> DEFINE ms == Records(ids)
<1>5. ms \in Seq(Message) /\ Orderly(ms, DOMAIN ms)
  <2>1. Orderly(log, Range(ids))
    BY <1>2 DEF Pairs, InOrder, Laid
  <2> QED
    BY <1>1, <1>2, <1>3, <2>1, OrderlyRecords, RecordsAre
<1>6. \A k \in DOMAIN ms : Failed(ms[k]) => Made(ms, k) = {}
  <2>1. TAKE k \in DOMAIN ms
  <2>2. HAVE Failed(ms[k])
  <2>3. ids[k] \in DOMAIN log /\ ms[k] = log[ids[k]] /\ ms[k] \in Message
    BY <1>1, <1>2 DEF Records
  <2> HIDE DEF ms
  <2>4. ms[k].calls = 0
    BY <2>2, <2>3 DEF Clean
  <2>5. \A c \in Made(ms, k) : ms[k].calls # 0
    BY <2>3, MadeIs
  <2> QED
    BY <2>4, <2>5
<1> HIDE DEF ms
<1>7. Paired(Repair(ms))
  BY <1>5, <1>6, HistoryIsRepaired
<1> QED
  BY <1>4, <1>7 DEF ms

\* However a run before ended - its consumer gone, a message that could not be saved, the
\* process killed and the session loaded again - the next request to the provider pairs
\* calls and results (loop.py:425-441, harness.py:404-426, tool_history.py:40-91,
\* session.py:3558-3631).
THEOREM RequestsArePaired == Spec => []RequestIsPaired
<1>1. Init => IInv /\ Fails /\ Remembers /\ Mended
  <2>1. Init => Fails
    BY DEF Init, Fails, Idle
  <2> QED
    BY <2>1, InitHolds, InitRemembers, InitMends
<1>2. /\ IInv /\ Fails /\ Remembers /\ Mended /\ [Next]_vars
      => IInv' /\ Fails' /\ Remembers' /\ Mended'
  BY NextKeeps, NextRemembers, NextMends
<1>3. IInv /\ Mended => RequestIsPaired
  BY CleanRequest DEF Mended, RequestIsPaired
<1> QED
  BY <1>1, <1>2, <1>3, PTL DEF Spec
=============================================================================
