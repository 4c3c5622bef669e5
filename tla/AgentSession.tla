---------------------------- MODULE AgentSession ----------------------------
(***************************************************************************)
(* One session of the agent runtime: the loop of requests and tools in     *)
(* src/src/erp_harness/runtime/loop.py, the harness that starts, cancels   *)
(* and repairs its runs (harness.py, tool_history.py), and the saving of   *)
(* its messages by session.py in a file of entries that name their parent. *)
(*                                                                         *)
(* All of it runs on one event loop: what happens between two waits is one *)
(* step.  The user may cancel, the consumer of the events may go away, an  *)
(* append to the file may fail and the process may end between any two.    *)
(***************************************************************************)
EXTENDS Naturals, FiniteSets, SequencesExt

CONSTANTS
  MaxCalls,      \* tool calls, over all answers
  MaxRequests,   \* requests to the model provider
  MaxPrompts,
  MaxQueued,     \* steering and follow-up messages
  MaxTroubles    \* cancels, closes, appends that fail and restarts, together

ASSUME SessionAssumption ==
  {MaxCalls, MaxRequests, MaxPrompts, MaxQueued, MaxTroubles} \subseteq Nat

VARIABLES
  log,      \* every message ever made; elsewhere it is named by its position
  mem,      \* the messages of the harness
  store,    \* the session file, and what the session knows of it
  run,      \* the run of the loop, or "idle"
  tools,    \* the calls of the answer at hand
  queue,    \* steering and follow-up messages
  started,  \* calls whose tool was entered
  spent     \* how much of each bound is used

vars == <<log, mem, store, run, tools, queue, started, spent>>

-----------------------------------------------------------------------------
(* Messages.  A call is <<number of the request it answers, position>>.    *)

Plain == [kind |-> "user"]
Answered(turn, calls, stop, blank) ==
  [kind |-> "assistant", turn |-> turn, calls |-> calls, stop |-> stop, blank |-> blank]
Result(call, how) == [kind |-> "result", of |-> call, how |-> how]

Failed(m) == m.kind = "assistant" /\ m.stop \in {"error", "aborted"}
CallsOf(m) == IF m.kind = "assistant" THEN [k \in 1..m.calls |-> <<m.turn, k>>] ELSE <<>>
Results(ms) == {i \in DOMAIN ms : ms[i].kind = "result"}
Records(ids) == [i \in DOMAIN ids |-> log[ids[i]]]

\* The elements of a sequence that belong to a set, in their order.
Within(s, S) ==
  LET upTo[i \in 0..Len(s)] ==
        IF i = 0 THEN <<>>
        ELSE IF s[i] \in S THEN Append(upTo[i - 1], s[i]) ELSE upTo[i - 1]
  IN  upTo[Len(s)]

\* Calls without a result anywhere, answered as interrupted.
Interrupted(ms) ==
  LET all  == FlattenSeq([i \in DOMAIN ms |-> CallsOf(ms[i])])
      done == {ms[i].of : i \in Results(ms)}
      open == Within(all, Range(all) \ done)
  IN  [i \in DOMAIN open |-> Result(open[i], "interrupted")]

\* How far a repair has come: the messages it keeps, the calls of the answer at hand,
\* and those of them that have a result.
Opened(out, calls) == [out |-> out, open |-> calls, have |-> {}]

Missing(r) ==
  LET open == Within(r.open, Range(r.open) \ r.have)
  IN  [i \in DOMAIN open |-> Result(open[i], "missing")]

\* Failed answers are left out, and what is missing is put before the next answer or
\* user message.
Repaired(r, m) ==
  CASE m.kind = "result" -> [r EXCEPT !.out = Append(@, m), !.have = @ \cup {m.of}]
    [] Failed(m)         -> Opened(r.out \o Missing(r), <<>>)
    [] OTHER             -> Opened(Append(r.out \o Missing(r), m), CallsOf(m))

\* repair_tool_history().
Repair(ms) ==
  LET upTo[i \in 0..Len(ms)] ==
        IF i = 0 THEN Opened(<<>>, <<>>) ELSE Repaired(upTo[i - 1], ms[i])
      end == upTo[Len(ms)]
  IN  end.out \o Missing(end)

\* Mutation: blank failures reach the repair.
ContextOfAll(ids) == Repair(Records(ids))

\* _provider_context(): blank failures are dropped before the repair.
Silent(m) == Failed(m) /\ m.blank
Context(ids) == Repair(Records(Within(ids, {n \in DOMAIN log : ~Silent(log[n])})))

-----------------------------------------------------------------------------
(* The session file.  An entry is the message it holds; 0 stands for the   *)
(* entries a session begins with.                                          *)
(*   file: entries in the order they were appended; tip: the last of them  *)
(*   that is a message, or the message it stands under; up: the parent of  *)
(*   an entry; last: _last_parent_id; writes: _pending_message_writes.     *)

EmptyStore == [file |-> {}, tip |-> 0, up |-> <<>>, last |-> 0, writes |-> <<>>]

\* An entry keeps the parent it was made with.
Parents(up, more) ==
  [n \in DOMAIN up \cup DOMAIN more |-> IF n \in DOMAIN up THEN up[n] ELSE more[n]]

\* The entry of a message, written unless the append failed before that or it is
\* there already.
Appended(s, n, fault) ==
  LET lands == fault # "before" /\ n \notin s.file
  IN  [s EXCEPT !.up = Parents(@, [m \in {n} |-> s.last]),
                !.file = IF lands THEN @ \cup {n} ELSE @,
                !.tip = IF lands THEN n ELSE @]

Remembered(writes, n, fault) ==
  IF fault = "none" THEN Within(writes, Range(writes) \ {n})
  ELSE IF n \in Range(writes) THEN writes ELSE Append(writes, n)

\* Mutation: every attempt that fails is remembered, the same message twice.
SavedTwice(s, n, fault) ==
  [Appended(s, n, fault) EXCEPT
    !.last = n, !.writes = IF fault = "none" THEN Remembered(@, n, fault) ELSE Append(@, n)]

\* Mutation: the next message stands under the last one that was surely saved.
SavedElsewhere(s, n, fault) ==
  [Appended(s, n, fault) EXCEPT
    !.last = IF fault = "none" THEN n ELSE @, !.writes = Remembered(@, n, fault)]

\* _persist_message(): an append may fail before the file is written, or after.
\* An attempt that failed is repeated with the same entry; the next message stands
\* under it either way.
Saved(s, n, fault) ==
  [Appended(s, n, fault) EXCEPT !.last = n, !.writes = Remembered(@, n, fault)]

\* The messages from the root to an entry; a parent that is not in the file is
\* no parent.
Path(s, leaf) ==
  LET path[n \in s.file \cup {0}] ==
        IF n = 0 THEN <<>>
        ELSE Append(path[IF s.up[n] \in s.file THEN s.up[n] ELSE 0], n)
  IN  path[leaf]

-----------------------------------------------------------------------------
(* The run.  out: messages to append and save, one after the other, before *)
(* the run goes on in its phase.                                           *)

NoTools == [k \in 1..MaxCalls |-> "none"]

Idle == [phase |-> "idle", out |-> <<>>, cancelled |-> FALSE, answer |-> 0, next |-> 1,
         more |-> FALSE, blank |-> FALSE, emptied |-> FALSE, error |-> FALSE,
         failing |-> FALSE, late |-> FALSE]

Troubles == spent.cancels + spent.closes + spent.faults + spent.restarts < MaxTroubles

Phases == {"idle", "flush", "start", "turn", "waiting", "answered", "seq", "par", "turnEnd",
           "ended", "closing", "settle"}
Looping == \/ run.phase \in {"start", "turn", "waiting", "answered", "seq", "par", "turnEnd"}
           \/ (run.phase = "ended" /\ run.out # <<>>)
Ready(phase) == run.phase = phase /\ run.out = <<>>

Ids(from, ms) == [i \in DOMAIN ms |-> from + i]
Logs(ms) == log' = log \o ms

Init ==
  /\ log = <<>>
  /\ mem = <<>>
  /\ store = EmptyStore
  /\ run = Idle
  /\ tools = NoTools
  /\ queue = [steer |-> 0, follow |-> 0]
  /\ started = {}
  /\ spent = [requests |-> 0, prompts |-> 0, calls |-> 0, queued |-> 0, cancels |-> 0, closes |-> 0,
              faults |-> 0, restarts |-> 0]

\* harness._run(): interrupted calls are answered first, then come the prompts.
Begin(ms, prompts) ==
  LET repairs == Interrupted(Records(ms))
      ids == Ids(Len(log), repairs)
  IN  /\ Logs(repairs \o prompts)
      /\ mem' = ms \o ids
      /\ run' = [Idle EXCEPT !.phase = "start",
                             !.out = ids \o Ids(Len(log) + Len(repairs), prompts)]

\* prompt(): writes that failed are finished first.
Prompt ==
  /\ run.phase = "idle" /\ spent.prompts < MaxPrompts
  /\ spent' = [spent EXCEPT !.prompts = @ + 1]
  /\ IF store.writes = <<>> THEN Begin(mem, <<Plain>>)
     ELSE run' = [Idle EXCEPT !.phase = "flush", !.out = store.writes] /\ UNCHANGED <<log, mem>>
  /\ UNCHANGED <<store, tools, queue, started>>

Flushed ==
  /\ Ready("flush")
  /\ Begin(mem, <<Plain>>)
  /\ UNCHANGED <<store, tools, queue, started, spent>>

\* A message is appended to the history and its end published: the session saves
\* it.  If that fails, the run ends with a failed answer (a second failure is
\* raised to the caller), a prompt is refused, and the repairs after a cancelled
\* run and the second attempts at its end are skipped.
Publish ==
  /\ run.out # <<>>
  /\ \E fault \in {"none"} \cup (IF Troubles THEN {"before", "after"} ELSE {}) :
       LET n       == Head(run.out)
           mem1    == IF n \in Range(mem) THEN mem ELSE Append(mem, n)
           failure == Len(log) + 1
           goesOn  == fault = "none" \/ run.phase \in {"closing", "settle"}
           raised  == run.phase = "flush" \/ run.failing
       IN  /\ spent' = [spent EXCEPT !.faults = @ + (IF fault = "none" THEN 0 ELSE 1)]
           /\ store' = Saved(store, n, fault)
           /\ \/ /\ goesOn
                 /\ mem' = mem1
                 /\ run' = [run EXCEPT !.out = Tail(@)]
                 /\ UNCHANGED log
              \/ /\ ~goesOn /\ raised
                 /\ mem' = mem1
                 /\ run' = IF run.failing THEN [run EXCEPT !.out = <<>>] ELSE Idle
                 /\ UNCHANGED log
              \/ /\ ~goesOn /\ ~raised
                 /\ Logs(<<Answered(0, 0, IF run.cancelled THEN "aborted" ELSE "error", TRUE)>>)
                 /\ mem' = Append(mem1, failure)
                 /\ run' = [run EXCEPT !.phase = "ended", !.out = <<failure>>, !.error = FALSE,
                                       !.failing = TRUE]
  /\ UNCHANGED <<tools, queue, started>>

\* The next turn, with the messages that were polled for it.
Goes(polled) ==
  /\ Logs(polled)
  /\ run' = [run EXCEPT !.phase = "turn", !.out = Ids(Len(log), polled), !.emptied = @ \/ run.blank]

Polled(which) ==
  /\ queue[which] > 0
  /\ queue' = [queue EXCEPT ![which] = @ - 1]
  /\ Goes(<<Plain>>)

\* The first poll of the steering queue.
StartTurn ==
  /\ Ready("start")
  /\ Polled("steer") \/ (queue.steer = 0 /\ Goes(<<>>) /\ UNCHANGED queue)
  /\ UNCHANGED <<mem, store, tools, started, spent>>

\* A run that was cancelled before does not reach the provider any more.
Request ==
  /\ Ready("turn") /\ (run.cancelled \/ spent.requests < MaxRequests)
  /\ spent' = [spent EXCEPT !.requests = @ + (IF run.cancelled THEN 0 ELSE 1)]
  /\ run' = [run EXCEPT !.phase = "waiting", !.late = run.cancelled]
  /\ UNCHANGED <<log, mem, store, tools, queue, started>>

\* The provider's answer: complete, cut at its length, or an error; one that failed
\* or was aborted on the way may have begun calls.  (One that was cut without a call
\* goes on like a complete one.)
Answer(calls, stop, blank) ==
  /\ Ready("waiting")
  /\ run.cancelled <=> stop = "aborted"
  /\ blank => calls = 0 /\ stop # "cut"
  /\ stop = "cut" => calls > 0
  /\ run.late => blank
  /\ spent.calls + calls <= MaxCalls
  /\ spent' = [spent EXCEPT !.calls = @ + calls]
  /\ Logs(<<Answered(spent.requests, calls, stop, blank)>>)
  /\ run' = [run EXCEPT !.phase = "answered", !.answer = Len(log) + 1, !.out = <<Len(log) + 1>>]
  /\ UNCHANGED <<mem, store, tools, queue, started>>

\* What the loop does with an answer that is in the history.
FailedEnds ==
  /\ Ready("answered") /\ Failed(log[run.answer])
  /\ run' = [run EXCEPT !.phase = "ended", !.error = log[run.answer].stop = "error"]
  /\ UNCHANGED <<log, mem, store, tools, queue, started, spent>>

\* Without words or calls: once it is asked to go on, then the run ends.
BlankEnds ==
  /\ Ready("answered")
  /\ log[run.answer].stop = "done" /\ log[run.answer].blank
  /\ IF run.emptied
     THEN /\ Logs(<<Answered(spent.requests, 0, "error", TRUE)>>)
          /\ run' = [run EXCEPT !.phase = "ended", !.out = <<Len(log) + 1>>]
     ELSE /\ run' = [run EXCEPT !.phase = "turnEnd", !.blank = TRUE, !.more = FALSE]
          /\ UNCHANGED log
  /\ UNCHANGED <<mem, store, tools, queue, started, spent>>

\* Words only: there is nothing to execute.
WordsEnd ==
  /\ Ready("answered") /\ ~Failed(log[run.answer])
  /\ log[run.answer].calls = 0 /\ ~(log[run.answer].stop = "done" /\ log[run.answer].blank)
  /\ run' = [run EXCEPT !.phase = "turnEnd", !.blank = FALSE, !.more = FALSE]
  /\ UNCHANGED <<log, mem, store, tools, queue, started, spent>>

Calls == CallsOf(log[run.answer])

\* Mutation: what was cut is executed like the rest.
CutUnnoticed == FALSE

\* An answer that was cut at its length: none of its calls is executed.
Cut == log[run.answer].stop = "cut"

BatchBegins ==
  /\ Ready("answered") /\ ~Failed(log[run.answer]) /\ Calls # <<>>
  /\ tools' = NoTools
  /\ IF Cut
     THEN LET results == [k \in DOMAIN Calls |-> Result(Calls[k], "truncated")]
          IN  /\ Logs(results)
              /\ run' = [run EXCEPT !.phase = "turnEnd", !.blank = FALSE, !.more = TRUE,
                                    !.out = Ids(Len(log), results)]
     ELSE /\ \E mode \in {"seq", "par"} :
               run' = [run EXCEPT !.phase = mode, !.blank = FALSE, !.more = TRUE, !.next = 1]
          /\ UNCHANGED log
  /\ UNCHANGED <<mem, store, queue, started, spent>>

-----------------------------------------------------------------------------
(* A batch of calls, one after the other or side by side.                  *)

\* The outcome of a call becomes its result.
Settles(k, how) ==
  /\ tools' = [tools EXCEPT ![k] = how]
  /\ Logs(<<Result(Calls[k], how)>>)
  /\ run' = [run EXCEPT !.out = <<Len(log) + 1>>, !.next = k + 1]

\* After a result, a cancelled batch stops; a hook may hold each call up before it
\* is refused, aborted or entered.
SeqBegins ==
  /\ Ready("seq") /\ run.next <= Len(Calls) /\ tools[run.next] = "none"
  /\ run.next > 1 => ~run.cancelled
  /\ tools' = [tools EXCEPT ![run.next] = "preparing"]
  /\ UNCHANGED <<log, mem, store, run, queue, started, spent>>

SeqPrepare ==
  /\ Ready("seq") /\ run.next <= Len(Calls) /\ tools[run.next] = "preparing"
  /\ \/ Settles(run.next, "refused") /\ UNCHANGED started
     \/ run.cancelled /\ Settles(run.next, "aborted") /\ UNCHANGED started
     \/ /\ ~run.cancelled
        /\ tools' = [tools EXCEPT ![run.next] = "running"]
        /\ started' = started \cup {Calls[run.next]}
        /\ UNCHANGED <<log, run>>
  /\ UNCHANGED <<mem, store, queue, spent>>

\* A call that runs when the run is cancelled is waited for all the same; its
\* outcome is then no longer looked at.
SeqDone ==
  /\ Ready("seq") /\ run.next <= Len(Calls) /\ tools[run.next] = "running"
  /\ Settles(run.next, IF run.cancelled THEN "aborted" ELSE "ran")
  /\ UNCHANGED <<mem, store, queue, started, spent>>

\* Whether every result so far may ask for the end of the run.
Terminates == \A k \in DOMAIN Calls : tools[k] \in {"none", "ran", "refused"}

SeqEnds ==
  /\ Ready("seq")
  /\ run.next <= Len(Calls) => run.cancelled /\ run.next > 1 /\ tools[run.next] = "none"
  /\ \E more \in {TRUE, ~Terminates} : run' = [run EXCEPT !.phase = "turnEnd", !.more = more]
  /\ tools' = NoTools
  /\ UNCHANGED <<log, mem, store, queue, started, spent>>

\* Each call is prepared in turn, until the run is cancelled.
ParPrepare ==
  /\ Ready("par") /\ run.next <= Len(Calls)
  /\ \E how \in {"refused", IF run.cancelled THEN "aborted" ELSE "prepared"} :
       tools' = [tools EXCEPT ![run.next] = how]
  /\ run' = [run EXCEPT !.next = IF run.cancelled THEN Len(Calls) + 1 ELSE @ + 1]
  /\ UNCHANGED <<log, mem, store, queue, started, spent>>

Prepared == {k \in DOMAIN Calls : tools[k] = "prepared"}
InFlight == {k \in DOMAIN Calls : tools[k] = "running"}

\* All that were prepared are started, also when the run was cancelled since.
ParStart ==
  /\ Ready("par") /\ run.next > Len(Calls) /\ Prepared # {}
  /\ tools' = [k \in DOMAIN tools |-> IF tools[k] = "prepared" THEN "running" ELSE tools[k]]
  /\ started' = started \cup {Calls[k] : k \in Prepared}
  /\ UNCHANGED <<log, mem, store, run, queue, spent>>

ParDone(k) ==
  /\ Ready("par") /\ k \in InFlight
  /\ \E how \in {"ran"} \cup (IF run.cancelled THEN {"aborted"} ELSE {}) :
       tools' = [tools EXCEPT ![k] = how]
  /\ UNCHANGED <<log, mem, store, run, queue, started, spent>>

\* The results are written in the order of the calls.
ParEnds ==
  /\ Ready("par") /\ run.next > Len(Calls) /\ Prepared \cup InFlight = {}
  /\ LET settled == Within([k \in DOMAIN Calls |-> k], {k \in DOMAIN Calls : tools[k] # "none"})
         results == [i \in DOMAIN settled |-> Result(Calls[settled[i]], tools[settled[i]])]
     IN  /\ Logs(results)
         /\ \E more \in {TRUE, ~Terminates} :
              run' = [run EXCEPT !.phase = "turnEnd", !.more = more, !.out = Ids(Len(log), results)]
  /\ tools' = NoTools
  /\ UNCHANGED <<mem, store, queue, started, spent>>

-----------------------------------------------------------------------------
(* After a turn, and the end of a run.                                     *)

\* should_stop_after_turn(): the run waits for an approval.
Pauses ==
  /\ Ready("turnEnd")
  /\ run' = [run EXCEPT !.phase = "ended"]
  /\ UNCHANGED <<log, mem, store, tools, queue, started, spent>>

\* The next turn takes a steering message; without one it is made when tools
\* have run, after a blank answer, or for a follow-up.
NextTurn ==
  /\ Ready("turnEnd")
  /\ \/ Polled("steer")
     \/ queue.steer = 0 /\ run.blank /\ Goes(<<Plain>>) /\ UNCHANGED queue
     \/ queue.steer = 0 /\ ~run.blank /\ run.more /\ Goes(<<>>) /\ UNCHANGED queue
     \/ queue.steer = 0 /\ ~run.blank /\ ~run.more /\ Polled("follow")
     \/ /\ queue.steer = 0 /\ ~run.blank /\ ~run.more /\ queue.follow = 0
        /\ run' = [run EXCEPT !.phase = "ended"]
        /\ UNCHANGED <<queue, log>>
  /\ UNCHANGED <<mem, store, tools, started, spent>>

\* _run_transient_retries(): a failed answer is dropped and the run goes on.
Retry ==
  /\ Ready("ended") /\ run.error /\ ~run.cancelled /\ spent.requests < MaxRequests
  /\ Begin(Front(mem), <<>>)
  /\ UNCHANGED <<store, tools, queue, started, spent>>

\* The end of harness._run(): after a cancelled run its open calls are answered.
\* Of a failure that is worth a retry the answer is dropped, also when the retry is
\* cancelled while it waits.
Finish ==
  /\ Ready("ended")
  /\ LET repairs == IF run.cancelled THEN Interrupted(Records(mem)) ELSE <<>>
         ids == Ids(Len(log), repairs)
     IN  /\ Logs(repairs)
         /\ \E drop \in {FALSE, run.error /\ repairs = <<>>} :
              mem' = IF drop THEN Front(mem) ELSE mem \o ids
         /\ run' = [run EXCEPT !.phase = "closing", !.out = ids]
  /\ UNCHANGED <<store, tools, queue, started, spent>>

\* _reconcile_run_persistence(): what could not be saved is tried again.
Settle ==
  /\ Ready("closing") \/ Ready("settle")
  /\ LET unsaved == Within(mem, Range(store.writes))
     IN  run' = IF run.phase = "closing" /\ unsaved # <<>>
                THEN [run EXCEPT !.phase = "settle", !.out = unsaved]
                ELSE Idle
  /\ tools' = NoTools
  /\ UNCHANGED <<log, mem, store, queue, started, spent>>

-----------------------------------------------------------------------------
(* The user, the consumer of the events, and the process.                  *)

\* A queued message is read at the next poll, so it is put there right before one.
Queue(which) ==
  /\ Ready("start") \/ Ready("turnEnd")
  /\ spent.queued < MaxQueued
  /\ spent' = [spent EXCEPT !.queued = @ + 1]
  /\ queue' = [queue EXCEPT ![which] = @ + 1]
  /\ UNCHANGED <<log, mem, store, run, tools, started>>

\* harness.cancel().
Cancel ==
  /\ Looping /\ ~run.cancelled /\ Troubles
  /\ spent' = [spent EXCEPT !.cancels = @ + 1]
  /\ run' = [run EXCEPT !.cancelled = TRUE]
  /\ UNCHANGED <<log, mem, store, tools, queue, started>>

\* The generator of events is closed: tools that run are cancelled.
Close ==
  /\ Looping /\ Troubles
  /\ spent' = [spent EXCEPT !.closes = @ + 1]
  /\ run' = [run EXCEPT !.phase = "ended", !.out = <<>>, !.error = FALSE]
  /\ UNCHANGED <<log, mem, store, tools, queue, started>>

\* The process ends and another loads the session: the history on the path to
\* the last entry, repaired; what the repair changed is appended as a branch.
Restart ==
  /\ Troubles
  /\ spent' = [spent EXCEPT !.restarts = @ + 1]
  /\ LET path  == Path(store, store.tip)
         old   == Records(path)
         fixed == Repair(old)
         keep  == Len(LongestCommonPrefix({old, fixed}))
         new   == SubSeq(fixed, keep + 1, Len(fixed))
         ids   == Ids(Len(log), new)
         under == IF keep = 0 THEN 0 ELSE path[keep]
         tip   == IF new # <<>> THEN Last(ids) ELSE IF fixed # old THEN under ELSE store.tip
     IN  /\ log' = log \o new
         /\ mem' = SubSeq(path, 1, keep) \o ids
         /\ store' = [store EXCEPT
              !.file = @ \cup Range(ids), !.tip = tip, !.last = tip, !.writes = <<>>,
              !.up = Parents(@, [n \in Range(ids) |->
                                   IF n = Len(log) + 1 THEN under ELSE n - 1])]
  /\ run' = Idle
  /\ tools' = NoTools
  /\ queue' = [steer |-> 0, follow |-> 0]
  /\ UNCHANGED started

-----------------------------------------------------------------------------
ToolStep == SeqDone \/ \E k \in 1..MaxCalls : ParDone(k)

LoopStep ==
  \/ Flushed \/ Publish \/ StartTurn \/ Request \/ FailedEnds \/ BlankEnds \/ WordsEnd
  \/ BatchBegins \/ SeqBegins \/ SeqPrepare \/ SeqEnds \/ ParPrepare \/ ParStart \/ ParEnds
  \/ Pauses \/ NextTurn \/ Retry \/ Finish \/ Settle
  \/ \E calls \in 0..MaxCalls, stop \in {"done", "cut", "error", "aborted"}, blank \in BOOLEAN :
       Answer(calls, stop, blank)

Next ==
  \/ Prompt \/ ToolStep \/ LoopStep \/ Cancel \/ Close \/ Restart
  \/ \E which \in {"steer", "follow"} : Queue(which)

Spec == Init /\ [][Next]_vars

-----------------------------------------------------------------------------
\* Typing: the history and the list of unfinished writes name messages, none of
\* them twice; what is in the file has a parent.
TypeOK ==
  /\ mem \in Seq(DOMAIN log) /\ IsInjective(mem)
  /\ store.file \subseteq DOMAIN store.up
  /\ store.tip \in store.file \cup {0}
  /\ store.writes \in Seq(DOMAIN log) /\ IsInjective(store.writes)
  /\ run.phase \in Phases
  /\ Range(run.out) \subseteq DOMAIN log

\* A transcript that providers accept: every call is answered once, right after the
\* answer that made it, and there is no result of anything else.
Paired(ms) ==
  /\ \A i \in DOMAIN ms :
       LET n == Len(CallsOf(ms[i]))
       IN  /\ i + n <= Len(ms)
           /\ \A k \in 1..n : ms[i + k].kind = "result" /\ ms[i + k].of[1] = ms[i].turn
  /\ \A i \in Results(ms) : ms[i].of \in UNION {Range(CallsOf(ms[j])) : j \in 1..(i - 1)}
  /\ \A i, j \in Results(ms) : ms[i].of = ms[j].of => i = j

Asking == Ready("waiting") /\ ~run.late

\* Where the code does not keep the pairing: after an answer that failed when it had
\* begun calls (its results stay although it is left out), and where the results a later
\* repair gave stand behind something else than their answer, since the missing ones are
\* then made a second time: after a cancelled run with a queued message or a later load,
\* and after a load of a file that an append and its repetition could not be saved in.
Clean ==
  /\ \A i \in DOMAIN log : Failed(log[i]) => log[i].calls = 0
  /\ spent.cancels > 0 => spent.queued = 0 /\ spent.restarts = 0
  /\ spent.faults > 1 => spent.restarts = 0

\* However a run before ended - its consumer gone, a message that could not be
\* saved, the process killed and the session loaded again - the next request to the
\* provider pairs calls and results (loop.py:425-441, harness.py:404-426,
\* tool_history.py:40-91, session.py:3558-3631).
RequestIsPaired == (Clean /\ Asking) => Paired(Context(mem))

\* The messages that say something: all but failed answers and the results that only
\* stand for one that is not there.
Telling ==
  {n \in DOMAIN log :
     /\ ~Failed(log[n])
     /\ log[n].kind = "result" => log[n].how \notin {"interrupted", "missing"}}

\* At rest, with every write finished, a load of the file would bring back what the
\* session has in memory, in the same order: attempts that failed, their repetition
\* and the branch of a repair lose, double or move no message (session.py:3672-3754).
SavedIsMemory ==
  (run.phase = "idle" /\ store.writes = <<>>) =>
    Within(mem, Telling) = Within(Path(store, store.tip), Telling)

\* A tool is only entered for a call of a complete answer that is already in the
\* session file, and no result says of such a call that it was not executed: what
\* ran in the ERP can be found again after a crash (loop.py:569-864, session.py:3665).
RanIsRecorded ==
  \A c \in started :
    /\ \E n \in store.file : log[n].kind = "assistant" /\ log[n].turn = c[1] /\ log[n].stop = "done"
    /\ \A i \in Results(log) : log[i].of = c => log[i].how \notin {"refused", "truncated"}
=============================================================================
