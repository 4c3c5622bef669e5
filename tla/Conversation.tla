---------------------------- MODULE Conversation ----------------------------
(***************************************************************************)
(* The conversation of one session of src/src/erp_harness/app/host.py: what *)
(* the user says, the proposals a conversation's model makes of it, the    *)
(* goals the user confirms, and how goal and follow-up words are handed to *)
(* the business runs that work on them.                                    *)
(*                                                                         *)
(* The host's handlers and the threads that read its workers take turns    *)
(* under one lock: each is one step here.  What a run does to its ledger,  *)
(* its approvals and a crash of the host are the subject of HostRuns; of a *)
(* run this module keeps what its model has been told.                     *)
(***************************************************************************)
EXTENDS Naturals, FiniteSets, FiniteSetsExt, SequencesExt

CONSTANTS
  Businesses,
  Legacy,        \* businesses of an older state file, their goal not confirmed
  NoBusiness,
  MaxConvs,      \* conversations the user starts
  MaxRuns,       \* business runs
  MaxNotes,      \* words sent to a business, revisions of an approval included
  MaxProposals   \* proposals the models make

ASSUME ConversationAssumption ==
  /\ IsFiniteSet(Businesses) /\ Legacy \subseteq Businesses
  /\ NoBusiness \notin Businesses
  /\ {MaxConvs, MaxRuns, MaxNotes, MaxProposals} \subseteq Nat

Convs == 1..MaxConvs
Runs  == 1..MaxRuns
Jobs  == ({"conv"} \X Convs) \cup ({"run"} \X Runs)
NoJob == <<"none", 0>>

VARIABLES
  messages,  \* of the session, in order; a message is named by its position
  conv,      \* conversation_runs
  business,  \* businesses
  run,       \* runs
  session,   \* active_run_id of the session
  procs,     \* _processes
  worker,    \* the process of a job
  pipe,      \* proposals a conversation has printed
  told       \* what the model session of a business holds

hostVars == <<messages, conv, business, run, session, procs>>
vars == <<messages, conv, business, run, session, procs, worker, pipe, told>>

Positions == Nat \ {0}
Goals     == Nat   \* 0: the goal of a legacy business
Active    == {"running", "awaiting_approval", "cancel_requested"}
Resumable == {"interrupted", "failed", "cancelled"}
Ended     == Resumable \cup {"completed", "awaiting_input", "needs_reconciliation"}
Alive     == {"boot", "prompted", "worked"}

\* by: submitted_run_id of the words of a user.  The other fields of a proposal:
\* existing_business_id, and source_messages as positions.
Message ==
  [role : {"user"}, business : Businesses \cup {NoBusiness}, by : {0} \cup Runs]
  \cup
  [role : {"proposal"}, conv : Convs, target : Businesses \cup {NoBusiness},
   sources : SUBSET Positions, status : {"pending", "confirmed", "rejected", "superseded"}]

TypeOK ==
  /\ messages \in Seq(Message)
  /\ conv \in [Convs ->
       [status : {"absent"} \cup Active \cup Ended, sources : SUBSET Positions,
        revision : Businesses \cup {NoBusiness}, proposals : Seq(Positions),
        stop : BOOLEAN]]
  /\ business \in [Businesses ->
       [status : {"absent", "ready", "blocked"} \cup Active \cup Ended, goal : Goals,
        goalSubmitted : BOOLEAN, words : SUBSET Positions, asks : BOOLEAN,
        active : {0} \cup Runs]]
  /\ run \in [Runs ->
       [status : {"absent"} \cup Active \cup Ended, business : Businesses \cup {NoBusiness},
        goal : Goals, words : SUBSET Goals, revised : {0} \cup Positions,
        continued : BOOLEAN, touched : BOOLEAN, stop : BOOLEAN]]
  /\ session \in Jobs \cup {NoJob}
  /\ procs \subseteq Jobs
  /\ worker \in [Jobs -> {"none", "exit0", "exit1"} \cup Alive]
  /\ pipe \in [Convs -> Seq(Businesses \cup {NoBusiness})]
  /\ told \in [Businesses -> SUBSET Goals]

Init ==
  /\ messages = <<>>
  /\ conv = [c \in Convs |-> [status |-> "absent", sources |-> {}, revision |-> NoBusiness,
                              proposals |-> <<>>, stop |-> FALSE]]
  /\ business = [b \in Businesses |->
       [status |-> IF b \in Legacy THEN "ready" ELSE "absent", goal |-> 0,
        goalSubmitted |-> b \in Legacy, words |-> {}, asks |-> b \in Legacy, active |-> 0]]
  /\ run = [r \in Runs |-> [status |-> "absent", business |-> NoBusiness, goal |-> 0,
                            words |-> {}, revised |-> 0, continued |-> FALSE,
                            touched |-> FALSE, stop |-> FALSE]]
  /\ session = NoJob
  /\ procs = {}
  /\ worker = [j \in Jobs |-> "none"]
  /\ pipe = [c \in Convs |-> <<>>]
  /\ told = [b \in Businesses |-> {}]

-----------------------------------------------------------------------------
(* What the handlers ask of the state.                                     *)

Known(b)  == business[b].status # "absent"
Asks(b)   == business[b].asks \/ business[b].status = "awaiting_input"
IsUser(i) == messages[i].role = "user"
IsProposal(i) == messages[i].role = "proposal"
Users      == {i \in DOMAIN messages : IsUser(i)}
Proposals  == {i \in DOMAIN messages : IsProposal(i)}
Confirmed  == {p \in Proposals : messages[p].status = "confirmed"}
Spoken     == {i \in Users : messages[i].business = NoBusiness}
Notes(b)   == {i \in Users : messages[i].business = b}
Latest(S)  == IF S = {} THEN 0 ELSE Max(S)
RunsOf(b)  == {r \in Runs : run[r].business = b}

\* Mutation: live processes are not looked at.
IdleButProcs(r) ==
  /\ \A c \in Convs : conv[c].status \notin Active
  /\ \A q \in Runs \ {r} : run[q].status \notin Active
  /\ session \in {NoJob, <<"run", r>>}

\* _require_idle(except_run_id)
IdleBut(r) ==
  /\ procs = {}
  /\ \A c \in Convs : conv[c].status \notin Active
  /\ \A q \in Runs \ {r} : run[q].status \notin Active
  /\ session \in {NoJob, <<"run", r>>}
Idle == IdleBut(0)

\* _require_known_writes()
WritesKnown(b) == \A r \in RunsOf(b) : run[r].status # "needs_reconciliation"

\* Mutation: the words count from the last proposal, confirmed or not.
SourcesSinceProposal(ms, context) ==
  {i \in DOMAIN ms : /\ ms[i].role = "user" /\ ms[i].business = NoBusiness
                     /\ i > Latest({p \in DOMAIN ms : ms[p].role = "proposal"})}
  \cup (IF context = NoBusiness THEN {} ELSE business[context].words)

\* The words since the last confirmed proposal, after those of the context.
Sources(ms, context) ==
  LET settled == {p \in DOMAIN ms : ms[p].role = "proposal" /\ ms[p].status = "confirmed"}
  IN  {i \in DOMAIN ms : /\ ms[i].role = "user" /\ ms[i].business = NoBusiness
                         /\ i > Latest(settled)}
      \cup (IF context = NoBusiness THEN {} ELSE business[context].words)

Open(j) ==
  /\ procs' = procs \cup {j}
  /\ worker' = [worker EXCEPT ![j] = "boot"]

Collected(j) ==
  /\ procs' = procs \ {j}
  /\ worker' = [worker EXCEPT ![j] = "none"]

-----------------------------------------------------------------------------
(* send_message()                                                          *)

User(b, r) == [role |-> "user", business |-> b, by |-> r]

NotesUsed == Cardinality({i \in Users : messages[i].business # NoBusiness})

\* Words for a business wait for its next run.
SendNote(b) ==
  /\ Known(b) /\ ~Asks(b)
  /\ Idle
  /\ NotesUsed < MaxNotes
  /\ messages' = Append(messages, User(b, 0))
  /\ UNCHANGED <<conv, business, run, session, procs, worker, pipe, told>>

\* Other words start a conversation, which may have a business for its context;
\* for a business that asks for them, its revision.
SendRequest(c, context) ==
  /\ conv[c].status = "absent" /\ \A d \in Convs : d < c => conv[d].status # "absent"
  /\ context # NoBusiness => Known(context)
  /\ Idle
  /\ LET ms == Append(messages, User(NoBusiness, 0))
         asked == context # NoBusiness /\ Asks(context)
         started(status) ==
           conv' = [conv EXCEPT ![c].status = status, ![c].sources = Sources(ms, context),
                                ![c].revision = IF asked THEN context ELSE NoBusiness]
     IN  /\ messages' = ms
         /\ \/ started("running") /\ session' = <<"conv", c>> /\ Open(<<"conv", c>>)
            \/ started("failed") /\ UNCHANGED <<session, procs, worker>>
  /\ UNCHANGED <<business, run, pipe, told>>

-----------------------------------------------------------------------------
(* A conversation: its worker, and the thread that reads it.               *)

\* propose_business succeeds, for a new business or one the model names.
ConvProposes(c, target) ==
  /\ worker[<<"conv", c>>] \in Alive
  /\ Cardinality(Proposals) + Len(pipe[c]) < MaxProposals
  /\ pipe' = [pipe EXCEPT ![c] = Append(@, target)]
  /\ UNCHANGED <<hostVars, worker, told>>

\* The proposals of the conversation that are still open.
Supersede(ms, c) ==
  [i \in DOMAIN ms |->
     IF i \in Range(conv[c].proposals) /\ ms[i].status = "pending"
     THEN [ms[i] EXCEPT !.status = "superseded"] ELSE ms[i]]

\* _conversation_tool_end(): a proposal that cannot be grounded is dropped.
Shown(c, named) ==
  LET target == IF conv[c].revision # NoBusiness THEN conv[c].revision ELSE named
      row == [role |-> "proposal", conv |-> c, target |-> target,
              sources |-> conv[c].sources, status |-> "pending"]
  IN  \/ /\ target # NoBusiness => Known(target)
         /\ messages' = Append(Supersede(messages, c), row)
         /\ conv' = [conv EXCEPT ![c].proposals = Append(@, Len(messages) + 1)]
      \/ UNCHANGED <<messages, conv>>

ConvReads(c) ==
  /\ <<"conv", c>> \in procs /\ pipe[c] # <<>>
  /\ pipe' = [pipe EXCEPT ![c] = Tail(@)]
  /\ Shown(c, Head(pipe[c]))
  /\ UNCHANGED <<business, run, session, procs, worker, told>>

\* _finalize_conversation()
ConvFinal(c, status) ==
  /\ conv' = [conv EXCEPT ![c].status = status, ![c].stop = FALSE]
  /\ session' = IF session = <<"conv", c>> THEN NoJob ELSE session

\* The end of _consume_worker() for a conversation: "exit0" stands for exit code
\* 0 after a last turn that answered the user.
ConvCollected(c) ==
  LET j == <<"conv", c>>
  IN  /\ j \in procs /\ worker[j] \notin Alive /\ pipe[c] = <<>>
      /\ Collected(j)
      /\ ConvFinal(c, IF conv[c].stop THEN "cancelled"
                      ELSE IF worker[j] = "exit0" THEN "completed"
                      ELSE "failed")
      /\ UNCHANGED <<messages, business, run, pipe, told>>

\* cancel_conversation()
CancelConv(c) ==
  /\ conv[c].status \in {"running", "cancel_requested"}
  /\ IF <<"conv", c>> \in procs /\ worker[<<"conv", c>>] \in Alive
     THEN conv' = [conv EXCEPT ![c].status = "cancel_requested", ![c].stop = TRUE]
          /\ UNCHANGED session
     ELSE ConvFinal(c, "cancelled")
  /\ UNCHANGED <<messages, business, run, procs, worker, pipe, told>>

-----------------------------------------------------------------------------
(* confirm_business()                                                      *)

Reject(p) ==
  /\ p \in Proposals /\ messages[p].status = "pending"
  /\ messages' = [messages EXCEPT ![p].status = "rejected"]
  /\ UNCHANGED <<conv, business, run, session, procs, worker, pipe, told>>

\* Mutation: what the user has said since the proposal does not count.
UpToDateAlways(p) == TRUE

\* The last words of the user are among the sources of the proposal.
UpToDate(p) == Latest(Users) \in messages[p].sources

\* Mutation: a proposal can be confirmed while its conversation goes on.
ProducedEarly(p) == conv[messages[p].conv].status \in {"running", "completed"}

\* Its conversation has ended well, and this is the last it proposed.  (An
\* earlier one that is still pending would be superseded here: there is none.)
Produced(p) ==
  LET c == messages[p].conv
  IN  /\ conv[c].status = "completed" /\ <<"conv", c>> \notin procs
      /\ Last(conv[c].proposals) = p

\* Mutation: only a run that is working keeps its business's goal.
ChangeableUnlessRunning(b) == business[b].status \notin {"running", "cancel_requested"}

Changeable(b) ==
  /\ business[b].active = 0
  /\ business[b].status \notin Active \cup {"needs_reconciliation", "blocked"}

NewBusiness == CHOOSE b \in Businesses : ~Known(b)

WithGoal(b, p) ==
  [business EXCEPT ![b].status = "ready", ![b].goal = p, ![b].asks = FALSE,
                   ![b].words = messages[p].sources, ![b].goalSubmitted = FALSE]

Confirm(p) ==
  /\ p \in Proposals /\ messages[p].status = "pending"
  /\ Produced(p)
  /\ UpToDate(p)
  /\ LET target == messages[p].target
         b == IF target = NoBusiness THEN NewBusiness ELSE target
     IN  /\ IF target = NoBusiness THEN \E x \in Businesses : ~Known(x) ELSE Changeable(target)
         /\ business' = WithGoal(b, p)
  /\ messages' = [messages EXCEPT ![p].status = "confirmed"]
  /\ UNCHANGED <<conv, run, session, procs, worker, pipe, told>>

-----------------------------------------------------------------------------
(* Business runs: start, continuation and end.                             *)

\* Mutation: a mark is emptied instead of taken away.
UnmarkedEmpty(ms, r) ==
  [i \in DOMAIN ms |->
     IF ms[i].role = "user" /\ ms[i].by = r THEN [ms[i] EXCEPT !.by = NoBusiness] ELSE ms[i]]

\* The words handed to a run that came to nothing wait for the next.
Unmarked(ms, r) ==
  [i \in DOMAIN ms |->
     IF ms[i].role = "user" /\ ms[i].by = r THEN [ms[i] EXCEPT !.by = 0] ELSE ms[i]]

\* _finalize_run()
RunFinal(r, ms, status) ==
  LET unused == status = "failed" /\ ~run[r].touched
      b == run[r].business
  IN  /\ run' = [run EXCEPT ![r].status = status, ![r].stop = FALSE]
      /\ messages' = IF unused THEN Unmarked(ms, r) ELSE ms
      /\ business' = [business EXCEPT ![b].status = status, ![b].active = 0,
                                      ![b].goalSubmitted = @ /\ ~unused]
      /\ session' = NoJob

\* Mutation: the words an earlier run was handed are handed over again.
InstructionOfAll(b) ==
  Notes(b) \cup (IF business[b].goalSubmitted THEN {} ELSE {business[b].goal})

\* _instruction() of a first launch: the goal unless submitted, and the words
\* that wait.
Instruction(b) ==
  {i \in Notes(b) : messages[i].by = 0}
  \cup (IF business[b].goalSubmitted THEN {} ELSE {business[b].goal})

\* start_run() of a business that may run: with a worker, or failed at once.
Launched(r, b) ==
  /\ run' = [run EXCEPT ![r].status = "running", ![r].business = b,
                        ![r].goal = business[b].goal, ![r].words = Instruction(b)]
  /\ messages' = [i \in DOMAIN messages |->
       IF i \in Instruction(b) \cap Notes(b) THEN [messages[i] EXCEPT !.by = r] ELSE messages[i]]
  /\ business' = [business EXCEPT ![b].status = "running", ![b].active = r,
                                  ![b].goalSubmitted = TRUE]
  /\ session' = <<"run", r>>
  /\ Open(<<"run", r>>)

NotLaunched(r, b) ==
  /\ run' = [run EXCEPT ![r].status = "failed", ![r].business = b, ![r].goal = business[b].goal]
  /\ business' = [business EXCEPT ![b].status = "failed", ![b].goalSubmitted = FALSE]
  /\ UNCHANGED <<messages, session, procs, worker>>

StartRun(r, b) ==
  /\ run[r].status = "absent" /\ \A q \in Runs : q < r => run[q].status # "absent"
  /\ Known(b) /\ ~Asks(b)
  /\ Idle
  /\ IF WritesKnown(b) THEN Launched(r, b) \/ NotLaunched(r, b)
     ELSE /\ business' = [business EXCEPT ![b].status = "blocked"]
          /\ UNCHANGED <<messages, run, session, procs, worker>>
  /\ UNCHANGED <<conv, pipe, told>>

\* _launch(continue_run=True) of a run, with the messages ms.
Relaunch(r, ms, revised) ==
  \/ /\ run' = [run EXCEPT ![r].status = "running", ![r].continued = TRUE, ![r].revised = revised]
     /\ messages' = ms
     /\ business' = [business EXCEPT ![run[r].business].status = "running",
                                     ![run[r].business].active = r]
     /\ session' = <<"run", r>>
     /\ Open(<<"run", r>>)
  \/ RunFinal(r, ms, "failed") /\ UNCHANGED <<procs, worker>>

\* The latest run of a business that nothing was asked of or said to since.
UnchangedBusiness(r) ==
  LET b == run[r].business
  IN  /\ \A q \in RunsOf(b) : q <= r
      /\ ~Asks(b) /\ business[b].goalSubmitted
      /\ \A i \in Notes(b) : messages[i].by # 0

\* resume_run(); the session file is there once a model of the business was told
\* something.
ResumeRun(r) ==
  /\ run[r].status \in Resumable
  /\ Idle /\ WritesKnown(run[r].business)
  /\ UnchangedBusiness(r)
  /\ told[run[r].business] # {}
  /\ Relaunch(r, messages, run[r].revised)
  /\ UNCHANGED <<conv, pipe, told>>

\* decide_approval(), once every action of the run is decided.
ContinueRun(r) ==
  /\ run[r].status = "awaiting_approval"
  /\ IdleBut(r)
  /\ Relaunch(r, messages, run[r].revised)
  /\ UNCHANGED <<conv, pipe, told>>

\* request_approval_revision(): words that go to the run they are about.
ReviseRun(r) ==
  /\ run[r].status = "awaiting_approval"
  /\ IdleBut(r) /\ WritesKnown(run[r].business)
  /\ NotesUsed < MaxNotes
  /\ Relaunch(r, Append(messages, User(run[r].business, r)), Len(messages) + 1)
  /\ UNCHANGED <<conv, pipe, told>>

\* cancel_run()
CancelRun(r) ==
  /\ run[r].status \in {"running", "awaiting_approval"}
  /\ IF <<"run", r>> \in procs /\ worker[<<"run", r>>] \in Alive
     THEN /\ run' = [run EXCEPT ![r].status = "cancel_requested", ![r].stop = TRUE]
          /\ business' = [business EXCEPT ![run[r].business].status = "cancel_requested"]
          /\ UNCHANGED <<messages, session>>
     ELSE RunFinal(r, messages, "cancelled")
  /\ UNCHANGED <<conv, procs, worker, pipe, told>>

\* The worker opens the business's session and prompts: with the instruction
\* file at first, then with the revision, or only a note that the run goes on.
RunPrompts(r) ==
  LET b == run[r].business
      text == IF ~run[r].continued THEN run[r].words ELSE {run[r].revised} \ {0}
  IN  /\ worker[<<"run", r>>] = "boot"
      /\ worker' = [worker EXCEPT ![<<"run", r>>] = "prompted"]
      /\ told' = [told EXCEPT ![b] = @ \cup text]
      /\ UNCHANGED <<hostVars, pipe>>

\* A round or a tool of the model, as the host reads it.
RunWorks(r) ==
  /\ worker[<<"run", r>>] = "prompted"
  /\ worker' = [worker EXCEPT ![<<"run", r>>] = "worked"]
  /\ run' = [run EXCEPT ![r].touched = TRUE]
  /\ UNCHANGED <<messages, conv, business, session, procs, pipe, told>>

\* A job's process ends: well, or at any point in another way.
Ends(j, code) ==
  /\ worker[j] \in Alive
  /\ code = "exit0" /\ j \in {"run"} \X Runs => worker[j] = "worked"
  /\ worker' = [worker EXCEPT ![j] = code]
  /\ UNCHANGED <<hostVars, pipe, told>>

\* What _consume_worker() may find at the end of a run.  One that was cancelled
\* when its process had already ended has no approval left to wait for.
Outcomes(r) ==
  LET settled == IF run[r].stop THEN {"cancelled"}
                 ELSE IF worker[<<"run", r>>] = "exit1" \/ ~run[r].touched THEN {"failed"}
                 ELSE {"failed", "awaiting_input", "completed"}
                      \cup (IF run[r].status \in Active THEN {"awaiting_approval"} ELSE {})
  IN  settled \cup (IF run[r].touched THEN {"needs_reconciliation"} ELSE {})

RunCollected(r) ==
  LET j == <<"run", r>>
  IN  /\ j \in procs /\ worker[j] \notin Alive
      /\ Collected(j)
      /\ \E status \in Outcomes(r) :
           IF status = "awaiting_approval"
           THEN /\ run' = [run EXCEPT ![r].status = status]
                /\ business' = [business EXCEPT ![run[r].business].status = status]
                /\ UNCHANGED <<messages, session>>
           ELSE RunFinal(r, messages, status)
      /\ UNCHANGED <<conv, pipe, told>>

\* close(), and _recover_on_start() of the next host.
Restart ==
  LET caught == {r \in Runs : run[r].status \in Active}
  IN  /\ conv' = [c \in Convs |-> IF conv[c].status \in Active
                    THEN [conv[c] EXCEPT !.status = "interrupted", !.stop = FALSE] ELSE conv[c]]
      /\ run' = [r \in Runs |-> IF r \in caught
                   THEN [run[r] EXCEPT !.status = "interrupted", !.stop = FALSE] ELSE run[r]]
      /\ business' = [b \in Businesses |-> IF \E r \in caught : run[r].business = b
                        THEN [business[b] EXCEPT !.status = "interrupted", !.active = 0]
                        ELSE business[b]]
      /\ session' = NoJob
      /\ procs' = {}
      /\ worker' = [j \in Jobs |-> "none"]
      /\ pipe' = [c \in Convs |-> <<>>]
      /\ conv' # conv \/ run' # run
      /\ UNCHANGED <<messages, told>>

-----------------------------------------------------------------------------
Next ==
  \/ \E b \in Businesses : SendNote(b)
  \/ \E c \in Convs :
       \/ \E b \in Businesses \cup {NoBusiness} : SendRequest(c, b) \/ ConvProposes(c, b)
       \/ ConvReads(c) \/ ConvCollected(c) \/ CancelConv(c)
  \/ \E p \in DOMAIN messages : Reject(p) \/ Confirm(p)
  \/ \E r \in Runs :
       \/ \E b \in Businesses : StartRun(r, b)
       \/ ResumeRun(r) \/ ContinueRun(r) \/ ReviseRun(r) \/ CancelRun(r)
       \/ RunPrompts(r) \/ RunWorks(r) \/ RunCollected(r)
  \/ \E j \in Jobs, code \in {"exit0", "exit1"} : Ends(j, code)
  \/ Restart

Spec == Init /\ [][Next]_vars

-----------------------------------------------------------------------------
(* Properties.                                                             *)

\* What the user says is not lost between two goals: every word of the
\* conversation said since the previously confirmed proposal is a source of the
\* next one (send_message() collects the sources when the conversation starts,
\* confirm_business() decides long after).
GoalsCoverTheirWords ==
  \A p \in Confirmed : \A i \in Spoken :
    (i < p /\ ~\E q \in Confirmed : i < q /\ q < p) => i \in messages[p].sources

\* One request becomes at most one goal: of the proposals of a conversation no
\* two are confirmed, and the confirmed one is the last, of a conversation that
\* was not cancelled, did not fail and was not cut short.
OneGoalPerConversation ==
  \A p \in Confirmed :
    LET c == messages[p].conv
    IN  conv[c].status = "completed" /\ \A q \in Range(conv[c].proposals) : q <= p

\* A business never falls back to an older goal: its goal is the newest
\* confirmed proposal that names it, however the user answers the cards.
GoalIsNewest ==
  \A b \in Businesses : \A p \in Confirmed : messages[p].target = b => p <= business[b].goal

\* While a run of a business is running, paused for approval or being stopped,
\* the confirmed goal is the one it was started for: neither a confirmation nor
\* the resumption of an older run can make the two differ.
RunsWorkTheConfirmedGoal ==
  \A r \in Runs : run[r].status \in Active => run[r].goal = business[run[r].business].goal

\* A follow-up of the user is worked on by one run, however often it was handed
\* to a run that failed before its model began.
HandedOnce ==
  \A i \in Users : Cardinality({r \in Runs : run[r].touched /\ i \in run[r].words}) <= 1

\* The session and the business name the job that is under way, and at most one
\* is: an end that is noticed late never frees the place of a later job.
SessionNamesItsJob ==
  /\ \A c \in Convs : conv[c].status \in Active => session = <<"conv", c>>
  /\ \A r \in Runs : run[r].status \in Active =>
       session = <<"run", r>> /\ business[run[r].business].active = r

\* "the original user messages are safe to submit on a retry" (host.py:348):
\* while a model works for a business, it has been told all that is marked as
\* submitted to its runs.
SubmittedIsTold ==
  \A r \in Runs : worker[<<"run", r>>] = "worked" =>
    LET b == run[r].business
    IN  /\ {i \in Notes(b) : messages[i].by # 0} \subseteq told[b]
        /\ business[b].goalSubmitted => business[b].goal \in told[b]
=============================================================================
