----------------------------- MODULE HostClient -----------------------------
(***************************************************************************)
(* src/desktop/src/main/host.ts, the desktop's side of the workbench host, *)
(* with its two users in index.ts that stop it: the saving of settings and *)
(* the end of the application.                                             *)
(*                                                                         *)
(* The desktop's main process is single threaded: what runs between two    *)
(* waits for a timer, a file or an event of the child is one step.  The    *)
(* host processes it starts run beside it: each reads requests from its    *)
(* standard input one after the other and may end at any moment.           *)
(*                                                                         *)
(* Callers wait in call(): the requests of the window, the health request  *)
(* start() makes itself ("boot"), and the three of saving ("check" before, *)
(* "activate" and "restore" after).  Each sends at most one request.       *)
(***************************************************************************)
EXTENDS Naturals, FiniteSets, SequencesExt

CONSTANTS
  Calls,    \* requests of the window, each made once
  NoHost

SavePhases == {"check", "activate", "restore"}
Callers    == Calls \cup SavePhases \cup {"boot"}

\* A caller starts at most one host, and "check" finds one.
Hosts == 1..(Cardinality(Calls) + 2)

ASSUME ClientAssumption ==
  /\ IsFiniteSet(Calls)
  /\ NoHost \notin Hosts
  /\ Calls \cap (SavePhases \cup {"boot"}) = {}

VARIABLES
  client,   \* fields of HostClient and of its users
  proc,     \* process of a host: none, boot, up, dead, closed
  inbox,    \* requests written to a host and not yet read
  eof,      \* its standard input has been ended
  outbox,   \* its replies not yet read by the desktop
  active,   \* it has an active run
  env       \* the settings it was started with: secrets, data directory

hostVars == <<proc, inbox, eof, outbox, active, env>>
vars     == <<client, proc, inbox, eof, outbox, active, env>>

Alive == {h \in Hosts : proc[h] \in {"boot", "up"}}
Gone(h) == proc[h] \in {"dead", "closed"}

\* child: the current host.  pending: the map of requests, each with the host it
\* went to.  at: where a caller is.  start, stop: the two promises.  save, quit:
\* save_settings and before-quit.  settings: the settings file.
ClientType ==
  [child     : Hosts \cup {NoHost},
   pending   : SUBSET (Callers \X Hosts),
   at        : [Callers -> {"new", "waitStop", "waitStart", "sent", "ok", "failed"}],
   start     : {"none", "secrets", "directory", "health", "eof", "kill"},
   startHost : Hosts \cup {NoHost},
   startEnv  : {"old", "new"},
   cancelled : BOOLEAN,                 \* the generation moved since the start
   stop      : {"none", "eof", "kill", "startup"},
   stopHost  : Hosts \cup {NoHost},
   save      : {"idle", "check", "stop", "stopping", "copy", "activate",
                "undoing", "rollback", "restore", "done"},
   runActive : BOOLEAN,                 \* what the health of "check" said
   settings  : {"old", "new"},
   unfit     : SUBSET Hosts,            \* hosts whose health request failed
   quit      : {"no", "asked", "exited"},
   timedOut  : BOOLEAN]                 \* a termination was given up

Init ==
  /\ client = [child |-> NoHost, pending |-> {}, at |-> [x \in Callers |-> "new"],
               start |-> "none", startHost |-> NoHost, startEnv |-> "old",
               cancelled |-> FALSE, stop |-> "none", stopHost |-> NoHost,
               save |-> "idle", runActive |-> FALSE, settings |-> "old",
               unfit |-> {}, quit |-> "no", timedOut |-> FALSE]
  /\ proc = [h \in Hosts |-> "none"]
  /\ inbox = [h \in Hosts |-> <<>>]
  /\ eof = [h \in Hosts |-> FALSE]
  /\ outbox = [h \in Hosts |-> <<>>]
  /\ active = [h \in Hosts |-> FALSE]
  /\ env = [h \in Hosts |-> <<"old", "old">>]

Running == client.quit # "exited"
SettingsChanging == client.save \notin {"idle", "done"}
IsBusy == client.pending # {} \/ client.start # "none" \/ client.stop # "none"

-----------------------------------------------------------------------------
(* Pieces of the client, from one state of it to the next.                 *)

BootPending(c) == \E h \in Hosts : <<"boot", h>> \in c.pending

\* All callers in one place move to another.
MoveAll(at, from, to) == [x \in Callers |-> IF at[x] = from THEN to ELSE at[x]]

\* Mutation: the timers are cleared and the map emptied, but nobody is told.
RejectAllForgets(c) == [c EXCEPT !.pending = {}]

\* The pending requests are rejected and forgotten; "boot" is answered by Boot*.
RejectAll(c) ==
  [c EXCEPT !.pending = {},
            !.at = [x \in Callers |-> IF x # "boot" /\ c.at[x] = "sent" THEN "failed" ELSE @[x]]]

\* The rest of call(), once there is a child.
Sent(c, xs) ==
  [c EXCEPT !.pending = @ \cup {<<x, c.child>> : x \in xs},
            !.at = [x \in Callers |-> IF x \in xs THEN "sent" ELSE @[x]]]

\* Mutation: the request is written without a host having been started.
EnterUnstarted(c, x) ==
  IF c.stop # "none" THEN [c EXCEPT !.at[x] = "waitStop"] ELSE Sent(c, {x})

\* call() up to the request: ensureStarted() with what it finds.
Enter(c, x) ==
  IF c.stop # "none" THEN [c EXCEPT !.at[x] = "waitStop"]
  ELSE IF c.child # NoHost THEN Sent(c, {x})
  ELSE IF c.start # "none" THEN [c EXCEPT !.at[x] = "waitStart"]
  ELSE [c EXCEPT !.at[x] = "waitStart", !.start = "secrets", !.cancelled = FALSE]

\* start() throws: whoever waited for it gets its error.
StartFailed(c) ==
  [c EXCEPT !.start = "none", !.startHost = NoHost, !.startEnv = "old", !.cancelled = FALSE,
            !.at = MoveAll(@, "waitStart", "failed")]

\* Mutation: start() does not wait for the termination of a host that failed.
BootFailedUnwaited(c) ==
  StartFailed([c EXCEPT !.at["boot"] = "failed",
                        !.child = IF @ = c.startHost THEN NoHost ELSE @,
                        !.unfit = @ \cup {c.startHost}])

\* The health request of start() failed: its host is terminated first.
BootFailed(c) ==
  LET h == c.startHost
      d == [c EXCEPT !.at["boot"] = "failed", !.child = IF @ = h THEN NoHost ELSE @,
                     !.unfit = @ \cup {h}]
  IN  IF Gone(h) THEN StartFailed(d) ELSE [d EXCEPT !.start = "eof"]

\* start() returns: the callers that waited go on and send their requests.
BootDone(c) ==
  LET waiting == {x \in Callers : c.at[x] = "waitStart"}
  IN  Sent([c EXCEPT !.start = "none", !.startHost = NoHost, !.startEnv = "old",
                        !.at["boot"] = "ok"], waiting)

\* stoppingPromise settles: callers that waited for it start over, or fail with
\* it; save_settings and the end of the application go on.
StopSettled(c, ok) ==
  LET waiting == \E x \in Callers : c.at[x] = "waitStop"
      restart == ok /\ waiting /\ c.quit # "asked"
  IN  [c EXCEPT !.stop = "none", !.stopHost = NoHost,
                !.at = MoveAll(@, "waitStop", IF ok THEN "waitStart" ELSE "failed"),
                !.start = IF restart THEN "secrets" ELSE @,
                !.cancelled = IF restart THEN FALSE ELSE @,
                !.save = CASE @ = "stopping" -> (IF ok THEN "copy" ELSE "done")
                           [] @ = "undoing"  -> "rollback"
                           [] OTHER          -> @,
                !.quit = IF @ = "asked" THEN "exited" ELSE @]

\* What stop() does next when it has no process to wait for.
StopGoesOn(c) ==
  IF c.start # "none" THEN [c EXCEPT !.stop = "startup"] ELSE StopSettled(c, TRUE)

\* Mutation: the termination of the child is not waited for.
StoppedUnwaited(c) ==
  IF c.stop # "none" THEN c
  ELSE StopGoesOn([RejectAll(c) EXCEPT !.child = NoHost, !.cancelled = c.start # "none"])

\* stop(): joins the one in progress; otherwise rejects what is pending (the
\* health request of a start too) and terminates the child.
Stopped(c) ==
  IF c.stop # "none" THEN c
  ELSE LET h == c.child
           d == [RejectAll(c) EXCEPT !.child = NoHost, !.cancelled = c.start # "none"]
           e == IF BootPending(c) THEN BootFailed(d) ELSE d
       IN  IF h # NoHost /\ ~Gone(h) THEN [e EXCEPT !.stop = "eof", !.stopHost = h]
           ELSE StopGoesOn(e)

\* The standard inputs that terminate() ends along with a step.
EndInputs(c) ==
  eof' = [h \in Hosts |-> \/ eof[h] /\ ~Gone(h)
                          \/ c.start = "eof" /\ c.startHost = h
                          \/ c.stop = "eof" /\ c.stopHost = h]

\* A step of the client: its new state, with the requests that were written.
Becomes(c) ==
  /\ client' = c
  /\ inbox' = [h \in Hosts |->
                 LET new == {x \in Callers : <<x, h>> \in c.pending \ client.pending}
                 IN  IF Gone(h) THEN <<>> ELSE inbox[h] \o SetToSeq(new)]
  /\ EndInputs(c)

-----------------------------------------------------------------------------
(* The users of the client.                                                *)

\* Mutation: requests of the window are not held back while settings change.
RequestUnexcluded(x) ==
  /\ Running /\ client.at[x] = "new"
  /\ Becomes(Enter(client, x))
  /\ UNCHANGED <<proc, outbox, active, env>>

\* workbench:call of the window.
Request(x) ==
  /\ Running /\ client.at[x] = "new"
  /\ ~SettingsChanging
  /\ Becomes(Enter(client, x))
  /\ UNCHANGED <<proc, outbox, active, env>>

\* The end of the application: before-quit.
Quit ==
  /\ client.quit = "no"
  /\ Becomes(Stopped([client EXCEPT !.quit = "asked"]))
  /\ UNCHANGED <<proc, outbox, active, env>>

\* save_settings, when nothing is going on: a running host is asked whether it
\* has an active run.
SaveBegins ==
  /\ Running /\ client.save = "idle" /\ ~IsBusy
  /\ Becomes(IF client.child # NoHost
             THEN Enter([client EXCEPT !.save = "check"], "check")
             ELSE [client EXCEPT !.save = "stop"])
  /\ UNCHANGED <<proc, outbox, active, env>>

SaveChecked ==
  /\ Running /\ client.save = "check" /\ client.at["check"] \in {"ok", "failed"}
  /\ Becomes([client EXCEPT !.save = IF client.at["check"] = "ok" /\ ~client.runActive
                                     THEN "stop" ELSE "done"])
  /\ UNCHANGED <<proc, outbox, active, env>>

SaveStops ==
  /\ Running /\ client.save = "stop"
  /\ Becomes(Stopped([client EXCEPT !.save = "stopping"]))
  /\ UNCHANGED <<proc, outbox, active, env>>

\* saveSettings(): the data directory is copied and the file written, or not; the
\* host is started on the result.
SaveWrites ==
  /\ Running /\ client.save = "copy"
  /\ \/ Becomes(Enter([client EXCEPT !.save = "activate", !.settings = "new"], "activate"))
     \/ Becomes(Enter([client EXCEPT !.save = "restore"], "restore"))
  /\ UNCHANGED <<proc, outbox, active, env>>

\* Mutation: a host that could not be activated is not stopped again.
SaveActivatedUnstopped ==
  /\ Running /\ client.save = "activate" /\ client.at["activate"] \in {"ok", "failed"}
  /\ Becomes([client EXCEPT !.save = IF client.at["activate"] = "ok" THEN "done" ELSE "rollback"])
  /\ UNCHANGED <<proc, outbox, active, env>>

SaveActivated ==
  /\ Running /\ client.save = "activate" /\ client.at["activate"] \in {"ok", "failed"}
  /\ Becomes(IF client.at["activate"] = "ok" THEN [client EXCEPT !.save = "done"]
             ELSE Stopped([client EXCEPT !.save = "undoing"]))
  /\ UNCHANGED <<proc, outbox, active, env>>

\* The settings from before are written back and a host started on them.
SaveRollsBack ==
  /\ Running /\ client.save = "rollback"
  /\ Becomes(Enter([client EXCEPT !.save = "restore", !.settings = "old"], "restore"))
  /\ UNCHANGED <<proc, outbox, active, env>>

SaveEnds ==
  /\ Running /\ client.save = "restore" /\ client.at["restore"] \in {"ok", "failed"}
  /\ Becomes([client EXCEPT !.save = "done"])
  /\ UNCHANGED <<proc, outbox, active, env>>

-----------------------------------------------------------------------------
(* start(): the secrets are read, then the data directory; then the host is   *)
(* spawned and asked for its health.                                       *)

\* Only here is it noticed that the client was stopped since.
StartReadsSecrets ==
  /\ Running /\ client.start = "secrets"
  /\ \/ Becomes(StartFailed(client))
     \/ /\ ~client.cancelled
        /\ Becomes([client EXCEPT !.start = "directory", !.startEnv = client.settings])
  /\ UNCHANGED <<proc, outbox, active, env>>

StartSpawns ==
  /\ Running /\ client.start = "directory" /\ client.startHost = NoHost
  /\ \/ /\ Becomes(StartFailed(client))
        /\ UNCHANGED <<proc, env>>
     \/ \E h \in Hosts :
          /\ proc[h] = "none" /\ \A k \in Hosts : k < h => proc[k] # "none"
          /\ proc' = [proc EXCEPT ![h] = "boot"]
          /\ env' = [env EXCEPT ![h] = <<client.startEnv, client.settings>>]
          /\ Becomes(Enter([client EXCEPT !.start = "health", !.startHost = h, !.child = h],
                           "boot"))
  /\ UNCHANGED <<outbox, active>>

\* terminate() of a host whose start failed: told by its input, then killed, then
\* given up; start() throws in any case.
StartTerminates ==
  /\ Running /\ client.start \in {"eof", "kill"}
  /\ \/ proc[client.startHost] = "closed" /\ Becomes(StartFailed(client))
     \/ client.start = "eof" /\ Becomes([client EXCEPT !.start = "kill"])
     \/ client.start = "kill" /\ Becomes(StartFailed([client EXCEPT !.timedOut = TRUE]))
  /\ UNCHANGED <<proc, outbox, active, env>>

-----------------------------------------------------------------------------
(* stop() while it waits.                                                  *)

StopTerminates ==
  /\ Running /\ client.stop \in {"eof", "kill"}
  /\ \/ proc[client.stopHost] = "closed" /\ Becomes(StopGoesOn(client))
     \/ client.stop = "eof" /\ Becomes([client EXCEPT !.stop = "kill"])
     \/ /\ client.stop = "kill"
        /\ Becomes(StopSettled([client EXCEPT !.timedOut = TRUE], FALSE))
  /\ UNCHANGED <<proc, outbox, active, env>>

StopAwaitsStartup ==
  /\ Running /\ client.stop = "startup" /\ client.start = "none"
  /\ Becomes(StopSettled(client, TRUE))
  /\ UNCHANGED <<proc, outbox, active, env>>

-----------------------------------------------------------------------------
(* Events of requests and of the child.                                    *)

Without(c, x, h) == [c EXCEPT !.pending = @ \ {<<x, h>>}]

\* The timer of a request fires, or its write failed.
GivesUp(x, h) ==
  /\ Running /\ <<x, h>> \in client.pending
  /\ LET c == Without(client, x, h)
     IN  Becomes(IF x = "boot" THEN BootFailed(c) ELSE [c EXCEPT !.at[x] = "failed"])
  /\ UNCHANGED <<proc, outbox, active, env>>

\* handleLine(): the reply is for the request with its identifier, if that is
\* still wanted.
Reply(h) ==
  /\ Running /\ outbox[h] # <<>>
  /\ outbox' = [outbox EXCEPT ![h] = Tail(@)]
  /\ LET r == Head(outbox[h])
         c == Without(client, r.to, h)
     IN  Becomes(IF <<r.to, h>> \notin client.pending THEN client
                 ELSE IF r.to = "boot" THEN BootDone(c)
                 ELSE [c EXCEPT !.at[r.to] = "ok",
                                !.runActive = IF r.to = "check" THEN r.active ELSE @])
  /\ UNCHANGED <<proc, active, env>>

\* The close event of a host: of the current one, it fails what is pending.
Closed(h) ==
  /\ Running /\ proc[h] = "dead" /\ outbox[h] = <<>>
  /\ proc' = [proc EXCEPT ![h] = "closed"]
  /\ LET c == RejectAll([client EXCEPT !.child = NoHost])
     IN  Becomes(IF client.child # h THEN client
                 ELSE IF BootPending(client) THEN BootFailed(c)
                 ELSE c)
  /\ env' = [env EXCEPT ![h] = <<"old", "old">>]
  /\ UNCHANGED <<outbox, active>>

-----------------------------------------------------------------------------
(* The host process (src/src/erp_harness/app/host.py, main).               *)

\* It takes the lock of the data directory, or ends.
HostBoots(h) ==
  /\ proc[h] = "boot"
  /\ proc' = [proc EXCEPT ![h] = IF \E k \in Hosts : proc[k] = "up" THEN "dead" ELSE "up"]
  /\ UNCHANGED <<client, inbox, eof, outbox, active, env>>

\* It answers its requests in order; one of the window may start a run.
HostAnswers(h) ==
  /\ proc[h] = "up" /\ inbox[h] # <<>>
  /\ inbox' = [inbox EXCEPT ![h] = Tail(@)]
  /\ \E run \in (IF Head(inbox[h]) \in Calls THEN {active[h], TRUE} ELSE {active[h]}) :
       /\ active' = [active EXCEPT ![h] = run]
       /\ outbox' = [outbox EXCEPT ![h] = Append(@, [to |-> Head(inbox[h]), active |-> run])]
  /\ UNCHANGED <<client, proc, eof, env>>

RunEnds(h) ==
  /\ proc[h] = "up" /\ active[h]
  /\ active' = [active EXCEPT ![h] = FALSE]
  /\ UNCHANGED <<client, proc, inbox, eof, outbox, env>>

\* Its input has ended and been read: it closes.
HostEnds(h) ==
  /\ proc[h] = "up" /\ eof[h] /\ inbox[h] = <<>>
  /\ proc' = [proc EXCEPT ![h] = "dead"]
  /\ active' = [active EXCEPT ![h] = FALSE]
  /\ UNCHANGED <<client, inbox, eof, outbox, env>>

\* It crashes, or was killed.
HostDies(h) ==
  /\ h \in Alive
  /\ proc' = [proc EXCEPT ![h] = "dead"]
  /\ active' = [active EXCEPT ![h] = FALSE]
  /\ inbox' = [inbox EXCEPT ![h] = <<>>]
  /\ UNCHANGED <<client, eof, outbox, env>>

-----------------------------------------------------------------------------
StartSteps == StartReadsSecrets \/ StartSpawns \/ StartTerminates
StopSteps  == StopTerminates \/ StopAwaitsStartup
\* What hosts do after the application has ended is not looked at.
HostStep(h) ==
  /\ Running
  /\ HostBoots(h) \/ HostAnswers(h) \/ RunEnds(h) \/ HostEnds(h) \/ HostDies(h)

SaveSteps  == SaveChecked \/ SaveStops \/ SaveWrites \/ SaveActivated \/ SaveRollsBack \/ SaveEnds

Next ==
  \/ \E x \in Calls : Request(x)
  \/ Quit \/ SaveBegins
  \/ StartSteps \/ StopSteps \/ SaveSteps
  \/ \E x \in Callers, h \in Hosts : GivesUp(x, h)
  \/ \E h \in Hosts : Reply(h) \/ Closed(h) \/ HostStep(h)

Spec == Init /\ [][Next]_vars

\* The desktop's own steps happen: files are read or fail and timers fire.
\* Nothing is assumed of the host processes, not even that their end is seen.
ClientStep ==
  StartSteps \/ StopSteps \/ SaveSteps \/ \E x \in Callers, h \in Hosts : GivesUp(x, h)

FairSpec == Spec /\ WF_vars(ClientStep)

-----------------------------------------------------------------------------
(* Properties.                                                             *)

TypeOK ==
  /\ client \in ClientType
  /\ proc \in [Hosts -> {"none", "boot", "up", "dead", "closed"}]
  /\ inbox \in [Hosts -> Seq(Callers)]
  /\ eof \in [Hosts -> BOOLEAN]
  /\ outbox \in [Hosts -> Seq([to : Callers, active : BOOLEAN])]
  /\ active \in [Hosts -> BOOLEAN]
  /\ env \in [Hosts -> {"old", "new"} \X {"old", "new"}]

\* There is never a second host process, whatever crashes, fails to start or is
\* stopped, unless one could not be terminated (host.ts:155-156 and 178): the
\* lock of the data directory (storage.py:18-36) then refuses the second.
OneHostProcess == client.timedOut \/ Cardinality(Alive) <= 1

\* A window that is told nothing is changing works on a host that has the
\* settings of the file, secrets and data directory alike, also after settings
\* were tried and taken back (settings.ts:184-188, index.ts:149-155).
ServesCurrentSettings ==
  Running /\ ~SettingsChanging /\ client.child # NoHost
  => env[client.child] = <<client.settings, client.settings>>

\* A host that was stopped is gone, unless it could not be terminated: none runs
\* while its data directory is copied (settings.ts:106, "Called only after the host
\* has stopped"), or when the application has ended (index.ts:334-337).
StoppedMeansGone ==
  client.save = "copy" \/ client.quit = "exited" => client.timedOut \/ Alive = {}

\* index.ts:140-141: "changing settings cannot interrupt active work".
SavingSparesRuns ==
  [][client.save = "stop" /\ client.save' # "stop" /\ client.child # NoHost
     => ~active[client.child]]_vars

\* Nobody waits for something that is no longer under way: a request for an
\* answer without a timer, for a start or a stop that is over, or a start for a
\* health request that was dropped (host.ts:64-109 and 202-208).  And a request is
\* only pending at the current host, or, until its own timeout, at one that failed
\* its health check (70-77, 145-148).
WaitsAreFounded ==
  Running =>
    /\ \A x \in Callers :
         CASE client.at[x] = "waitStop"  -> client.stop # "none"
           [] client.at[x] = "waitStart" -> client.start # "none"
           [] client.at[x] = "sent"      -> \E h \in Hosts : <<x, h>> \in client.pending
           [] OTHER                      -> TRUE
    /\ client.start = "health" => client.at["boot"] \in {"sent", "waitStop"}
    /\ \A x \in Callers, h \in Hosts :
         <<x, h>> \in client.pending => h = client.child \/ h \in client.unfit

\* host.ts:84, "The generation cancellation and pending rejection are the
\* expected stop path": the application ends when it is told to.
QuitEnds == client.quit = "asked" ~> client.quit = "exited"
=============================================================================
