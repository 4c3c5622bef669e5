-------------------------- MODULE HostClient_proofs --------------------------
(***************************************************************************)
(* Theorems about HostClient.  What the client does to itself in one step  *)
(* is a composition of pieces (Enter, Stopped, BootFailed ...): for each,  *)
(* a lemma says where it leaves the client.                                *)
(***************************************************************************)
EXTENDS HostClient, FiniteSetTheorems, TLAPS

Ending == {"eof", "kill"}

\* Where start(), stop() and the health request stand to each other, and to the
\* current host.
Standing(c) ==
  /\ c.start \in {"secrets", "directory"} => c.child = NoHost /\ c.stop \in {"none", "startup"}
  /\ c.start = "health" =>
       /\ c.startHost \in Hosts /\ c.child \in {NoHost, c.startHost}
       /\ c.stop \in {"none", "startup"} /\ c.at["boot"] \in {"sent", "waitStop"}
  /\ c.start \in Ending => c.startHost \in Hosts /\ c.child = NoHost
  /\ c.stop \in Ending =>
       /\ c.stopHost \in Hosts /\ c.child = NoHost /\ c.start \in {"none"} \cup Ending
       /\ c.start \in Ending => c.startHost = c.stopHost
  /\ c.stop = "startup" => c.child = NoHost \/ c.start = "health"
  /\ c.at["boot"] = "sent" => c.start = "health" /\ c.stop = "none" /\ c.child = c.startHost
  /\ c.at["boot"] = "waitStop" => c.start = "health"
  /\ c.at["boot"] # "waitStart"

\* Who waits, and for what.
Founded(c) ==
  /\ \A x \in Callers :
       /\ c.at[x] = "waitStop" => c.stop # "none"
       /\ c.at[x] = "waitStart" => c.start # "none"
       /\ c.at[x] = "sent" => \E h \in Hosts : <<x, h>> \in c.pending
  /\ \A x \in Callers, h \in Hosts : <<x, h>> \in c.pending =>
       /\ h = c.child \/ h \in c.unfit
       /\ c.at[x] = "sent" /\ (x = "boot" => h = c.startHost)
       /\ \A k \in Hosts : <<x, k>> \in c.pending => k = h

\* Every process that lives is the current host or is being terminated.
Tracked(c) ==
  \/ c.timedOut
  \/ \A h \in Alive : \/ h = c.child
                      \/ c.start \in Ending /\ h = c.startHost
                      \/ c.stop \in Ending /\ h = c.stopHost

\* How far save_settings has come.
Settled == {"new", "ok", "failed"}
Saving(c) ==
  /\ c.stop # "none" => c.quit = "asked" \/ c.save \in {"stopping", "undoing"}
  /\ c.save = "idle" => \A x \in SavePhases : c.at[x] = "new"
  /\ c.save \notin {"idle", "done"} => \A x \in Calls : c.at[x] \in Settled
  /\ c.save \in {"check", "stop", "stopping", "copy", "undoing", "rollback"} => c.start = "none"
  /\ c.save \in {"check", "stop", "stopping", "copy"} => c.at["activate"] = "new"
  /\ c.save \notin {"restore", "done"} => c.at["restore"] = "new"
  /\ c.at["check"] \in {"sent"} \cup Settled
  /\ c.save = "check" => c.at["check"] # "new"
  /\ \A h \in Hosts : <<"check", h>> \in c.pending => c.save = "check" /\ h = c.child
  /\ c.save \in {"stop", "stopping", "copy", "activate", "undoing", "rollback"} =>
       c.at["check"] \in {"new", "ok"}
  /\ c.save = "stop" /\ c.child # NoHost => c.at["check"] = "ok" /\ ~c.runActive
  /\ c.save \in {"stopping", "undoing"} => c.stop # "none"
  /\ c.save \in {"copy", "rollback"} => c.stop = "none" /\ c.child = NoHost
  /\ c.save = "activate" =>
       /\ c.at["activate"] \in {"waitStart", "sent", "ok", "failed"}
       /\ c.at["activate"] # "waitStart" => c.start = "none"
  /\ c.save \in {"undoing", "rollback"} => c.at["activate"] \in {"ok", "failed"}

\* The host has been started on the settings of the file.
Current(c) ==
  /\ c.child # NoHost => env[c.child] = <<c.settings, c.settings>>
  /\ c.start = "directory" => c.startEnv = c.settings

\* The request that asks for an active run is answered after every request of the
\* window that may start one.
Idle(h) == ~active[h] /\ \A i \in DOMAIN inbox[h] : inbox[h][i] \notin Calls
Asked(c) ==
  /\ c.at["check"] = "new" => \A h \in Hosts :
       /\ \A i \in DOMAIN inbox[h] : inbox[h][i] # "check"
       /\ \A i \in DOMAIN outbox[h] : outbox[h][i].to # "check"
  /\ c.save = "check" => \A h \in Hosts :
       /\ \A i, j \in DOMAIN inbox[h] :
            i < j /\ inbox[h][i] = "check" => inbox[h][j] \notin Calls
       /\ \A i \in DOMAIN outbox[h] :
            outbox[h][i].to = "check" /\ ~outbox[h][i].active => Idle(h)
  /\ c.save \in {"check", "stop"} /\ c.at["check"] = "ok" /\ ~c.runActive /\ c.child # NoHost
     => Idle(c.child)

Shape(c) == c \in ClientType /\ Standing(c) /\ Founded(c)
Sound(c) == Shape(c) /\ Tracked(c) /\ Saving(c) /\ Current(c)

\* The invariant: after the end of the application nothing moves any more.
IInv ==
  /\ TypeOK
  /\ Running => Sound(client) /\ Asked(client)
  /\ ~Running => client.timedOut \/ Alive = {}

-----------------------------------------------------------------------------
(* Callers, hosts and sequences.                                           *)

LEMMA CallersAre ==
  /\ "boot" \in Callers /\ SavePhases \subseteq Callers /\ Calls \subseteq Callers
  /\ "boot" \notin Calls /\ Calls \cap SavePhases = {}
  /\ IsFiniteSet(Callers) /\ IsFiniteSet(Hosts) /\ NoHost \notin Hosts
<1>1. Cardinality(Calls) \in Nat
  BY ClientAssumption, FS_CardinalityType
<1>2. IsFiniteSet(Hosts)
  BY <1>1, FS_Interval DEF Hosts
<1>3. IsFiniteSet({"check"}) /\ IsFiniteSet({"activate"}) /\ IsFiniteSet({"restore"})
      /\ IsFiniteSet({"boot"})
  BY FS_Singleton
<1>4. Callers = ((((Calls \cup {"check"}) \cup {"activate"}) \cup {"restore"}) \cup {"boot"})
  BY DEF Callers, SavePhases
<1>5. IsFiniteSet(Callers)
  BY <1>3, <1>4, ClientAssumption, FS_Union
<1> QED
  BY <1>2, <1>5, ClientAssumption DEF Callers, SavePhases

\* The requests written in one step, in some order.
LEMMA SetToSeqIs ==
  ASSUME NEW S, IsFiniteSet(S)
  PROVE  SetToSeq(S) \in Seq(S)
<1>1. Cardinality(S) \in Nat /\ ExistsBijection(1..Cardinality(S), S)
  BY FS_CardinalityType
<1>2. \E f \in [1..Cardinality(S) -> S] : IsInjective(f)
  BY <1>1 DEF ExistsBijection, Bijection, Injection
<1>3. SetToSeq(S) \in [1..Cardinality(S) -> S]
  BY <1>2 DEF SetToSeq
<1> QED
  BY <1>1, <1>3

LEMMA HeadAndTail ==
  ASSUME NEW S, NEW s \in Seq(S), s # <<>>
  PROVE  /\ 1 \in DOMAIN s /\ Head(s) = s[1] /\ Head(s) \in S /\ Tail(s) \in Seq(S)
         /\ DOMAIN Tail(s) = 1..(Len(s) - 1) /\ Len(s) \in Nat \ {0} /\ DOMAIN s = 1..Len(s)
         /\ \A i \in DOMAIN Tail(s) : i + 1 \in DOMAIN s /\ Tail(s)[i] = s[i + 1]
OBVIOUS

-----------------------------------------------------------------------------
(* The pieces of the client: what each leaves of it.                       *)

\* What a piece may leave alone.
UsersStay(c, d) ==
  /\ d.save = c.save /\ d.runActive = c.runActive /\ d.settings = c.settings
  /\ d.quit = c.quit

StartStays(c, d) ==
  /\ d.start = c.start /\ d.startHost = c.startHost /\ d.startEnv = c.startEnv
  /\ d.cancelled = c.cancelled
StopStays(c, d) == d.stop = c.stop /\ d.stopHost = c.stopHost
HostsStay(c, d) == d.child = c.child /\ d.unfit = c.unfit /\ d.timedOut = c.timedOut

LEMMA RejectAllIs ==
  ASSUME NEW c \in ClientType, NEW d, d = RejectAll(c)
  PROVE  /\ d \in ClientType /\ UsersStay(c, d)
         /\ d.pending = {}
         /\ \A x \in Callers :
              d.at[x] = IF x # "boot" /\ c.at[x] = "sent" THEN "failed" ELSE c.at[x]
         /\ StartStays(c, d) /\ StopStays(c, d) /\ HostsStay(c, d)
<1>1. c.at \in [Callers -> {"new", "waitStop", "waitStart", "sent", "ok", "failed"}]
  BY DEF ClientType
<1> DEFINE at == [x \in Callers |->
                   IF x # "boot" /\ c.at[x] = "sent" THEN "failed" ELSE c.at[x]]
<1>2. at \in [Callers -> {"new", "waitStop", "waitStart", "sent", "ok", "failed"}]
  BY <1>1
<1>3. \A x \in Callers :
        at[x] = IF x # "boot" /\ c.at[x] = "sent" THEN "failed" ELSE c.at[x]
  OBVIOUS
<1>4. d = [c EXCEPT !.pending = {}, !.at = at]
  BY DEF RejectAll, ClientType
<1> HIDE DEF at
<1>5. d \in ClientType
  BY <1>2, <1>4, ZenonT(40) DEF ClientType
<1>6. d.at = at /\ d.pending = {}
  BY <1>4 DEF ClientType
<1>7. /\ UsersStay(c, d)
      /\ StartStays(c, d) /\ StopStays(c, d) /\ HostsStay(c, d)
  BY <1>4 DEF ClientType, UsersStay, StartStays, StopStays, HostsStay
<1> QED
  BY <1>3, <1>5, <1>6, <1>7

LEMMA SentIs ==
  ASSUME NEW c \in ClientType, NEW xs \in SUBSET Callers, c.child \in Hosts,
         NEW d, d = Sent(c, xs)
  PROVE  /\ d \in ClientType /\ UsersStay(c, d)
         /\ \A x \in Callers, h \in Hosts :
              <<x, h>> \in d.pending <=> <<x, h>> \in c.pending \/ (x \in xs /\ h = c.child)
         /\ \A x \in Callers : d.at[x] = IF x \in xs THEN "sent" ELSE c.at[x]
         /\ StartStays(c, d) /\ StopStays(c, d) /\ HostsStay(c, d)
<1>1. c.at \in [Callers -> {"new", "waitStop", "waitStart", "sent", "ok", "failed"}]
      /\ c.pending \in SUBSET (Callers \X Hosts)
  BY DEF ClientType
<1> DEFINE at == [x \in Callers |-> IF x \in xs THEN "sent" ELSE c.at[x]]
           new == {<<x, c.child>> : x \in xs}
<1>2. at \in [Callers -> {"new", "waitStop", "waitStart", "sent", "ok", "failed"}]
  BY <1>1
<1>3. \A x \in Callers : at[x] = IF x \in xs THEN "sent" ELSE c.at[x]
  OBVIOUS
<1>4. /\ new \in SUBSET (Callers \X Hosts)
      /\ \A x \in Callers, h \in Hosts : <<x, h>> \in new <=> x \in xs /\ h = c.child
  OBVIOUS
<1>5. d = [c EXCEPT !.pending = c.pending \cup new, !.at = at]
  BY DEF Sent
<1> HIDE DEF at, new
<1>6. d \in ClientType
  <2>1. c.pending \cup new \in SUBSET (Callers \X Hosts)
    BY <1>1, <1>4
  <2> QED
    BY <1>2, <1>5, <2>1, ZenonT(40) DEF ClientType
<1>7. d.at = at /\ d.pending = c.pending \cup new
  BY <1>5 DEF ClientType
<1>8. /\ UsersStay(c, d)
      /\ StartStays(c, d) /\ StopStays(c, d) /\ HostsStay(c, d)
  BY <1>5 DEF ClientType, UsersStay, StartStays, StopStays, HostsStay
<1> QED
  BY <1>3, <1>4, <1>6, <1>7, <1>8

LEMMA StartFailedIs ==
  ASSUME NEW c \in ClientType, NEW d, d = StartFailed(c)
  PROVE  /\ d \in ClientType /\ UsersStay(c, d)
         /\ d.start = "none" /\ d.startHost = NoHost
         /\ \A x \in Callers :
              d.at[x] = IF c.at[x] = "waitStart" THEN "failed" ELSE c.at[x]
         /\ d.pending = c.pending /\ StopStays(c, d) /\ HostsStay(c, d)
<1> DEFINE at == MoveAll(c.at, "waitStart", "failed")
<1>1. at \in [Callers -> {"new", "waitStop", "waitStart", "sent", "ok", "failed"}]
  BY DEF MoveAll, ClientType
<1>2. \A x \in Callers : at[x] = IF c.at[x] = "waitStart" THEN "failed" ELSE c.at[x]
  BY DEF MoveAll
<1>3. d = [c EXCEPT !.start = "none", !.startHost = NoHost, !.startEnv = "old",
                    !.cancelled = FALSE, !.at = at]
  BY DEF StartFailed, ClientType
<1> HIDE DEF at
<1>4. d \in ClientType
  <2> DEFINE d1 == [c EXCEPT !.at = at]
             d2 == [d1 EXCEPT !.start = "none"]
             d3 == [d2 EXCEPT !.startHost = NoHost]
             d4 == [d3 EXCEPT !.startEnv = "old"]
             d5 == [d4 EXCEPT !.cancelled = FALSE]
  <2>1. d = d5
    BY <1>3 DEF ClientType
  <2>2. d1 \in ClientType
    BY <1>1 DEF ClientType
  <2> HIDE DEF d1
  <2>3. d2 \in ClientType
    BY <2>2 DEF ClientType
  <2> HIDE DEF d2
  <2>4. d3 \in ClientType
    BY <2>3 DEF ClientType
  <2> HIDE DEF d3
  <2>5. d4 \in ClientType
    BY <2>4 DEF ClientType
  <2> HIDE DEF d4
  <2>6. d5 \in ClientType
    BY <2>5 DEF ClientType
  <2> QED
    BY <2>1, <2>6
<1>5. d.start = "none" /\ d.startHost = NoHost /\ d.at = at /\ d.pending = c.pending
  BY <1>3 DEF ClientType
<1>6. UsersStay(c, d) /\ StopStays(c, d) /\ HostsStay(c, d)
  BY <1>3 DEF ClientType, UsersStay, StopStays, HostsStay
<1> QED
  BY <1>2, <1>4, <1>5, <1>6

\* A start that failed its health request: its host is terminated, if it still is
\* to be.
LEMMA BootFailedIs ==
  ASSUME NEW c \in ClientType, c.startHost \in Hosts, c.child \in {NoHost, c.startHost},
         NEW d, d = BootFailed(c)
  PROVE  /\ d \in ClientType /\ UsersStay(c, d) /\ StopStays(c, d)
         /\ d.child = NoHost /\ d.unfit = c.unfit \cup {c.startHost}
         /\ d.pending = c.pending /\ d.timedOut = c.timedOut
         /\ d.at["boot"] = "failed"
         /\ Gone(c.startHost) =>
              /\ d.start = "none"
              /\ \A x \in Callers \ {"boot"} :
                   d.at[x] = IF c.at[x] = "waitStart" THEN "failed" ELSE c.at[x]
         /\ ~Gone(c.startHost) =>
              /\ d.start = "eof" /\ d.startHost = c.startHost
              /\ \A x \in Callers \ {"boot"} : d.at[x] = c.at[x]
<1> DEFINE at == [c.at EXCEPT !["boot"] = "failed"]
           e1 == [c EXCEPT !.at = at]
           e2 == [e1 EXCEPT !.child = NoHost]
           e  == [e2 EXCEPT !.unfit = c.unfit \cup {c.startHost}]
           f  == [e EXCEPT !.start = "eof"]
<1>1. /\ at \in [Callers -> {"new", "waitStop", "waitStart", "sent", "ok", "failed"}]
      /\ at["boot"] = "failed" /\ \A x \in Callers \ {"boot"} : at[x] = c.at[x]
  BY CallersAre DEF ClientType
<1>2. d = IF Gone(c.startHost) THEN StartFailed(e) ELSE f
  <2>1. (IF c.child = c.startHost THEN NoHost ELSE c.child) = NoHost
    OBVIOUS
  <2>2. e = [c EXCEPT !.at["boot"] = "failed",
                      !.child = IF @ = c.startHost THEN NoHost ELSE @,
                      !.unfit = @ \cup {c.startHost}]
    BY <2>1 DEF ClientType
  <2> HIDE DEF e
  <2> QED
    BY <2>2 DEF BootFailed
<1> HIDE DEF at
<1>3. e1 \in ClientType
  BY <1>1 DEF ClientType
<1>4. e2 \in ClientType
  <2> HIDE DEF e1
  <2> QED
    BY <1>3 DEF ClientType
<1>5. e \in ClientType
  <2>1. c.unfit \cup {c.startHost} \in SUBSET Hosts
    BY DEF ClientType
  <2> HIDE DEF e2
  <2> QED
    BY <1>4, <2>1 DEF ClientType
<1>6. /\ e.at = at /\ e.child = NoHost /\ e.unfit = c.unfit \cup {c.startHost}
      /\ e.pending = c.pending /\ e.startHost = c.startHost /\ e.timedOut = c.timedOut
  BY DEF ClientType
<1>7. UsersStay(c, e) /\ StopStays(c, e)
  BY DEF ClientType, UsersStay, StopStays
<1> HIDE DEF e
<1>8. f \in ClientType
  BY <1>5 DEF ClientType
<1>9. /\ f.start = "eof" /\ f.at = e.at /\ f.child = e.child /\ f.unfit = e.unfit
      /\ f.pending = e.pending /\ f.startHost = e.startHost /\ f.timedOut = e.timedOut
  BY <1>5 DEF ClientType
<1>10. UsersStay(e, f) /\ StopStays(e, f)
  BY <1>5 DEF ClientType, UsersStay, StopStays
<1> HIDE DEF f
<1>11. CASE Gone(c.startHost)
  <2>1. d = StartFailed(e)
    BY <1>2, <1>11
  <2>2. /\ d \in ClientType /\ UsersStay(e, d) /\ d.start = "none"
        /\ \A x \in Callers :
              d.at[x] = IF e.at[x] = "waitStart" THEN "failed" ELSE e.at[x]
        /\ d.pending = e.pending /\ StopStays(e, d) /\ HostsStay(e, d)
    BY <1>5, <2>1, StartFailedIs
  <2> QED
    BY <1>1, <1>6, <1>7, <1>11, <2>2, CallersAre DEF UsersStay, StopStays, HostsStay
<1>12. CASE ~Gone(c.startHost)
  BY <1>1, <1>2, <1>6, <1>7, <1>8, <1>9, <1>10, <1>12 DEF UsersStay, StopStays
<1> QED
  BY <1>11, <1>12

\* start() returns: its callers have sent their requests.
LEMMA BootDoneIs ==
  ASSUME NEW c \in ClientType, c.child \in Hosts, NEW d, d = BootDone(c)
  PROVE  /\ d \in ClientType /\ UsersStay(c, d) /\ StopStays(c, d) /\ HostsStay(c, d)
         /\ d.start = "none"
         /\ \A x \in Callers \ {"boot"} :
              d.at[x] = IF c.at[x] = "waitStart" THEN "sent" ELSE c.at[x]
         /\ c.at["boot"] # "waitStart" => d.at["boot"] = "ok"
         /\ \A x \in Callers, h \in Hosts :
              <<x, h>> \in d.pending
              <=> <<x, h>> \in c.pending \/ (c.at[x] = "waitStart" /\ h = c.child)
<1> DEFINE waiting == {x \in Callers : c.at[x] = "waitStart"}
           at == [c.at EXCEPT !["boot"] = "ok"]
           e1 == [c EXCEPT !.at = at]
           e2 == [e1 EXCEPT !.start = "none"]
           e3 == [e2 EXCEPT !.startHost = NoHost]
           e  == [e3 EXCEPT !.startEnv = "old"]
<1>1. /\ at \in [Callers -> {"new", "waitStop", "waitStart", "sent", "ok", "failed"}]
      /\ at["boot"] = "ok" /\ \A x \in Callers \ {"boot"} : at[x] = c.at[x]
  BY CallersAre DEF ClientType
<1>2. d = Sent(e, waiting)
  <2>1. e = [c EXCEPT !.start = "none", !.startHost = NoHost, !.startEnv = "old",
                      !.at["boot"] = "ok"]
    BY DEF ClientType
  <2>2. d = Sent([c EXCEPT !.start = "none", !.startHost = NoHost, !.startEnv = "old",
                           !.at["boot"] = "ok"], waiting)
    BY DEF BootDone
  <2> HIDE DEF e, waiting
  <2> QED
    BY <2>1, <2>2
<1> HIDE DEF at
<1>3. e1 \in ClientType
  BY <1>1 DEF ClientType
<1>4. e2 \in ClientType
  <2> HIDE DEF e1
  <2> QED
    BY <1>3 DEF ClientType
<1>5. e3 \in ClientType
  <2> HIDE DEF e2
  <2> QED
    BY <1>4 DEF ClientType
<1>7. e \in ClientType
  <2> HIDE DEF e3
  <2> QED
    BY <1>5 DEF ClientType
<1>8. e.at = at /\ e.start = "none" /\ e.pending = c.pending /\ e.child = c.child
  BY DEF ClientType
<1>9. UsersStay(c, e) /\ StopStays(c, e) /\ HostsStay(c, e)
  BY DEF ClientType, UsersStay, StopStays, HostsStay
<1> HIDE DEF e
<1>10. /\ d \in ClientType /\ UsersStay(e, d)
       /\ \A x \in Callers, h \in Hosts :
              <<x, h>> \in d.pending <=> <<x, h>> \in e.pending \/ (x \in waiting /\ h = e.child)
       /\ \A x \in Callers : d.at[x] = IF x \in waiting THEN "sent" ELSE e.at[x]
       /\ StartStays(e, d) /\ StopStays(e, d) /\ HostsStay(e, d)
  BY <1>2, <1>7, <1>8, SentIs
<1> QED
  BY <1>1, <1>8, <1>9, <1>10, CallersAre DEF UsersStay, StartStays, StopStays, HostsStay

LEMMA EnterIs ==
  ASSUME NEW c \in ClientType, NEW x \in Callers, NEW d, d = Enter(c, x)
  PROVE  /\ d \in ClientType /\ UsersStay(c, d) /\ StopStays(c, d) /\ HostsStay(c, d)
         /\ d.startHost = c.startHost /\ d.startEnv = c.startEnv
         /\ \A y \in Callers \ {x} : d.at[y] = c.at[y]
         /\ \/ /\ c.stop # "none" /\ d.at[x] = "waitStop"
               /\ d.pending = c.pending /\ d.start = c.start
            \/ /\ c.stop = "none" /\ c.child \in Hosts /\ d.at[x] = "sent"
               /\ \A y \in Callers, h \in Hosts :
                    <<y, h>> \in d.pending <=> <<y, h>> \in c.pending \/ (y = x /\ h = c.child)
               /\ d.start = c.start
            \/ /\ c.stop = "none" /\ c.child = NoHost /\ d.at[x] = "waitStart"
               /\ d.pending = c.pending
               /\ d.start = IF c.start # "none" THEN c.start ELSE "secrets"
<1> DEFINE States == {"new", "waitStop", "waitStart", "sent", "ok", "failed"}
<1>1. ASSUME NEW s \in States, NEW e, e = [c EXCEPT !.at[x] = s]
      PROVE  /\ e \in ClientType /\ UsersStay(c, e) /\ StopStays(c, e) /\ HostsStay(c, e)
             /\ StartStays(c, e) /\ e.pending = c.pending
             /\ e.at[x] = s /\ \A y \in Callers \ {x} : e.at[y] = c.at[y]
  <2> DEFINE at == [c.at EXCEPT ![x] = s]
  <2>1. at \in [Callers -> States] /\ at[x] = s /\ \A y \in Callers \ {x} : at[y] = c.at[y]
    BY <1>1 DEF ClientType
  <2>2. e = [c EXCEPT !.at = at]
    BY <1>1 DEF ClientType
  <2> HIDE DEF at
  <2>3. e \in ClientType
    BY <2>1, <2>2 DEF ClientType
  <2>4. e.at = at /\ e.pending = c.pending
    BY <2>2 DEF ClientType
  <2>5. UsersStay(c, e) /\ StopStays(c, e) /\ HostsStay(c, e) /\ StartStays(c, e)
    BY <2>2 DEF ClientType, UsersStay, StopStays, HostsStay, StartStays
  <2> QED
    BY <2>1, <2>3, <2>4, <2>5
<1>2. CASE c.stop # "none"
  <2>1. d = [c EXCEPT !.at[x] = "waitStop"]
    BY <1>2 DEF Enter
  <2>2. /\ d \in ClientType /\ UsersStay(c, d) /\ StopStays(c, d) /\ HostsStay(c, d)
        /\ StartStays(c, d) /\ d.pending = c.pending
        /\ d.at[x] = "waitStop" /\ \A y \in Callers \ {x} : d.at[y] = c.at[y]
    BY <1>1, <2>1
  <2> QED
    BY <1>2, <2>2 DEF StartStays
<1>3. CASE c.stop = "none" /\ c.child # NoHost
  <2>1. d = Sent(c, {x}) /\ c.child \in Hosts /\ {x} \in SUBSET Callers
    BY <1>3 DEF Enter, ClientType
  <2>2. /\ d \in ClientType /\ UsersStay(c, d)
        /\ \A y \in Callers, h \in Hosts :
             <<y, h>> \in d.pending <=> <<y, h>> \in c.pending \/ (y \in {x} /\ h = c.child)
        /\ \A y \in Callers : d.at[y] = IF y \in {x} THEN "sent" ELSE c.at[y]
        /\ StartStays(c, d) /\ StopStays(c, d) /\ HostsStay(c, d)
    BY <2>1, SentIs
  <2> QED
    BY <1>3, <2>1, <2>2 DEF StartStays
<1>4. CASE c.stop = "none" /\ c.child = NoHost /\ c.start # "none"
  <2>1. d = [c EXCEPT !.at[x] = "waitStart"]
    BY <1>4 DEF Enter
  <2>2. /\ d \in ClientType /\ UsersStay(c, d) /\ StopStays(c, d) /\ HostsStay(c, d)
        /\ StartStays(c, d) /\ d.pending = c.pending
        /\ d.at[x] = "waitStart" /\ \A y \in Callers \ {x} : d.at[y] = c.at[y]
    BY <1>1, <2>1
  <2> QED
    BY <1>4, <2>2 DEF StartStays
<1>5. CASE c.stop = "none" /\ c.child = NoHost /\ c.start = "none"
  <2> DEFINE e == [c EXCEPT !.at[x] = "waitStart"]
             f == [e EXCEPT !.start = "secrets"]
  <2>1. d = [f EXCEPT !.cancelled = FALSE]
    BY <1>5 DEF Enter, ClientType
  <2>2. /\ e \in ClientType /\ UsersStay(c, e) /\ StopStays(c, e) /\ HostsStay(c, e)
        /\ StartStays(c, e) /\ e.pending = c.pending
        /\ e.at[x] = "waitStart" /\ \A y \in Callers \ {x} : e.at[y] = c.at[y]
    BY <1>1
  <2> HIDE DEF e
  <2>3. /\ f \in ClientType /\ f.at = e.at /\ f.pending = e.pending /\ f.start = "secrets"
        /\ f.startHost = e.startHost /\ f.startEnv = e.startEnv
    BY <2>2 DEF ClientType
  <2>4. UsersStay(e, f) /\ StopStays(e, f) /\ HostsStay(e, f)
    BY <2>2 DEF ClientType, UsersStay, StopStays, HostsStay
  <2> HIDE DEF f
  <2>5. /\ d \in ClientType /\ d.at = f.at /\ d.pending = f.pending /\ d.start = f.start
        /\ d.startHost = f.startHost /\ d.startEnv = f.startEnv
    BY <2>1, <2>3 DEF ClientType
  <2>6. UsersStay(f, d) /\ StopStays(f, d) /\ HostsStay(f, d)
    BY <2>1, <2>3 DEF ClientType, UsersStay, StopStays, HostsStay
  <2> QED
    BY <1>5, <2>2, <2>3, <2>4, <2>5, <2>6 DEF UsersStay, StopStays, HostsStay, StartStays
<1> QED
  BY <1>2, <1>3, <1>4, <1>5

\* The promise of stop() settles.  While the application goes on nobody waited.
LEMMA StopSettledIs ==
  ASSUME NEW c \in ClientType, NEW ok \in BOOLEAN, NEW d, d = StopSettled(c, ok),
         c.quit # "asked" => \A x \in Callers : c.at[x] # "waitStop"
  PROVE  /\ d \in ClientType /\ d.stop = "none" /\ HostsStay(c, d)
         /\ d.pending = c.pending /\ d.runActive = c.runActive /\ d.settings = c.settings
         /\ d.quit = IF c.quit = "asked" THEN "exited" ELSE c.quit
         /\ c.quit # "asked" =>
              /\ \A x \in Callers : d.at[x] = c.at[x]
              /\ d.start = c.start /\ d.startHost = c.startHost /\ d.startEnv = c.startEnv
              /\ d.save = IF c.save = "stopping" THEN (IF ok THEN "copy" ELSE "done")
                          ELSE IF c.save = "undoing" THEN "rollback" ELSE c.save
<1> DEFINE States == {"new", "waitStop", "waitStart", "sent", "ok", "failed"}
           waiting == \E x \in Callers : c.at[x] = "waitStop"
           restart == ok /\ waiting /\ c.quit # "asked"
           to == IF ok THEN "waitStart" ELSE "failed"
           at == MoveAll(c.at, "waitStop", to)
           save == CASE c.save = "stopping" -> (IF ok THEN "copy" ELSE "done")
                     [] c.save = "undoing"  -> "rollback"
                     [] OTHER               -> c.save
           quit == IF c.quit = "asked" THEN "exited" ELSE c.quit
<1>1. ~restart
  OBVIOUS
<1>2. at \in [Callers -> States]
  BY DEF MoveAll, ClientType
<1>3. c.quit # "asked" => \A x \in Callers : at[x] = c.at[x]
  BY DEF MoveAll
<1>4. quit \in {"no", "asked", "exited"}
  BY DEF ClientType
<1>5. save \in {"idle", "check", "stop", "stopping", "copy", "activate", "undoing",
                "rollback", "restore", "done"}
      /\ save = IF c.save = "stopping" THEN (IF ok THEN "copy" ELSE "done")
                ELSE IF c.save = "undoing" THEN "rollback" ELSE c.save
  BY DEF ClientType
<1>6. d = [c EXCEPT !.stop = "none", !.stopHost = NoHost, !.at = at, !.start = c.start,
                    !.cancelled = c.cancelled, !.save = save, !.quit = quit]
  <2>1. d = [c EXCEPT !.stop = "none", !.stopHost = NoHost, !.at = at,
                      !.start = IF restart THEN "secrets" ELSE c.start,
                      !.cancelled = IF restart THEN FALSE ELSE c.cancelled,
                      !.save = save, !.quit = quit]
    BY DEF StopSettled, ClientType
  <2> HIDE DEF restart, at, save, quit
  <2> QED
    BY <1>1, <2>1
<1> HIDE DEF at, save, quit, restart, waiting, to
<1> DEFINE d1 == [c EXCEPT !.stop = "none"]
           d2 == [d1 EXCEPT !.stopHost = NoHost]
           d3 == [d2 EXCEPT !.at = at]
           d4 == [d3 EXCEPT !.save = save]
           d5 == [d4 EXCEPT !.quit = quit]
<1>7. d = d5
  BY <1>6 DEF ClientType
<1>8. d1 \in ClientType
  BY DEF ClientType
<1>9. d2 \in ClientType
  <2> HIDE DEF d1
  <2> QED
    BY <1>8 DEF ClientType
<1>10. d3 \in ClientType
  <2> HIDE DEF d2
  <2> QED
    BY <1>2, <1>9 DEF ClientType
<1>11. d4 \in ClientType
  <2> HIDE DEF d3
  <2> QED
    BY <1>5, <1>10 DEF ClientType
<1>12. d5 \in ClientType
  <2> HIDE DEF d4
  <2> QED
    BY <1>4, <1>11 DEF ClientType
<1>13. /\ d5.stop = "none" /\ d5.pending = c.pending /\ d5.runActive = c.runActive
       /\ d5.settings = c.settings /\ d5.quit = quit /\ d5.at = at /\ d5.save = save
       /\ d5.start = c.start /\ d5.startHost = c.startHost /\ d5.startEnv = c.startEnv
       /\ HostsStay(c, d5)
  BY DEF ClientType, HostsStay
<1> HIDE DEF d5
<1>14. quit = IF c.quit = "asked" THEN "exited" ELSE c.quit
  BY DEF quit
<1> QED
  BY <1>3, <1>5, <1>7, <1>12, <1>13, <1>14

-----------------------------------------------------------------------------
(* The shape of the client after each piece.                               *)

LEMMA EnterShape ==
  ASSUME NEW c, Shape(c), NEW x \in Callers \ {"boot"}, c.at[x] # "sent",
         NEW d, d = Enter(c, x)
  PROVE  Shape(d) /\ (Tracked(c) => Tracked(d)) /\ (Current(c) => Current(d))
<1> USE DEF Shape
<1>1. /\ d \in ClientType /\ UsersStay(c, d) /\ StopStays(c, d) /\ HostsStay(c, d)
      /\ d.startHost = c.startHost /\ d.startEnv = c.startEnv
      /\ \A y \in Callers \ {x} : d.at[y] = c.at[y]
      /\ \/ /\ c.stop # "none" /\ d.at[x] = "waitStop"
            /\ d.pending = c.pending /\ d.start = c.start
         \/ /\ c.stop = "none" /\ c.child \in Hosts /\ d.at[x] = "sent"
            /\ \A y \in Callers, h \in Hosts :
                 <<y, h>> \in d.pending <=> <<y, h>> \in c.pending \/ (y = x /\ h = c.child)
            /\ d.start = c.start
         \/ /\ c.stop = "none" /\ c.child = NoHost /\ d.at[x] = "waitStart"
            /\ d.pending = c.pending
            /\ d.start = IF c.start # "none" THEN c.start ELSE "secrets"
  BY EnterIs
<1>2. d.at["boot"] = c.at["boot"]
  BY <1>1, CallersAre
<1>3. Standing(d)
  BY <1>1, <1>2 DEF Standing, StopStays, HostsStay, Ending
<1>4. Founded(d)
  <2>1. ASSUME NEW y \in Callers
        PROVE  /\ d.at[y] = "waitStop" => d.stop # "none"
               /\ d.at[y] = "waitStart" => d.start # "none"
               /\ d.at[y] = "sent" => \E h \in Hosts : <<y, h>> \in d.pending
    BY <1>1, ZenonT(40) DEF Founded, StopStays
  <2>2. ASSUME NEW y \in Callers, NEW h \in Hosts, <<y, h>> \in d.pending
        PROVE  /\ h = d.child \/ h \in d.unfit
               /\ d.at[y] = "sent" /\ (y = "boot" => h = d.startHost)
               /\ \A k \in Hosts : <<y, k>> \in d.pending => k = h
    BY <1>1, <1>2, <2>2 DEF Founded, HostsStay
  <2> QED
    BY <2>1, <2>2 DEF Founded
<1>5. Tracked(c) => Tracked(d)
  BY <1>1 DEF Tracked, StopStays, HostsStay, Ending
<1>6. Current(c) => Current(d)
  BY <1>1 DEF Current, UsersStay, HostsStay
<1> QED
  BY <1>1, <1>3, <1>4, <1>5, <1>6

\* A health request that failed, and that nobody waits for any more.
LEMMA BootFailedShape ==
  ASSUME NEW c \in ClientType, c.start = "health", c.startHost \in Hosts,
         c.child \in {NoHost, c.startHost}, c.stop = "none",
         \A h \in Hosts : <<"boot", h>> \notin c.pending,
         \A x \in Callers, h \in Hosts : <<x, h>> \in c.pending =>
           /\ h = c.startHost \/ h \in c.unfit
           /\ c.at[x] = "sent" /\ \A k \in Hosts : <<x, k>> \in c.pending => k = h,
         \A x \in Callers \ {"boot"} :
           /\ c.at[x] # "waitStop"
           /\ c.at[x] = "sent" => \E h \in Hosts : <<x, h>> \in c.pending,
         NEW d, d = BootFailed(c)
  PROVE  /\ Shape(d) /\ d.child = NoHost /\ d.start \in {"none", "eof"}
         /\ c.timedOut \/ (\A h \in Alive : h = c.startHost) => Tracked(d)
<1>1. /\ d \in ClientType /\ UsersStay(c, d) /\ StopStays(c, d)
      /\ d.child = NoHost /\ d.unfit = c.unfit \cup {c.startHost}
      /\ d.pending = c.pending /\ d.timedOut = c.timedOut
      /\ d.at["boot"] = "failed"
      /\ Gone(c.startHost) =>
           /\ d.start = "none"
           /\ \A x \in Callers \ {"boot"} :
                d.at[x] = IF c.at[x] = "waitStart" THEN "failed" ELSE c.at[x]
      /\ ~Gone(c.startHost) =>
           /\ d.start = "eof" /\ d.startHost = c.startHost
           /\ \A x \in Callers \ {"boot"} : d.at[x] = c.at[x]
  BY BootFailedIs
<1>2. Standing(d)
  BY <1>1 DEF Standing, StopStays, Ending
<1>3. Founded(d)
  <2>1. ASSUME NEW y \in Callers
        PROVE  /\ d.at[y] = "waitStop" => d.stop # "none"
               /\ d.at[y] = "waitStart" => d.start # "none"
               /\ d.at[y] = "sent" => \E h \in Hosts : <<y, h>> \in d.pending
    <3>1. CASE y = "boot"
      BY <1>1, <3>1
    <3>2. CASE y # "boot" /\ Gone(c.startHost)
      BY <1>1, <3>2
    <3>3. CASE y # "boot" /\ ~Gone(c.startHost)
      BY <1>1, <3>3
    <3> QED
      BY <3>1, <3>2, <3>3
  <2>2. ASSUME NEW y \in Callers, NEW h \in Hosts, <<y, h>> \in d.pending
        PROVE  /\ h = d.child \/ h \in d.unfit
               /\ d.at[y] = "sent" /\ (y = "boot" => h = d.startHost)
               /\ \A k \in Hosts : <<y, k>> \in d.pending => k = h
    BY <1>1, <2>2
  <2> QED
    BY <2>1, <2>2 DEF Founded
<1>4. ASSUME c.timedOut \/ \A h \in Alive : h = c.startHost
      PROVE  Tracked(d)
  <2>1. CASE Gone(c.startHost)
    <3>1. \A h \in Alive : h # c.startHost
      BY <2>1 DEF Gone, Alive
    <3> QED
      BY <1>1, <1>4, <3>1 DEF Tracked
  <2>2. CASE ~Gone(c.startHost)
    BY <1>1, <1>4, <2>2 DEF Tracked, Ending
  <2> QED
    BY <2>1, <2>2
<1> QED
  BY <1>1, <1>2, <1>3, <1>4 DEF Shape

\* A stop that settled while the application goes on.
LEMMA StopSettledShape ==
  ASSUME NEW c, Shape(c), NEW ok \in BOOLEAN, c.start # "health", c.quit = "no",
         \A x \in Callers : c.at[x] # "waitStop",
         NEW d, d = StopSettled(c, ok)
  PROVE  Shape(d)
<1>1. /\ d \in ClientType /\ d.stop = "none" /\ HostsStay(c, d)
      /\ d.pending = c.pending
      /\ \A x \in Callers : d.at[x] = c.at[x]
      /\ d.start = c.start /\ d.startHost = c.startHost
  BY StopSettledIs DEF Shape
<1>2. Standing(d)
  BY <1>1, CallersAre DEF Shape, Standing, HostsStay, Ending
<1>3. Founded(d)
  <2>1. ASSUME NEW y \in Callers
        PROVE  /\ d.at[y] = "waitStop" => d.stop # "none"
               /\ d.at[y] = "waitStart" => d.start # "none"
               /\ d.at[y] = "sent" => \E h \in Hosts : <<y, h>> \in d.pending
    BY <1>1 DEF Shape, Founded
  <2>2. ASSUME NEW y \in Callers, NEW h \in Hosts, <<y, h>> \in d.pending
        PROVE  /\ h = d.child \/ h \in d.unfit
               /\ d.at[y] = "sent" /\ (y = "boot" => h = d.startHost)
               /\ \A k \in Hosts : <<y, k>> \in d.pending => k = h
    BY <1>1, <2>2, CallersAre DEF Shape, Founded, HostsStay
  <2> QED
    BY <2>1, <2>2 DEF Founded
<1> QED
  BY <1>1, <1>2, <1>3 DEF Shape

\* stop() that finds no other in progress: it is over at once, or terminates the
\* current host, or waits for a start that has none yet.
LEMMA StoppedIs ==
  ASSUME NEW c, Shape(c), Tracked(c), c.stop = "none", c.quit # "exited",
         NEW d, d = Stopped(c)
  PROVE  /\ d \in ClientType /\ d.child = NoHost /\ d.pending = {}
         /\ d.timedOut = c.timedOut /\ d.settings = c.settings /\ d.runActive = c.runActive
         /\ c.start = "none" /\ c.child = NoHost => d.stop = "none"
         /\ d.quit # "exited" =>
              /\ d.start = "directory" => c.start = "directory" /\ d.startEnv = c.startEnv
              /\ c.start = "none" => d.start = "none"
              /\ \A x \in Callers \ {"boot"} :
                   \/ c.at[x] = "sent" /\ d.at[x] = "failed"
                   \/ c.at[x] = "waitStart" /\ d.at[x] = "failed" /\ d.start = "none"
                   \/ c.at[x] # "sent" /\ d.at[x] = c.at[x]
         /\ \/ /\ d.stop # "none" /\ d.quit = c.quit /\ d.save = c.save
               /\ Shape(d) /\ Tracked(d)
            \/ /\ d.stop = "none" /\ (d.timedOut \/ Alive = {})
               /\ c.quit = "asked" => d.quit = "exited"
               /\ c.quit = "no" =>
                    /\ d.quit = "no" /\ d.start = "none" /\ Shape(d)
                    /\ d.save = IF c.save = "stopping" THEN "copy"
                                ELSE IF c.save = "undoing" THEN "rollback" ELSE c.save
<1> USE DEF Shape
<1> DEFINE h == c.child
           r == RejectAll(c)
           d1 == [r EXCEPT !.child = NoHost]
           b  == c.start # "none"
           d0 == [d1 EXCEPT !.cancelled = b]
           e == IF BootPending(c) THEN BootFailed(d0) ELSE d0
<1>1. d = IF h # NoHost /\ ~Gone(h) THEN [e EXCEPT !.stop = "eof", !.stopHost = h]
          ELSE StopGoesOn(e)
  BY DEF Stopped, ClientType
<1>2. /\ r \in ClientType /\ UsersStay(c, r) /\ r.pending = {}
      /\ \A x \in Callers :
           r.at[x] = IF x # "boot" /\ c.at[x] = "sent" THEN "failed" ELSE c.at[x]
      /\ StartStays(c, r) /\ StopStays(c, r) /\ HostsStay(c, r)
  BY RejectAllIs
<1> HIDE DEF r
<1>3. /\ d1 \in ClientType /\ UsersStay(r, d1) /\ d1.pending = r.pending /\ d1.at = r.at
      /\ StartStays(r, d1) /\ StopStays(r, d1) /\ d1.child = NoHost
      /\ d1.unfit = r.unfit /\ d1.timedOut = r.timedOut
  BY <1>2 DEF ClientType, UsersStay, StartStays, StopStays
<1> HIDE DEF d1
<1>b. b \in BOOLEAN
  OBVIOUS
<1> HIDE DEF b
<1>c. d0 \in ClientType
  BY <1>3, <1>b DEF ClientType
<1>4. /\ d0 \in ClientType /\ UsersStay(d1, d0) /\ d0.pending = d1.pending /\ d0.at = d1.at
      /\ d0.start = d1.start /\ d0.startHost = d1.startHost /\ d0.startEnv = d1.startEnv
      /\ StopStays(d1, d0) /\ HostsStay(d1, d0)
  BY <1>3, <1>c DEF ClientType, UsersStay, StopStays, HostsStay
<1> HIDE DEF d0
<1>5. /\ d0 \in ClientType /\ UsersStay(c, d0) /\ d0.pending = {} /\ d0.child = NoHost
      /\ \A x \in Callers :
           d0.at[x] = IF x # "boot" /\ c.at[x] = "sent" THEN "failed" ELSE c.at[x]
      /\ d0.start = c.start /\ d0.startHost = c.startHost /\ d0.startEnv = c.startEnv
      /\ d0.stop = "none"
      /\ d0.unfit = c.unfit /\ d0.timedOut = c.timedOut
  BY <1>2, <1>3, <1>4 DEF UsersStay, StartStays, StopStays, HostsStay
<1>6. BootPending(c) <=> c.start = "health"
  <2>1. BootPending(c) => c.start = "health"
    BY CallersAre DEF BootPending, Founded, Standing
  <2>2. c.start = "health" => c.at["boot"] = "sent"
    BY CallersAre DEF Standing, Founded
  <2> QED
    BY <2>1, <2>2, CallersAre DEF BootPending, Founded
<1>7. \A x \in Callers : c.at[x] # "waitStop"
  BY DEF Founded
<1>8. /\ Shape(e) /\ (Tracked(e) \/ (h # NoHost /\ ~Gone(h)))
      /\ e.child = NoHost /\ e.pending = {} /\ e.stop = "none" /\ e.timedOut = c.timedOut
      /\ UsersStay(c, e) /\ e.start # "health" /\ (c.start = "none" => e.start = "none")
      /\ h # NoHost => e.start = "none" \/ (e.start = "eof" /\ e.startHost = h)
      /\ e.start = "directory" => c.start = "directory" /\ e.startEnv = c.startEnv
      /\ \A x \in Callers \ {"boot"} :
           \/ c.at[x] = "sent" /\ e.at[x] = "failed"
           \/ c.at[x] = "waitStart" /\ e.at[x] = "failed" /\ e.start = "none"
           \/ c.at[x] # "sent" /\ e.at[x] = c.at[x]
  <2>a. CASE c.start = "health"
    <3>1. e = BootFailed(d0) /\ h = c.startHost /\ h \in Hosts
      BY <1>6, <2>a, CallersAre DEF Standing, Founded
    <3> HIDE DEF e
    <3>2. \A x \in Callers \ {"boot"} : d0.at[x] # "waitStop" /\ d0.at[x] # "sent"
      BY <1>5, <1>7
    <3>3. /\ Shape(e) /\ e.child = NoHost /\ e.start \in {"none", "eof"}
          /\ d0.timedOut \/ (\A k \in Alive : k = d0.startHost) => Tracked(e)
      <4>1. d0.start = "health" /\ d0.startHost \in Hosts /\ d0.child \in {NoHost, d0.startHost}
        BY <1>5, <2>a, <3>1
      <4> QED
        BY <1>5, <3>1, <3>2, <4>1, BootFailedShape
    <3>4. c.timedOut \/ \A k \in Alive : k = c.startHost
      BY <2>a, <3>1 DEF Tracked, Ending
    <3>5. Tracked(e)
      BY <1>5, <3>3, <3>4
    <3>6. /\ UsersStay(d0, e) /\ StopStays(d0, e)
          /\ e.pending = {} /\ e.timedOut = d0.timedOut
          /\ e.start = "eof" => e.startHost = h
          /\ \A x \in Callers \ {"boot"} :
               \/ e.at[x] = d0.at[x]
               \/ d0.at[x] = "waitStart" /\ e.at[x] = "failed" /\ e.start = "none"
      <4>1. d0.startHost \in Hosts /\ d0.child \in {NoHost, d0.startHost}
        BY <1>5, <3>1
      <4> QED
        BY <1>5, <3>1, <4>1, BootFailedIs
    <3>7. /\ e.stop = "none" /\ e.timedOut = c.timedOut /\ UsersStay(c, e)
          /\ \A x \in Callers \ {"boot"} :
               \/ c.at[x] = "sent" /\ e.at[x] = "failed"
               \/ c.at[x] = "waitStart" /\ e.at[x] = "failed" /\ e.start = "none"
               \/ c.at[x] # "sent" /\ e.at[x] = c.at[x]
      BY <1>5, <3>6 DEF UsersStay, StopStays
    <3> QED
      BY <2>a, <3>3, <3>5, <3>6, <3>7
  <2>b. CASE c.start # "health"
    <3>1. e = d0
      BY <1>6, <2>b
    <3>2. Standing(d0)
      BY <1>5, <2>b, CallersAre DEF Standing, Ending
    <3>3. Founded(d0)
      BY <1>5, <1>7, <2>b, CallersAre DEF Founded, Standing
    <3>4. Tracked(d0) \/ (h # NoHost /\ ~Gone(h))
      BY <1>5 DEF Tracked, Alive, Gone, Ending
    <3>5. h # NoHost => c.start = "none"
      BY <2>b DEF Standing, ClientType, Ending
    <3> QED
      BY <1>5, <2>b, <3>1, <3>2, <3>3, <3>4, <3>5
  <2> QED
    BY <2>a, <2>b
<1> HIDE DEF e
<1>9. \A x \in Callers : e.at[x] # "waitStop"
  BY <1>8 DEF Founded
<1>10. CASE h # NoHost /\ ~Gone(h)
  <2>1. h \in Hosts
    BY <1>10 DEF ClientType
  <2> DEFINE e1 == [e EXCEPT !.stop = "eof"]
  <2>2. d = [e1 EXCEPT !.stopHost = h]
    BY <1>1, <1>10, <1>8 DEF ClientType
  <2>3. /\ e1 \in ClientType /\ e1.stop = "eof" /\ e1.at = e.at /\ e1.pending = e.pending
        /\ StartStays(e, e1) /\ HostsStay(e, e1) /\ UsersStay(e, e1)
    BY <1>8 DEF ClientType, StartStays, HostsStay, UsersStay
  <2> HIDE DEF e1
  <2>4. /\ d \in ClientType /\ d.stop = "eof" /\ d.stopHost = h
        /\ d.at = e.at /\ d.pending = e.pending
        /\ StartStays(e, d) /\ HostsStay(e, d) /\ UsersStay(e, d)
    <3>1. /\ d \in ClientType /\ d.stop = e1.stop /\ d.stopHost = h
          /\ d.at = e1.at /\ d.pending = e1.pending
      BY <2>1, <2>2, <2>3 DEF ClientType
    <3>2. StartStays(e1, d) /\ HostsStay(e1, d) /\ UsersStay(e1, d)
      BY <2>2, <2>3 DEF ClientType, StartStays, HostsStay, UsersStay
    <3> QED
      BY <2>3, <3>1, <3>2 DEF StartStays, HostsStay, UsersStay
  <2>5. Standing(d)
    BY <1>8, <1>10, <2>1, <2>4 DEF Standing, StartStays, HostsStay, Ending
  <2>6. Founded(d)
    BY <1>8, <2>4 DEF Founded, StartStays, HostsStay
  <2>7. Tracked(d)
    <3>1. c.timedOut \/ \A k \in Alive : k = h
      BY <1>10 DEF Tracked, Standing, Ending, ClientType
    <3> QED
      BY <1>8, <2>4, <3>1 DEF Tracked, HostsStay, Ending
  <2>8. Shape(d)
    BY <2>4, <2>5, <2>6
  <2> HIDE DEF Shape
  <2> QED
    BY <1>8, <1>10, <2>4, <2>5, <2>6, <2>7, <2>8 DEF UsersStay, HostsStay, StartStays
<1>11. CASE ~(h # NoHost /\ ~Gone(h)) /\ e.start # "none"
  <2>1. d = [e EXCEPT !.stop = "startup"]
    BY <1>1, <1>11 DEF StopGoesOn
  <2>2. /\ d \in ClientType /\ d.stop = "startup" /\ d.at = e.at /\ d.pending = e.pending
        /\ StartStays(e, d) /\ HostsStay(e, d) /\ UsersStay(e, d)
    BY <1>8, <2>1 DEF ClientType, StartStays, HostsStay, UsersStay
  <2>3. Standing(d)
    BY <1>8, <1>11, <2>2 DEF Standing, StartStays, HostsStay, Ending
  <2>4. Founded(d)
    BY <1>8, <2>2 DEF Founded, StartStays, HostsStay
  <2>5. Tracked(d)
    BY <1>8, <1>11, <2>2 DEF Tracked, StartStays, HostsStay, Ending
  <2>8. Shape(d)
    BY <2>2, <2>3, <2>4
  <2> HIDE DEF Shape
  <2> QED
    BY <1>8, <1>11, <2>2, <2>3, <2>4, <2>5, <2>8 DEF UsersStay, HostsStay, StartStays
<1>12. CASE ~(h # NoHost /\ ~Gone(h)) /\ e.start = "none"
  <2>1. d = StopSettled(e, TRUE)
    BY <1>1, <1>12 DEF StopGoesOn
  <2>2. /\ d \in ClientType /\ d.stop = "none" /\ HostsStay(e, d)
        /\ d.pending = e.pending /\ d.runActive = e.runActive /\ d.settings = e.settings
        /\ d.quit = IF e.quit = "asked" THEN "exited" ELSE e.quit
        /\ e.quit # "asked" =>
             /\ \A x \in Callers : d.at[x] = e.at[x]
             /\ d.start = e.start /\ d.startEnv = e.startEnv
             /\ d.save = IF e.save = "stopping" THEN "copy"
                         ELSE IF e.save = "undoing" THEN "rollback" ELSE e.save
    <3>1. PICK ok \in BOOLEAN : ok = TRUE
      OBVIOUS
    <3>2. d = StopSettled(e, ok)
      BY <2>1, <3>1
    <3>3. /\ d \in ClientType /\ d.stop = "none" /\ HostsStay(e, d)
          /\ d.pending = e.pending /\ d.runActive = e.runActive /\ d.settings = e.settings
          /\ d.quit = IF e.quit = "asked" THEN "exited" ELSE e.quit
          /\ e.quit # "asked" =>
               /\ \A x \in Callers : d.at[x] = e.at[x]
               /\ d.start = e.start /\ d.startEnv = e.startEnv
               /\ d.save = IF e.save = "stopping" THEN (IF ok THEN "copy" ELSE "done")
                           ELSE IF e.save = "undoing" THEN "rollback" ELSE e.save
      BY <1>8, <1>9, <3>2, StopSettledIs
    <3> QED
      BY <3>1, <3>3
  <2>3. e.timedOut \/ Alive = {}
    BY <1>8, <1>12, CallersAre DEF Tracked, Ending, Alive
  <2>4. c.quit = "no" => Shape(d)
    <3>1. TRUE \in BOOLEAN /\ e.start # "health" /\ (c.quit = "no" => e.quit = "no")
      BY <1>8 DEF UsersStay
    <3>2. Shape(e)
      BY <1>8
    <3> HIDE DEF Shape
    <3> QED
      BY <1>9, <2>1, <3>1, <3>2, StopSettledShape, Zenon
  <2> QED
    <3>1. e.quit = c.quit /\ c.quit \in {"no", "asked"} /\ e.save = c.save
      BY <1>8 DEF UsersStay, ClientType
    <3> HIDE DEF Shape
    <3>2. CASE c.quit = "asked"
      BY <1>8, <2>2, <2>3, <3>1, <3>2 DEF UsersStay, HostsStay
    <3>3. CASE c.quit = "no"
      BY <1>8, <1>12, <2>2, <2>3, <2>4, <3>1, <3>3 DEF UsersStay, HostsStay
    <3> QED
      BY <3>1, <3>2, <3>3
<1> QED
  BY <1>10, <1>11, <1>12

\* A client that differs in its users only.
LEMMA SameShape ==
  ASSUME NEW c, Shape(c), NEW d \in ClientType, d.at = c.at, d.pending = c.pending,
         StartStays(c, d), StopStays(c, d), HostsStay(c, d)
  PROVE  Shape(d) /\ (Tracked(c) => Tracked(d))
<1>1. Standing(d)
  BY DEF Shape, Standing, StartStays, StopStays, HostsStay
<1>2. Founded(d)
  BY DEF Shape, Founded, StartStays, StopStays, HostsStay
<1>3. Tracked(c) => Tracked(d)
  BY DEF Tracked, StartStays, StopStays, HostsStay
<1> QED
  BY <1>1, <1>2, <1>3 DEF Shape

-----------------------------------------------------------------------------
(* Steps of the client.                                                    *)

\* The requests written in a step are for hosts that live.
LEMMA BecomesTyped ==
  ASSUME TypeOK, NEW c \in ClientType, Becomes(c)
  PROVE  /\ client' = c
         /\ inbox' \in [Hosts -> Seq(Callers)] /\ eof' \in [Hosts -> BOOLEAN]
         /\ \A h \in Hosts :
              \/ inbox'[h] = <<>>
              \/ \E s \in Seq({x \in Callers : <<x, h>> \in c.pending \ client.pending}) :
                   inbox'[h] = inbox[h] \o s
<1> DEFINE new(h) == {x \in Callers : <<x, h>> \in c.pending \ client.pending}
           box(h) == IF Gone(h) THEN <<>> ELSE inbox[h] \o SetToSeq(new(h))
<1>1. client' = c /\ inbox' = [h \in Hosts |-> box(h)]
  BY DEF Becomes
<1>2. eof' \in [Hosts -> BOOLEAN]
  BY DEF Becomes, EndInputs
<1>3. ASSUME NEW h \in Hosts
      PROVE  /\ box(h) \in Seq(Callers)
             /\ \/ box(h) = <<>>
                \/ \E s \in Seq(new(h)) : box(h) = inbox[h] \o s
  <2>1. new(h) \in SUBSET Callers
    OBVIOUS
  <2>2. SetToSeq(new(h)) \in Seq(new(h))
    <3> HIDE DEF new
    <3>1. IsFiniteSet(new(h))
      BY <2>1, CallersAre, FS_Subset
    <3> QED
      BY <3>1, SetToSeqIs
  <2>3. SetToSeq(new(h)) \in Seq(Callers) /\ inbox[h] \in Seq(Callers)
    <3> HIDE DEF new
    <3> QED
      BY <2>1, <2>2 DEF TypeOK
  <2> HIDE DEF new
  <2> QED
    BY <2>2, <2>3
<1> HIDE DEF box, new
<1>4. inbox' \in [Hosts -> Seq(Callers)] /\ \A h \in Hosts : inbox'[h] = box(h)
  BY <1>1, <1>3
<1>5. ASSUME NEW h \in Hosts
      PROVE  \/ inbox'[h] = <<>>
             \/ \E s \in Seq(new(h)) : inbox'[h] = inbox[h] \o s
  BY <1>3, <1>4
<1> QED
  BY <1>1, <1>2, <1>4, <1>5 DEF new

\* A step that asks no host for an active run, nor adds to what was asked before.
Hushed(c) ==
  /\ \/ c.at["check"] \in {client.at["check"], "failed"} /\ c.runActive = client.runActive
     \/ c.at["check"] = "ok" /\ (c.runActive \/ Idle(client.child))
  /\ c.save = "check" => client.save = "check"
  /\ c.save \in {"check", "stop"} /\ c.child # NoHost =>
       client.save \in {"check", "stop"} /\ c.child = client.child
  /\ \A x \in Callers, h \in Hosts :
       <<x, h>> \in c.pending \ client.pending => x # "check" /\ c.save \notin {"check", "stop"}

LEMMA HushedAsked ==
  ASSUME TypeOK, Asked(client), NEW c \in ClientType, Becomes(c), Hushed(c),
         active' = active,
         \A h \in Hosts : \A i \in DOMAIN outbox'[h] :
           \E j \in DOMAIN outbox[h] : outbox'[h][i] = outbox[h][j]
  PROVE  Asked(client)'
<1>1. client' = c
  BY BecomesTyped
<1>2. ASSUME NEW h \in Hosts, NEW i \in DOMAIN inbox'[h]
      PROVE  \/ i \in DOMAIN inbox[h] /\ inbox'[h][i] = inbox[h][i]
             \/ /\ inbox'[h][i] \in Callers
                /\ <<inbox'[h][i], h>> \in c.pending \ client.pending
  <2> DEFINE new == {x \in Callers : <<x, h>> \in c.pending \ client.pending}
  <2>1. inbox[h] \in Seq(Callers)
    BY DEF TypeOK
  <2>2. inbox'[h] = <<>> \/ \E s \in Seq(new) : inbox'[h] = inbox[h] \o s
    BY BecomesTyped
  <2>3. new \in SUBSET Callers
    OBVIOUS
  <2>4. (i \in DOMAIN inbox[h] /\ inbox'[h][i] = inbox[h][i]) \/ inbox'[h][i] \in new
    <3> HIDE DEF new
    <3>1. CASE inbox'[h] = <<>>
      BY <1>2, <3>1
    <3>2. ASSUME NEW s \in Seq(new), inbox'[h] = inbox[h] \o s
          PROVE  (i \in DOMAIN inbox[h] /\ inbox'[h][i] = inbox[h][i]) \/ inbox'[h][i] \in new
      <4>1. s \in Seq(Callers)
        BY <2>3
      <4> QED
        BY <1>2, <2>1, <3>2, <4>1
    <3> QED
      BY <2>2, <3>1, <3>2
  <2> QED
    BY <2>4
<1>3. ASSUME NEW h \in Hosts, NEW i \in DOMAIN inbox'[h],
             inbox'[h][i] = "check" \/ c.save \in {"check", "stop"}
      PROVE  i \in DOMAIN inbox[h] /\ inbox'[h][i] = inbox[h][i]
  BY <1>2, <1>3 DEF Hushed
<1>4. ASSUME c.at["check"] = "new", NEW h \in Hosts
      PROVE  /\ \A i \in DOMAIN inbox'[h] : inbox'[h][i] # "check"
             /\ \A i \in DOMAIN outbox'[h] : outbox'[h][i].to # "check"
  BY <1>3, <1>4 DEF Asked, Hushed
<1>5. ASSUME NEW h \in Hosts, Idle(h), c.save \in {"check", "stop"}
      PROVE  Idle(h)'
  BY <1>3, <1>5 DEF Idle
<1>6. ASSUME c.save = "check", NEW h \in Hosts
      PROVE  /\ \A i, j \in DOMAIN inbox'[h] :
                  i < j /\ inbox'[h][i] = "check" => inbox'[h][j] \notin Calls
             /\ \A i \in DOMAIN outbox'[h] :
                  outbox'[h][i].to = "check" /\ ~outbox'[h][i].active => Idle(h)'
  <2>1. /\ \A i, j \in DOMAIN inbox[h] :
             i < j /\ inbox[h][i] = "check" => inbox[h][j] \notin Calls
        /\ \A i \in DOMAIN outbox[h] :
             outbox[h][i].to = "check" /\ ~outbox[h][i].active => Idle(h)
    BY <1>6 DEF Asked, Hushed
  <2> QED
    BY <1>3, <1>5, <1>6, <2>1
<1>7. ASSUME c.save \in {"check", "stop"}, c.at["check"] = "ok", ~c.runActive, c.child # NoHost
      PROVE  Idle(c.child)'
  <2>1. c.child \in Hosts /\ Idle(c.child)
    BY <1>7 DEF Asked, Hushed, ClientType
  <2> QED
    BY <1>5, <1>7, <2>1
<1>8. c.child' = c.child
  OBVIOUS
<1> QED
  BY <1>1, <1>4, <1>6, <1>7 DEF Asked

\* What a step of the client alone has to leave.
LEMMA ClientMoves ==
  ASSUME IInv, Running, NEW c \in ClientType, Becomes(c), UNCHANGED <<proc, outbox, active, env>>,
         \/ c.quit = "exited" /\ (c.timedOut \/ Alive = {})
         \/ c.quit # "exited" /\ Sound(c) /\ (Hushed(c) \/ Asked(client)')
  PROVE  IInv'
<1> USE DEF IInv
<1>1. client' = c /\ TypeOK'
  BY BecomesTyped DEF TypeOK
<1>2. CASE c.quit = "exited" /\ (c.timedOut \/ Alive = {})
  BY <1>1, <1>2 DEF Running, Alive
<1>3. CASE c.quit # "exited" /\ Sound(c) /\ (Hushed(c) \/ Asked(client)')
  <2>1. Asked(client)'
    BY <1>3, HushedAsked
  <2>2. Standing(client)' /\ Founded(client)' /\ Saving(client)'
    BY <1>1, <1>3 DEF Sound, Shape, Standing, Founded, Saving
  <2>3. Tracked(client)' /\ Current(client)'
    BY <1>1, <1>3 DEF Sound, Tracked, Current, Alive
  <2> QED
    BY <1>1, <1>3, <2>1, <2>2, <2>3 DEF Running, Sound, Shape
<1> QED
  BY <1>2, <1>3

LEMMA RequestStep ==
  ASSUME IInv, NEW x \in Calls, Request(x)
  PROVE  IInv'
<1> DEFINE c == Enter(client, x)
<1>1. Running /\ Sound(client) /\ client \in ClientType /\ x \in Callers \ {"boot"}
      /\ x \notin SavePhases /\ client.save \in {"idle", "done"} /\ Becomes(c)
      /\ client.at[x] = "new" /\ UNCHANGED <<proc, outbox, active, env>>
  BY CallersAre DEF Request, IInv, Sound, Shape, SettingsChanging
<1>2. Shape(c) /\ Tracked(c) /\ Current(c)
  BY <1>1, EnterShape DEF Sound
<1>3. /\ c \in ClientType /\ UsersStay(client, c) /\ StopStays(client, c)
      /\ HostsStay(client, c)
      /\ \A y \in SavePhases : c.at[y] = client.at[y]
      /\ \A y \in Callers, h \in Hosts :
           <<y, h>> \in c.pending => <<y, h>> \in client.pending \/ y = x
  <2>1. x \in Callers /\ \A y \in SavePhases : y \in Callers \ {x}
    BY <1>1, CallersAre
  <2> HIDE DEF c
  <2>2. c = Enter(client, x)
    BY DEF c
  <2>3. /\ c \in ClientType /\ UsersStay(client, c) /\ StopStays(client, c)
        /\ HostsStay(client, c) /\ \A y \in Callers \ {x} : c.at[y] = client.at[y]
    BY <1>1, <2>1, <2>2, EnterIs
  <2>4. \A y \in Callers, h \in Hosts :
          <<y, h>> \in c.pending => <<y, h>> \in client.pending \/ y = x
    BY <1>1, <2>1, <2>2, EnterIs
  <2> QED
    BY <2>1, <2>3, <2>4
<1> HIDE DEF c
<1>4. Saving(c)
  BY <1>1, <1>3, CallersAre DEF Sound, Saving, UsersStay, StopStays, HostsStay, SavePhases
<1>5. Hushed(c)
  BY <1>1, <1>3, CallersAre DEF Hushed, UsersStay, SavePhases
<1>6. c.quit # "exited"
  BY <1>1, <1>3 DEF Running, UsersStay
<1> QED
  BY <1>1, <1>2, <1>3, <1>4, <1>5, <1>6, ClientMoves DEF Sound

\* stop() as the users of the client call it.
LEMMA StopStep ==
  ASSUME IInv, Running, UNCHANGED <<proc, outbox, active, env>>,
         NEW b \in ClientType, b.at = client.at, b.pending = client.pending,
         StartStays(client, b), StopStays(client, b), HostsStay(client, b),
         b.runActive = client.runActive, b.settings = client.settings,
         \/ b.quit = "asked" /\ b.save = client.save
         \/ b.quit = client.quit /\ client.save = "stop" /\ b.save = "stopping"
         \/ /\ b.quit = client.quit /\ client.save = "activate" /\ b.save = "undoing"
            /\ client.at["activate"] \in {"ok", "failed"},
         Becomes(Stopped(b))
  PROVE  IInv'
<1>1. Sound(client) /\ client.quit \in {"no", "asked"} /\ b.quit \in {"no", "asked"}
  BY DEF IInv, Running, TypeOK, ClientType
<1>2. Shape(b) /\ Tracked(b)
  BY <1>1, SameShape DEF Sound
<1>3. CASE b.stop # "none"
  <2>1. Becomes(b)
    BY <1>3 DEF Stopped
  <2>2. Saving(b)
    BY <1>1, <1>3 DEF Sound, Saving, StartStays, StopStays, HostsStay
  <2>3. Current(b)
    BY <1>1 DEF Sound, Current, StartStays, HostsStay
  <2>4. Hushed(b)
    BY DEF Hushed, HostsStay
  <2> QED
    BY <1>1, <1>2, <2>1, <2>2, <2>3, <2>4, ClientMoves DEF Sound
<1>4. CASE b.stop = "none"
  <2> DEFINE d == Stopped(b)
  <2>1. /\ d \in ClientType /\ d.child = NoHost /\ d.pending = {}
        /\ d.timedOut = b.timedOut /\ d.settings = b.settings /\ d.runActive = b.runActive
        /\ b.start = "none" /\ b.child = NoHost => d.stop = "none"
        /\ d.quit # "exited" =>
             /\ d.start = "directory" => b.start = "directory" /\ d.startEnv = b.startEnv
             /\ b.start = "none" => d.start = "none"
             /\ \A x \in Callers \ {"boot"} :
                  \/ b.at[x] = "sent" /\ d.at[x] = "failed"
                  \/ b.at[x] = "waitStart" /\ d.at[x] = "failed" /\ d.start = "none"
                  \/ b.at[x] # "sent" /\ d.at[x] = b.at[x]
    BY <1>1, <1>2, <1>4, StoppedIs
  <2>2. \/ /\ d.stop # "none" /\ d.quit = b.quit /\ d.save = b.save
           /\ Shape(d) /\ Tracked(d)
        \/ /\ d.stop = "none" /\ (d.timedOut \/ Alive = {})
           /\ b.quit = "asked" => d.quit = "exited"
           /\ b.quit = "no" =>
                /\ d.quit = "no" /\ d.start = "none" /\ Shape(d)
                /\ d.save = IF b.save = "stopping" THEN "copy"
                            ELSE IF b.save = "undoing" THEN "rollback" ELSE b.save
    BY <1>1, <1>2, <1>4, StoppedIs
  <2> HIDE DEF d
  <2>3. Becomes(d)
    BY DEF d
  <2>4. CASE d.quit = "exited"
    BY <1>1, <2>1, <2>2, <2>3, <2>4, ClientMoves
  <2>5. CASE d.quit # "exited"
    <3>1. Shape(d) /\ Tracked(d)
      BY <1>1, <2>1, <2>2, <2>5 DEF Tracked
    <3>2. Current(d)
      BY <1>1, <2>1, <2>5 DEF Sound, Current, StartStays
    <3>3. \A x \in Calls \cup SavePhases :
            \/ client.at[x] = "sent" /\ d.at[x] = "failed"
            \/ client.at[x] = "waitStart" /\ d.at[x] = "failed" /\ d.start = "none"
            \/ client.at[x] # "sent" /\ d.at[x] = client.at[x]
      BY <2>1, <2>5, CallersAre DEF SavePhases
    <3>4. d.at["check"] \in {client.at["check"], "failed"}
      BY <3>3 DEF SavePhases
    <3>5. Saving(d)
      <4>1. /\ Saving(client) /\ client.stop = "none" /\ b.start = client.start
            /\ b.child = client.child
        BY <1>1, <1>4 DEF Sound, StartStays, StopStays, HostsStay
      <4>9. client.at["check"] # "waitStart"
        BY <4>1 DEF Saving, Settled
      <4>2. /\ \/ d.at["check"] = client.at["check"]
               \/ d.at["check"] = "failed" /\ client.at["check"] = "sent"
            /\ \/ d.at["activate"] = client.at["activate"]
               \/ /\ d.at["activate"] = "failed"
                  /\ \/ client.at["activate"] = "sent"
                     \/ client.at["activate"] = "waitStart" /\ d.start = "none"
            /\ \/ d.at["restore"] = client.at["restore"]
               \/ d.at["restore"] = "failed" /\ client.at["restore"] \in {"sent", "waitStart"}
        BY <3>3, <4>9 DEF SavePhases
      <4>3. client.save = "idle" => \A x \in SavePhases : d.at[x] = "new"
        BY <3>3, <4>1 DEF Saving
      <4>4. client.save \notin {"idle", "done"} => \A x \in Calls : d.at[x] \in Settled
        BY <3>3, <4>1 DEF Saving, Settled
      <4>5. b.start = "none" => d.start = "none"
        BY <2>1, <2>5
      <4>6. CASE d.stop # "none"
        <5>1. d.save = b.save /\ d.quit = b.quit
          BY <2>2, <4>6
        <5>2. ~(b.start = "none" /\ b.child = NoHost)
          BY <2>1, <4>6
        <5>3. b.quit = "asked" => client.save \notin {"stopping", "copy", "undoing", "rollback"}
          BY <4>1, <5>2 DEF Saving
        <5>4. CASE b.quit = "asked"
          BY <2>1, <4>1, <4>2, <4>3, <4>4, <4>5, <4>6, <5>1, <5>3, <5>4 DEF Saving, Settled
        <5>5. CASE b.save = "stopping"
          BY <2>1, <4>1, <4>2, <4>3, <4>4, <4>5, <4>6, <5>1, <5>5 DEF Saving, Settled
        <5>6. CASE b.save = "undoing"
          BY <2>1, <4>1, <4>2, <4>3, <4>4, <4>5, <4>6, <5>1, <5>6 DEF Saving, Settled
        <5> QED
          BY <5>4, <5>5, <5>6
      <4>7. CASE d.stop = "none"
        <5>1. b.quit = "no" /\ d.start = "none"
          BY <1>1, <2>2, <2>5, <4>7
        <5>2. CASE client.save = "stop" /\ b.save = "stopping"
          <6>1. d.save = "copy"
            BY <2>2, <4>7, <5>1, <5>2
          <6> QED
            BY <2>1, <4>1, <4>2, <4>3, <4>4, <4>7, <5>1, <5>2, <6>1 DEF Saving, Settled
        <5>3. CASE client.save = "activate" /\ b.save = "undoing"
          <6>1. d.save = "rollback"
            BY <2>2, <4>7, <5>1, <5>3
          <6> QED
            BY <2>1, <4>1, <4>2, <4>3, <4>4, <4>7, <5>1, <5>3, <6>1 DEF Saving, Settled
        <5> QED
          BY <5>1, <5>2, <5>3
      <4> QED
        BY <4>6, <4>7
    <3>6. Hushed(d)
      BY <1>1, <2>1, <2>2, <2>5, <3>4 DEF Hushed
    <3> QED
      BY <2>1, <2>3, <2>5, <3>1, <3>2, <3>5, <3>6, ClientMoves DEF Sound
  <2> QED
    BY <2>4, <2>5
<1> QED
  BY <1>3, <1>4

LEMMA QuitStep ==
  ASSUME IInv, Quit
  PROVE  IInv'
<1> DEFINE b == [client EXCEPT !.quit = "asked"]
<1>1. /\ Running /\ client \in ClientType /\ Becomes(Stopped(b))
      /\ UNCHANGED <<proc, outbox, active, env>>
  BY DEF Quit, Running, IInv, TypeOK
<1>2. /\ b \in ClientType /\ b.at = client.at /\ b.pending = client.pending
      /\ StartStays(client, b) /\ StopStays(client, b) /\ HostsStay(client, b)
      /\ b.runActive = client.runActive /\ b.settings = client.settings
      /\ b.quit = "asked" /\ b.save = client.save
  BY <1>1 DEF ClientType, StartStays, StopStays, HostsStay
<1> HIDE DEF b
<1> QED
  BY <1>1, <1>2, StopStep

\* save_settings moves on and leaves the rest of the client alone.
LEMMA SaveMoves ==
  ASSUME NEW c \in ClientType, NEW s \in {"idle", "check", "stop", "stopping", "copy", "activate",
                                          "undoing", "rollback", "restore", "done"},
         NEW d, d = [c EXCEPT !.save = s]
  PROVE  /\ d \in ClientType /\ d.at = c.at /\ d.pending = c.pending /\ d.save = s
         /\ StartStays(c, d) /\ StopStays(c, d) /\ HostsStay(c, d)
         /\ d.runActive = c.runActive /\ d.settings = c.settings /\ d.quit = c.quit
BY DEF ClientType, StartStays, StopStays, HostsStay

LEMMA SaveStopsStep ==
  ASSUME IInv, SaveStops
  PROVE  IInv'
<1> DEFINE b == [client EXCEPT !.save = "stopping"]
<1>1. /\ Running /\ client \in ClientType /\ Becomes(Stopped(b)) /\ client.save = "stop"
      /\ UNCHANGED <<proc, outbox, active, env>>
  BY DEF SaveStops, IInv, TypeOK
<1>2. /\ b \in ClientType /\ b.at = client.at /\ b.pending = client.pending
      /\ StartStays(client, b) /\ StopStays(client, b) /\ HostsStay(client, b)
      /\ b.runActive = client.runActive /\ b.settings = client.settings
      /\ b.quit = client.quit /\ b.save = "stopping"
  BY <1>1, SaveMoves
<1> HIDE DEF b
<1> QED
  BY <1>1, <1>2, StopStep

\* When nothing is going on nobody waits.
LEMMA NobodyWaits ==
  ASSUME Sound(client), ~IsBusy
  PROVE  \A x \in Calls : client.at[x] \in Settled
<1>1. client.at \in [Callers -> {"new", "waitStop", "waitStart", "sent", "ok", "failed"}]
      /\ Founded(client)
  BY DEF Sound, Shape, ClientType
<1>2. client.pending = {} /\ client.start = "none" /\ client.stop = "none"
  BY DEF IsBusy
<1> QED
  BY <1>1, <1>2, CallersAre DEF Founded, Settled

\* A save that is between two of its waits, and asks for nothing.
LEMMA SaveIdles ==
  ASSUME IInv, Running, UNCHANGED <<proc, outbox, active, env>>,
         NEW s \in {"stop", "done"}, Becomes([client EXCEPT !.save = s]),
         \/ client.save = "idle" /\ ~IsBusy /\ client.child = NoHost
         \/ /\ client.save = "check" /\ client.at["check"] \in {"ok", "failed"}
            /\ s = "stop" => client.at["check"] = "ok" /\ ~client.runActive
         \/ client.save = "activate" /\ client.at["activate"] = "ok" /\ s = "done"
         \/ client.save = "restore" /\ s = "done"
  PROVE  IInv'
<1> DEFINE d == [client EXCEPT !.save = s]
<1>1. Sound(client) /\ client \in ClientType
  BY DEF IInv, TypeOK
<1>2. /\ d \in ClientType /\ d.at = client.at /\ d.pending = client.pending /\ d.save = s
      /\ StartStays(client, d) /\ StopStays(client, d) /\ HostsStay(client, d)
      /\ d.runActive = client.runActive /\ d.settings = client.settings
      /\ d.quit = client.quit
  BY <1>1, SaveMoves
<1> HIDE DEF d
<1>3. Shape(d) /\ Tracked(d)
  BY <1>1, <1>2, SameShape DEF Sound
<1>4. Current(d)
  BY <1>1, <1>2 DEF Sound, Current, StartStays, HostsStay
<1>5. Saving(d)
  <2>1. Saving(client) /\ Founded(client)
    BY <1>1 DEF Sound, Shape
  <2>2. ASSUME client.save = "idle", ~IsBusy, client.child = NoHost
        PROVE  \A x \in Calls : d.at[x] \in Settled
    BY <1>1, <1>2, <2>2, NobodyWaits
  <2>3. CASE client.save = "idle" /\ ~IsBusy /\ client.child = NoHost
    BY <1>2, <2>1, <2>2, <2>3
       DEF Saving, StartStays, StopStays, HostsStay, SavePhases, Settled, IsBusy
  <2>4. CASE /\ client.save = "check" /\ client.at["check"] \in {"ok", "failed"}
             /\ s = "stop" => client.at["check"] = "ok" /\ ~client.runActive
    <3>1. \A h \in Hosts : <<"check", h>> \notin client.pending
      BY <2>1, <2>4, CallersAre DEF Founded, SavePhases
    <3> QED
      BY <1>2, <2>1, <2>4, <3>1
         DEF Saving, StartStays, StopStays, HostsStay, SavePhases, Settled
  <2>5. CASE \/ client.save = "activate" /\ client.at["activate"] = "ok" /\ s = "done"
             \/ client.save = "restore" /\ s = "done"
    BY <1>2, <2>1, <2>5 DEF Saving, StartStays, StopStays, HostsStay, SavePhases, Settled
  <2> QED
    BY <2>3, <2>4, <2>5
<1>6. Hushed(d)
  BY <1>2 DEF Hushed, HostsStay
<1>7. Becomes(d) /\ d.quit # "exited"
  BY <1>2 DEF d, Running
<1> QED
  BY <1>2, <1>3, <1>4, <1>5, <1>6, <1>7, ClientMoves DEF Sound

LEMMA SaveChecksStep ==
  ASSUME IInv, SaveChecked \/ SaveEnds
  PROVE  IInv'
<1>1. CASE SaveEnds
  BY <1>1, SaveIdles DEF SaveEnds
<1>2. CASE SaveChecked
  <2>1. CASE client.at["check"] = "ok" /\ ~client.runActive
    BY <1>2, <2>1, SaveIdles DEF SaveChecked
  <2>2. CASE ~(client.at["check"] = "ok" /\ ~client.runActive)
    <3>1. Becomes([client EXCEPT !.save = "done"])
      BY <1>2, <2>2 DEF SaveChecked
    <3> QED
      BY <1>2, <3>1, SaveIdles DEF SaveChecked
  <2> QED
    BY <2>1, <2>2
<1> QED
  BY <1>1, <1>2

LEMMA SaveActivatedStep ==
  ASSUME IInv, SaveActivated
  PROVE  IInv'
<1>1. /\ Running /\ client \in ClientType /\ client.save = "activate"
      /\ client.at["activate"] \in {"ok", "failed"}
      /\ UNCHANGED <<proc, outbox, active, env>>
  BY DEF SaveActivated, IInv, TypeOK
<1>2. CASE client.at["activate"] = "ok"
  BY <1>1, <1>2, SaveIdles DEF SaveActivated
<1>3. CASE client.at["activate"] # "ok"
  <2> DEFINE b == [client EXCEPT !.save = "undoing"]
  <2>1. Becomes(Stopped(b))
    BY <1>3 DEF SaveActivated
  <2>2. /\ b \in ClientType /\ b.at = client.at /\ b.pending = client.pending
        /\ StartStays(client, b) /\ StopStays(client, b) /\ HostsStay(client, b)
        /\ b.runActive = client.runActive /\ b.settings = client.settings
        /\ b.quit = client.quit /\ b.save = "undoing"
    BY <1>1, SaveMoves
  <2> HIDE DEF b
  <2> QED
    BY <1>1, <2>1, <2>2, StopStep
<1> QED
  BY <1>2, <1>3

\* The host is started again, on the settings that were written: nothing runs and
\* nothing is under way.
LEMMA SaveStarts ==
  ASSUME IInv, Running, UNCHANGED <<proc, outbox, active, env>>,
         client.save \in {"copy", "rollback"},
         NEW x \in {"activate", "restore"}, x = "activate" => client.save = "copy",
         NEW b \in ClientType, b.at = client.at, b.pending = client.pending, b.save = x,
         StartStays(client, b), StopStays(client, b), HostsStay(client, b),
         b.runActive = client.runActive, b.quit = client.quit,
         Becomes(Enter(b, x))
  PROVE  IInv'
<1> DEFINE d == Enter(b, x)
<1>1. /\ Sound(client) /\ client.stop = "none" /\ client.child = NoHost /\ client.start = "none"
      /\ x \in Callers \ {"boot"} /\ Saving(client)
  BY CallersAre DEF IInv, Sound, Saving, SavePhases
<1>2. Shape(b) /\ Tracked(b)
  BY <1>1, SameShape DEF Sound
<1>3. Current(b)
  BY <1>1 DEF Current, HostsStay, StartStays
<1>4. Shape(d) /\ Tracked(d) /\ Current(d)
  <2>1. b.at[x] # "sent"
    BY <1>1 DEF Saving
  <2> QED
    BY <1>1, <1>2, <1>3, <2>1, EnterShape
<1>5. b.stop = "none" /\ b.child = NoHost /\ b.child \notin Hosts
  BY <1>1, CallersAre DEF HostsStay, StopStays
<1> HIDE DEF d
<1>6. /\ d \in ClientType /\ UsersStay(b, d) /\ StopStays(b, d) /\ HostsStay(b, d)
      /\ \A y \in Callers \ {x} : d.at[y] = b.at[y]
      /\ d.at[x] = "waitStart" /\ d.pending = b.pending
  <2>1. d = Enter(b, x) /\ x \in Callers
    BY <1>1 DEF d
  <2>2. /\ d \in ClientType /\ UsersStay(b, d) /\ StopStays(b, d) /\ HostsStay(b, d)
        /\ \A y \in Callers \ {x} : d.at[y] = b.at[y]
    BY <2>1, EnterIs
  <2>3. d.at[x] = "waitStart" /\ d.pending = b.pending
    BY <1>5, <2>1, EnterIs
  <2> QED
    BY <2>2, <2>3
<1>7. /\ d.save = x /\ d.stop = "none" /\ d.pending = client.pending /\ d.quit = client.quit
      /\ d.runActive = client.runActive /\ d.child = NoHost
      /\ \A y \in Calls : d.at[y] = client.at[y]
      /\ d.at["check"] = client.at["check"]
      /\ x = "activate" => d.at["restore"] = client.at["restore"]
  BY <1>1, <1>5, <1>6, CallersAre DEF UsersStay, StopStays, HostsStay, SavePhases
<1>8. Saving(d)
  BY <1>1, <1>6, <1>7 DEF Saving, Settled
<1>9. Hushed(d)
  BY <1>7 DEF Hushed
<1>10. Becomes(d) /\ d.quit # "exited"
  BY <1>7 DEF d, Running
<1> QED
  BY <1>4, <1>6, <1>8, <1>9, <1>10, ClientMoves DEF Sound

LEMMA SaveWritesStep ==
  ASSUME IInv, SaveWrites \/ SaveRollsBack
  PROVE  IInv'
<1>1. client \in ClientType /\ Running /\ UNCHANGED <<proc, outbox, active, env>>
  BY DEF IInv, TypeOK, SaveWrites, SaveRollsBack
<1>2. ASSUME NEW x \in {"activate", "restore"}, NEW v \in {"old", "new"}, NEW b,
             b = [client EXCEPT !.save = x, !.settings = v], Becomes(Enter(b, x)),
             client.save \in {"copy", "rollback"}, x = "activate" => client.save = "copy"
      PROVE  IInv'
  <2>1. /\ b \in ClientType /\ b.at = client.at /\ b.pending = client.pending /\ b.save = x
        /\ StartStays(client, b) /\ StopStays(client, b) /\ HostsStay(client, b)
        /\ b.runActive = client.runActive /\ b.quit = client.quit
    <3>1. b = [client EXCEPT !.save = x, !.settings = v]
      BY <1>2
    <3> QED
      BY <1>1, <3>1, ZenonT(40) DEF ClientType, StartStays, StopStays, HostsStay
  <2> QED
    BY <1>1, <1>2, <2>1, SaveStarts
<1>3. CASE SaveRollsBack
  <2>1. /\ client.save = "rollback"
        /\ Becomes(Enter([client EXCEPT !.save = "restore", !.settings = "old"], "restore"))
    BY <1>3 DEF SaveRollsBack
  <2> QED
    BY <1>2, <2>1
<1>4. CASE SaveWrites
  <2>1. CASE Becomes(Enter([client EXCEPT !.save = "activate", !.settings = "new"], "activate"))
    <3>1. client.save = "copy"
      BY <1>4 DEF SaveWrites
    <3> QED
      BY <1>2, <2>1, <3>1
  <2>2. CASE Becomes(Enter([client EXCEPT !.save = "restore"], "restore"))
    <3> DEFINE b == [client EXCEPT !.save = "restore"]
    <3>1. /\ b \in ClientType /\ b.at = client.at /\ b.pending = client.pending
          /\ b.save = "restore"
          /\ StartStays(client, b) /\ StopStays(client, b) /\ HostsStay(client, b)
          /\ b.runActive = client.runActive /\ b.quit = client.quit
      BY <1>1, SaveMoves
    <3>2. Becomes(Enter(b, "restore")) /\ client.save = "copy"
      BY <1>4, <2>2 DEF SaveWrites
    <3> HIDE DEF b
    <3> QED
      BY <1>1, <3>1, <3>2, SaveStarts
  <2> QED
    BY <1>4, <2>1, <2>2 DEF SaveWrites
<1> QED
  BY <1>3, <1>4

\* The running host is asked for an active run: its request comes after all that
\* may start one.
LEMMA SaveBeginsStep ==
  ASSUME IInv, SaveBegins
  PROVE  IInv'
<1>1. /\ Running /\ client.save = "idle" /\ ~IsBusy /\ client \in ClientType
      /\ UNCHANGED <<proc, outbox, active, env>> /\ Sound(client)
  BY DEF SaveBegins, IInv, TypeOK
<1>2. CASE client.child = NoHost
  BY <1>1, <1>2, SaveIdles DEF SaveBegins
<1>3. CASE client.child # NoHost
  <2> DEFINE b == [client EXCEPT !.save = "check"]
             d == Enter(b, "check")
  <2>1. /\ b \in ClientType /\ b.at = client.at /\ b.pending = client.pending /\ b.save = "check"
        /\ StartStays(client, b) /\ StopStays(client, b) /\ HostsStay(client, b)
        /\ b.runActive = client.runActive /\ b.settings = client.settings
        /\ b.quit = client.quit
    BY <1>1, SaveMoves
  <2>2. Becomes(d)
    BY <1>3 DEF SaveBegins
  <2> HIDE DEF b
  <2>3. Shape(b) /\ Tracked(b) /\ Current(b)
    <3>1. Shape(b) /\ Tracked(b)
      BY <1>1, <2>1, SameShape DEF Sound
    <3>2. Current(b)
      BY <1>1, <2>1 DEF Sound, Current, StartStays, HostsStay
    <3> QED
      BY <3>1, <3>2
  <2>4. "check" \in Callers \ {"boot"} /\ client.pending = {} /\ client.stop = "none"
        /\ client.start = "none" /\ Saving(client) /\ client.child \in Hosts
    BY <1>1, <1>3, CallersAre DEF IsBusy, SavePhases, Sound, ClientType
  <2>5. Shape(d) /\ Tracked(d) /\ Current(d)
    <3>1. b.at["check"] # "sent"
      BY <1>1, <2>1, <2>4 DEF Saving, SavePhases
    <3> QED
      BY <2>3, <2>4, <3>1, EnterShape
  <2>6. b.stop = "none" /\ b.child = client.child /\ b.child # NoHost
    BY <1>3, <2>1, <2>4 DEF StopStays, HostsStay
  <2> HIDE DEF d
  <2>7. /\ d \in ClientType /\ UsersStay(b, d) /\ StopStays(b, d) /\ HostsStay(b, d)
        /\ \A y \in Callers \ {"check"} : d.at[y] = b.at[y]
        /\ d.at["check"] = "sent" /\ d.start = b.start
    <3>1. d = Enter(b, "check") /\ "check" \in Callers
      BY <2>4 DEF d
    <3>2. /\ d \in ClientType /\ UsersStay(b, d) /\ StopStays(b, d) /\ HostsStay(b, d)
          /\ \A y \in Callers \ {"check"} : d.at[y] = b.at[y]
      BY <2>1, <3>1, EnterIs
    <3>3. d.at["check"] = "sent" /\ d.start = b.start
      BY <2>1, <2>6, <3>1, EnterIs
    <3> QED
      BY <3>2, <3>3
  <2>8. \A y \in Callers, h \in Hosts :
          <<y, h>> \in d.pending <=> y = "check" /\ h = client.child
    <3>1. d = Enter(b, "check") /\ "check" \in Callers
      BY <2>4 DEF d
    <3>2. \A y \in Callers, h \in Hosts :
            <<y, h>> \in d.pending <=> <<y, h>> \in b.pending \/ (y = "check" /\ h = b.child)
      <4>1. PICK x \in Callers : x = "check"
        BY <3>1
      <4>2. d = Enter(b, x)
        BY <3>1, <4>1
      <4>3. \/ d.at[x] = "waitStop"
            \/ \A y \in Callers, h \in Hosts :
                 <<y, h>> \in d.pending <=> <<y, h>> \in b.pending \/ (y = x /\ h = b.child)
            \/ d.at[x] = "waitStart"
        BY <2>1, <4>2, EnterIs
      <4> QED
        BY <2>7, <4>1, <4>3
    <3> QED
      BY <2>1, <2>4, <2>6, <3>2
  <2>9. /\ d.save = "check" /\ d.stop = "none" /\ d.start = "none" /\ d.child = client.child
        /\ d.quit = client.quit
    BY <2>1, <2>4, <2>6, <2>7 DEF UsersStay, StopStays, HostsStay, StartStays
  <2>10. /\ \A y \in Calls : d.at[y] \in Settled
         /\ d.at["activate"] = "new" /\ d.at["restore"] = "new"
    <3>1. \A y \in Calls : client.at[y] \in Settled
      BY <1>1, NobodyWaits
    <3>2. client.at["activate"] = "new" /\ client.at["restore"] = "new"
      BY <1>1, <2>4 DEF Saving, SavePhases
    <3>3. "activate" \in Callers /\ "restore" \in Callers /\ Calls \subseteq Callers
          /\ "check" \notin Calls
      BY CallersAre DEF SavePhases
    <3> QED
      BY <2>1, <2>7, <3>1, <3>2, <3>3
  <2>11. Saving(d)
    BY <2>7, <2>8, <2>9, <2>10, CallersAre DEF Saving, Settled, SavePhases
  <2>12. ASSUME NEW h \in Hosts, NEW i \in DOMAIN inbox'[h], i \notin DOMAIN inbox[h]
         PROVE  inbox'[h][i] = "check"
    <3> DEFINE new == {x \in Callers : <<x, h>> \in d.pending \ client.pending}
    <3>1. inbox[h] \in Seq(Callers)
      BY DEF TypeOK, IInv
    <3>2. inbox'[h] = <<>> \/ \E s \in Seq(new) : inbox'[h] = inbox[h] \o s
      BY <2>2, <2>7, BecomesTyped DEF IInv
    <3>3. new \in SUBSET Callers /\ \A x \in new : x = "check"
      BY <2>8
    <3> HIDE DEF new
    <3>4. ASSUME NEW s \in Seq(new), inbox'[h] = inbox[h] \o s
          PROVE  inbox'[h][i] \in new
      <4>1. s \in Seq(Callers)
        BY <3>3
      <4> QED
        BY <2>12, <3>1, <3>4, <4>1
    <3> QED
      BY <2>12, <3>2, <3>3, <3>4
  <2>13. ASSUME NEW h \in Hosts, NEW i \in DOMAIN inbox'[h], i \in DOMAIN inbox[h]
         PROVE  inbox'[h][i] = inbox[h][i]
    <3> DEFINE new == {x \in Callers : <<x, h>> \in d.pending \ client.pending}
    <3>1. inbox[h] \in Seq(Callers)
      BY DEF TypeOK, IInv
    <3>2. inbox'[h] = <<>> \/ \E s \in Seq(new) : inbox'[h] = inbox[h] \o s
      BY <2>2, <2>7, BecomesTyped DEF IInv
    <3>3. new \in SUBSET Callers
      OBVIOUS
    <3> HIDE DEF new
    <3>4. ASSUME NEW s \in Seq(new), inbox'[h] = inbox[h] \o s
          PROVE  inbox'[h][i] = inbox[h][i]
      <4>1. s \in Seq(Callers)
        BY <3>3
      <4> QED
        BY <2>13, <3>1, <3>4, <4>1
    <3> QED
      BY <2>13, <3>2, <3>4
  <2>14. Asked(client)'
    <3>1. client' = d /\ inbox' \in [Hosts -> Seq(Callers)]
      BY <2>2, <2>7, BecomesTyped DEF IInv
    <3>2. /\ \A h \in Hosts : \A i \in DOMAIN inbox[h] : inbox[h][i] # "check"
          /\ \A h \in Hosts : \A i \in DOMAIN outbox'[h] : outbox'[h][i].to # "check"
      BY <1>1, <2>4 DEF IInv, Asked, Saving, SavePhases
    <3>3. ASSUME NEW h \in Hosts, NEW i \in DOMAIN inbox'[h], NEW j \in DOMAIN inbox'[h],
                 i < j, inbox'[h][i] = "check"
          PROVE  inbox'[h][j] \notin Calls
      <4>1. i \notin DOMAIN inbox[h]
        BY <2>13, <3>2, <3>3
      <4>2. DOMAIN inbox[h] = 1..Len(inbox[h]) /\ DOMAIN inbox'[h] = 1..Len(inbox'[h])
            /\ Len(inbox[h]) \in Nat /\ Len(inbox'[h]) \in Nat
        BY <3>1 DEF IInv, TypeOK
      <4>3. j \notin DOMAIN inbox[h]
        BY <3>3, <4>1, <4>2
      <4> QED
        BY <2>12, <4>3, CallersAre DEF SavePhases
    <3> QED
      BY <2>7, <2>9, <3>1, <3>2, <3>3 DEF Asked
  <2> QED
    BY <1>1, <2>2, <2>5, <2>7, <2>9, <2>11, <2>14, ClientMoves DEF Sound, Running
<1> QED
  BY <1>2, <1>3

-----------------------------------------------------------------------------
(* Steps of start() and stop().                                            *)

\* start() throws before it has asked for the health of a host, or after that host
\* has been terminated.
LEMMA StartFailedSound ==
  ASSUME NEW c, Sound(c), c.start \notin {"none", "health"},
         c.start \in Ending => c.timedOut \/ c.startHost \notin Alive,
         NEW d, d = StartFailed(c)
  PROVE  /\ Sound(d) /\ UsersStay(c, d) /\ HostsStay(c, d) /\ d.pending = c.pending
         /\ d.at["check"] = c.at["check"]
<1>1. /\ c \in ClientType /\ Standing(c) /\ Founded(c) /\ Tracked(c) /\ Saving(c) /\ Current(c)
  BY DEF Sound, Shape
<1>2. /\ d \in ClientType /\ UsersStay(c, d)
      /\ d.start = "none" /\ d.startHost = NoHost
      /\ \A x \in Callers :
           d.at[x] = IF c.at[x] = "waitStart" THEN "failed" ELSE c.at[x]
      /\ d.pending = c.pending /\ StopStays(c, d) /\ HostsStay(c, d)
  BY <1>1, StartFailedIs
<1>3. c.at["boot"] \notin {"sent", "waitStop", "waitStart"}
  BY <1>1 DEF Standing
<1>4. d.at["boot"] = c.at["boot"]
  BY <1>2, <1>3, CallersAre
<1>5. Standing(d)
  BY <1>1, <1>2, <1>3, <1>4 DEF Standing, StopStays, HostsStay, Ending
<1>6. Founded(d)
  <2>1. ASSUME NEW y \in Callers
        PROVE  /\ d.at[y] = "waitStop" => d.stop # "none"
               /\ d.at[y] = "waitStart" => d.start # "none"
               /\ d.at[y] = "sent" => \E h \in Hosts : <<y, h>> \in d.pending
    BY <1>1, <1>2 DEF Founded, StopStays
  <2>2. ASSUME NEW y \in Callers, NEW h \in Hosts, <<y, h>> \in d.pending
        PROVE  /\ h = d.child \/ h \in d.unfit
               /\ d.at[y] = "sent" /\ (y = "boot" => h = d.startHost)
               /\ \A k \in Hosts : <<y, k>> \in d.pending => k = h
    BY <1>1, <1>2, <1>3, <2>2 DEF Founded, HostsStay
  <2> QED
    BY <2>1, <2>2 DEF Founded
<1>7. Tracked(d)
  BY <1>1, <1>2 DEF Tracked, StopStays, HostsStay, Ending
<1>8. d.at["check"] = c.at["check"]
  BY <1>1, <1>2, CallersAre DEF Saving, Settled, SavePhases
<1>9. Saving(d)
  <2>1. /\ \A x \in SavePhases : c.at[x] = "new" => d.at[x] = "new"
        /\ \A x \in Calls : c.at[x] \in Settled => d.at[x] \in Settled
    BY <1>2, CallersAre DEF Settled
  <2>2. /\ d.at["activate"] = c.at["activate"]
           \/ (d.at["activate"] = "failed" /\ c.at["activate"] = "waitStart")
        /\ c.at["restore"] = "new" => d.at["restore"] = "new"
    BY <1>2, CallersAre DEF SavePhases
  <2>3. c.save \notin {"check", "stop", "stopping", "copy", "undoing", "rollback"}
    BY <1>1 DEF Saving
  <2> QED
    BY <1>1, <1>2, <1>8, <2>1, <2>2, <2>3
       DEF Saving, StopStays, HostsStay, UsersStay
<1>10. Current(d)
  BY <1>1, <1>2 DEF Current, HostsStay, UsersStay
<1> QED
  BY <1>2, <1>5, <1>6, <1>7, <1>8, <1>9, <1>10 DEF Sound, Shape

LEMMA StartReadsSecretsStep ==
  ASSUME IInv, StartReadsSecrets
  PROVE  IInv'
<1>1. /\ Running /\ client.start = "secrets" /\ client \in ClientType /\ Sound(client)
      /\ UNCHANGED <<proc, outbox, active, env>>
  BY DEF StartReadsSecrets, IInv, TypeOK
<1>2. CASE Becomes(StartFailed(client))
  <2> DEFINE d == StartFailed(client)
  <2>1. /\ Sound(d) /\ UsersStay(client, d) /\ HostsStay(client, d) /\ d.pending = client.pending
        /\ d.at["check"] = client.at["check"]
    BY <1>1, StartFailedSound DEF Ending
  <2> HIDE DEF d
  <2>2. d \in ClientType /\ Hushed(d) /\ d.quit # "exited"
    BY <1>1, <2>1 DEF Sound, Shape, Hushed, UsersStay, HostsStay, Running
  <2>3. Becomes(d)
    BY <1>2 DEF d
  <2> QED
    BY <1>1, <2>1, <2>2, <2>3, ClientMoves
<1>3. CASE Becomes([client EXCEPT !.start = "directory", !.startEnv = client.settings])
  <2> DEFINE d == [client EXCEPT !.start = "directory", !.startEnv = client.settings]
  <2>1. /\ d \in ClientType /\ d.start = "directory" /\ d.startEnv = d.settings
        /\ UsersStay(client, d) /\ StopStays(client, d) /\ HostsStay(client, d)
        /\ d.at = client.at /\ d.pending = client.pending /\ d.startHost = client.startHost
    BY <1>1 DEF ClientType, UsersStay, StopStays, HostsStay
  <2>2. Becomes(d)
    BY <1>3
  <2> HIDE DEF d
  <2>3. Shape(d) /\ Tracked(d)
    <3>1. Standing(d)
      BY <1>1, <2>1 DEF Sound, Shape, Standing, StopStays, HostsStay, Ending
    <3>2. Founded(d)
      BY <1>1, <2>1 DEF Sound, Shape, Founded, StopStays, HostsStay
    <3>3. Tracked(d)
      BY <1>1, <2>1 DEF Sound, Tracked, StopStays, HostsStay, Ending
    <3> QED
      BY <2>1, <3>1, <3>2, <3>3 DEF Shape
  <2>4. Saving(d)
    BY <1>1, <2>1 DEF Sound, Saving, UsersStay, StopStays, HostsStay
  <2>5. Current(d)
    BY <1>1, <2>1 DEF Sound, Current, HostsStay, UsersStay
  <2>6. Hushed(d) /\ d.quit # "exited"
    BY <1>1, <2>1 DEF Hushed, UsersStay, HostsStay, Running
  <2> QED
    BY <1>1, <2>1, <2>2, <2>3, <2>4, <2>5, <2>6, ClientMoves DEF Sound
<1> QED
  BY <1>2, <1>3 DEF StartReadsSecrets

\* A termination goes from the end of the input to the signal.
LEMMA Kills ==
  ASSUME NEW c, Sound(c), c \in ClientType, NEW d,
         \/ c.start = "eof" /\ d = [c EXCEPT !.start = "kill"]
         \/ c.stop = "eof" /\ d = [c EXCEPT !.stop = "kill"]
  PROVE  /\ Sound(d) /\ UsersStay(c, d) /\ HostsStay(c, d) /\ d.pending = c.pending
         /\ d.at = c.at
<1>1. /\ d \in ClientType /\ UsersStay(c, d) /\ HostsStay(c, d) /\ d.pending = c.pending
      /\ d.at = c.at /\ d.startHost = c.startHost /\ d.stopHost = c.stopHost
      /\ d.startEnv = c.startEnv
      /\ \/ c.start = "eof" /\ d.start = "kill" /\ d.stop = c.stop
         \/ c.stop = "eof" /\ d.stop = "kill" /\ d.start = c.start
  <2>1. CASE c.start = "eof" /\ d = [c EXCEPT !.start = "kill"]
    BY <2>1 DEF ClientType, UsersStay, HostsStay
  <2>2. CASE c.stop = "eof" /\ d = [c EXCEPT !.stop = "kill"]
    BY <2>2 DEF ClientType, UsersStay, HostsStay
  <2> QED
    BY <2>1, <2>2
<1>2. Standing(d)
  BY <1>1 DEF Sound, Shape, Standing, HostsStay, Ending
<1>3. Founded(d)
  BY <1>1 DEF Sound, Shape, Founded, HostsStay
<1>4. Tracked(d)
  BY <1>1 DEF Sound, Tracked, HostsStay, Ending
<1>5. Saving(d)
  <2>1. /\ d.start = "none" <=> c.start = "none"
        /\ d.stop = "none" <=> c.stop = "none"
    BY <1>1
  <2>2. /\ d.save = c.save /\ d.quit = c.quit /\ d.runActive = c.runActive
        /\ d.child = c.child /\ d.at = c.at /\ d.pending = c.pending
    BY <1>1 DEF UsersStay, HostsStay
  <2>3. Saving(c)
    BY DEF Sound
  <2> QED
    BY ONLY <2>1, <2>2, <2>3 DEF Saving
<1>6. Current(d)
  BY <1>1 DEF Sound, Current, UsersStay, HostsStay
<1> QED
  BY <1>1, <1>2, <1>3, <1>4, <1>5, <1>6 DEF Sound, Shape

\* A termination is given up.
LEMMA TimesOut ==
  ASSUME NEW c, Sound(c), NEW d, d = [c EXCEPT !.timedOut = TRUE]
  PROVE  /\ d \in ClientType /\ Sound(d) /\ d.timedOut /\ UsersStay(c, d)
         /\ d.pending = c.pending /\ d.at = c.at /\ StartStays(c, d) /\ StopStays(c, d)
         /\ d.child = c.child /\ d.unfit = c.unfit
<1>1. /\ d \in ClientType /\ d.timedOut /\ UsersStay(c, d)
      /\ d.pending = c.pending /\ d.at = c.at /\ StartStays(c, d) /\ StopStays(c, d)
      /\ d.child = c.child /\ d.unfit = c.unfit
  BY DEF Sound, Shape, ClientType, UsersStay, StartStays, StopStays
<1>2. Standing(d)
  BY <1>1 DEF Sound, Shape, Standing, StartStays, StopStays
<1>3. Founded(d)
  BY <1>1 DEF Sound, Shape, Founded, StartStays, StopStays
<1>4. Tracked(d)
  BY <1>1 DEF Tracked
<1>5. Saving(d)
  BY <1>1 DEF Sound, Saving, UsersStay, StartStays, StopStays
<1>6. Current(d)
  BY <1>1 DEF Sound, Current, UsersStay, StartStays
<1> QED
  BY <1>1, <1>2, <1>3, <1>4, <1>5, <1>6 DEF Sound, Shape

LEMMA StartTerminatesStep ==
  ASSUME IInv, StartTerminates
  PROVE  IInv'
<1>1. /\ Running /\ client.start \in Ending /\ client \in ClientType /\ Sound(client)
      /\ UNCHANGED <<proc, outbox, active, env>> /\ client.startHost \in Hosts
  BY DEF StartTerminates, IInv, TypeOK, Ending, Sound, Shape, Standing
<1>2. ASSUME NEW c, Sound(c), c.timedOut \/ c.startHost \notin Alive, c.start = client.start,
             UsersStay(client, c), c.child = client.child, c.pending = client.pending,
             c.at = client.at, NEW d, d = StartFailed(c), Becomes(d)
      PROVE  IInv'
  <2>1. /\ Sound(d) /\ UsersStay(c, d) /\ HostsStay(c, d) /\ d.pending = c.pending
        /\ d.at["check"] = c.at["check"]
    BY <1>1, <1>2, StartFailedSound DEF Ending
  <2>2. d \in ClientType /\ Hushed(d) /\ d.quit # "exited"
    BY <1>1, <1>2, <2>1 DEF Sound, Shape, Hushed, UsersStay, HostsStay, Running
  <2> QED
    BY <1>1, <1>2, <2>1, <2>2, ClientMoves
<1>3. CASE proc[client.startHost] = "closed" /\ Becomes(StartFailed(client))
  BY <1>1, <1>2, <1>3 DEF UsersStay, Alive
<1>4. CASE client.start = "eof" /\ Becomes([client EXCEPT !.start = "kill"])
  <2> DEFINE d == [client EXCEPT !.start = "kill"]
  <2>1. /\ Sound(d) /\ UsersStay(client, d) /\ HostsStay(client, d)
        /\ d.pending = client.pending /\ d.at = client.at
    BY <1>1, <1>4, Kills
  <2>2. Becomes(d)
    BY <1>4
  <2> HIDE DEF d
  <2>3. d \in ClientType /\ Hushed(d) /\ d.quit # "exited"
    BY <1>1, <2>1 DEF Sound, Shape, Hushed, UsersStay, HostsStay, Running
  <2> QED
    BY <1>1, <2>1, <2>2, <2>3, ClientMoves
<1>5. CASE client.start = "kill" /\ Becomes(StartFailed([client EXCEPT !.timedOut = TRUE]))
  <2> DEFINE c == [client EXCEPT !.timedOut = TRUE]
  <2>1. Becomes(StartFailed(c))
    BY <1>5
  <2>2. /\ Sound(c) /\ c.timedOut /\ UsersStay(client, c)
        /\ c.pending = client.pending /\ c.at = client.at /\ StartStays(client, c)
        /\ c.child = client.child
    BY <1>1, TimesOut
  <2> HIDE DEF c
  <2> QED
    BY <1>2, <2>1, <2>2 DEF StartStays
<1> QED
  BY <1>3, <1>4, <1>5 DEF StartTerminates

\* What a step leaves that may be about the hosts too.
LEMMA ClientSteps ==
  ASSUME IInv, Running, NEW c \in ClientType, Becomes(c),
         proc' \in [Hosts -> {"none", "boot", "up", "dead", "closed"}],
         outbox' \in [Hosts -> Seq([to : Callers, active : BOOLEAN])],
         active' = active, env' \in [Hosts -> {"old", "new"} \X {"old", "new"}],
         \A h \in Hosts : \A i \in DOMAIN outbox'[h] :
           \E j \in DOMAIN outbox[h] : outbox'[h][i] = outbox[h][j],
         c.quit # "exited", Shape(c), Saving(c), Tracked(c)', Current(c)', Hushed(c)
  PROVE  IInv'
<1> USE DEF IInv
<1>1. client' = c /\ TypeOK'
  BY BecomesTyped DEF TypeOK
<1>2. Asked(client)'
  BY HushedAsked
<1>3. Standing(client)' /\ Founded(client)' /\ Saving(client)'
  BY <1>1 DEF Shape, Standing, Founded, Saving
<1>4. Tracked(client)' /\ Current(client)'
  BY <1>1 DEF Tracked, Current
<1> QED
  BY <1>1, <1>2, <1>3, <1>4 DEF Running, Sound, Shape

LEMMA StartSpawnsStep ==
  ASSUME IInv, StartSpawns
  PROVE  IInv'
<1>1. /\ Running /\ client.start = "directory" /\ client.startHost = NoHost
      /\ client \in ClientType /\ Sound(client) /\ TypeOK
      /\ UNCHANGED <<outbox, active>>
  BY DEF StartSpawns, IInv, TypeOK
<1>2. CASE Becomes(StartFailed(client)) /\ UNCHANGED <<proc, env>>
  <2> DEFINE d == StartFailed(client)
  <2>1. /\ Sound(d) /\ UsersStay(client, d) /\ HostsStay(client, d) /\ d.pending = client.pending
        /\ d.at["check"] = client.at["check"]
    BY <1>1, StartFailedSound DEF Ending
  <2> HIDE DEF d
  <2>2. d \in ClientType /\ Hushed(d) /\ d.quit # "exited"
    BY <1>1, <2>1 DEF Sound, Shape, Hushed, UsersStay, HostsStay, Running
  <2>3. Becomes(d)
    BY <1>2 DEF d
  <2> QED
    BY <1>1, <1>2, <2>1, <2>2, <2>3, ClientMoves
<1>3. ASSUME NEW h \in Hosts,
             proc[h] = "none", proc' = [proc EXCEPT ![h] = "boot"],
             env' = [env EXCEPT ![h] = <<client.startEnv, client.settings>>],
             NEW b, b = [client EXCEPT !.start = "health", !.startHost = h, !.child = h],
             NEW d, d = Enter(b, "boot"), Becomes(d)
      PROVE  IInv'
  <2>1. /\ b \in ClientType /\ b.start = "health" /\ b.startHost = h /\ b.child = h
        /\ UsersStay(client, b) /\ StopStays(client, b) /\ b.unfit = client.unfit
        /\ b.timedOut = client.timedOut /\ b.at = client.at /\ b.pending = client.pending
    BY <1>1, <1>3 DEF ClientType, UsersStay, StopStays
  <2>2. /\ Standing(client) /\ Founded(client) /\ Tracked(client) /\ Saving(client)
        /\ Current(client)
    BY <1>1 DEF Sound, Shape
  <2>3. client.stop \in {"none", "startup"} /\ client.child = NoHost
        /\ client.at["boot"] \notin {"sent", "waitStop", "waitStart"}
    BY <1>1, <2>2 DEF Standing
  <2>4. h # NoHost /\ "boot" \in Callers
    BY CallersAre
  <2>5. /\ d \in ClientType /\ UsersStay(b, d) /\ StopStays(b, d) /\ HostsStay(b, d)
        /\ d.startHost = h
        /\ \A y \in Callers \ {"boot"} : d.at[y] = client.at[y]
    <3>1. PICK x \in Callers : x = "boot"
      BY <2>4
    <3>2. d = Enter(b, x)
      BY <1>3, <3>1
    <3>3. /\ d \in ClientType /\ UsersStay(b, d) /\ StopStays(b, d) /\ HostsStay(b, d)
          /\ d.startHost = b.startHost
          /\ \A y \in Callers \ {x} : d.at[y] = b.at[y]
      BY <2>1, <3>2, EnterIs
    <3> QED
      BY <2>1, <3>1, <3>3
  <2>6. \/ /\ client.stop = "startup" /\ d.at["boot"] = "waitStop"
           /\ d.pending = client.pending /\ d.start = "health"
        \/ /\ client.stop = "none" /\ d.at["boot"] = "sent" /\ d.start = "health"
           /\ \A y \in Callers, k \in Hosts :
                <<y, k>> \in d.pending <=> <<y, k>> \in client.pending \/ (y = "boot" /\ k = h)
    <3>1. PICK x \in Callers : x = "boot"
      BY <2>4
    <3>2. d = Enter(b, x)
      BY <1>3, <3>1
    <3>3. \/ /\ b.stop # "none" /\ d.at[x] = "waitStop"
             /\ d.pending = b.pending /\ d.start = b.start
          \/ /\ b.stop = "none" /\ d.at[x] = "sent"
             /\ \A y \in Callers, k \in Hosts :
                  <<y, k>> \in d.pending <=> <<y, k>> \in b.pending \/ (y = x /\ k = b.child)
             /\ d.start = b.start
          \/ b.child = NoHost
      BY <2>1, <3>2, EnterIs
    <3> QED
      BY <2>1, <2>3, <2>4, <3>1, <3>3 DEF StopStays
  <2>7. /\ d.start = "health" /\ d.startHost = h /\ d.child = h /\ d.stop = client.stop
        /\ d.unfit = client.unfit /\ d.timedOut = client.timedOut
        /\ UsersStay(client, d)
        /\ \A y \in Callers, k \in Hosts :
             <<y, k>> \in d.pending => <<y, k>> \in client.pending \/ (y = "boot" /\ k = h)
    BY <2>1, <2>5, <2>6 DEF UsersStay, StopStays, HostsStay
  <2>8. Standing(d)
    BY <2>3, <2>6, <2>7 DEF Standing, Ending
  <2>9. \A k \in Hosts : <<"boot", k>> \notin client.pending
    BY <2>2, <2>3, <2>4 DEF Founded
  <2>10. Founded(d)
    <3>1. ASSUME NEW y \in Callers
          PROVE  /\ d.at[y] = "waitStop" => d.stop # "none"
                 /\ d.at[y] = "waitStart" => d.start # "none"
                 /\ d.at[y] = "sent" => \E k \in Hosts : <<y, k>> \in d.pending
      <4>1. CASE y = "boot"
        BY <2>6, <2>7, <4>1
      <4>2. CASE y # "boot"
        BY <2>2, <2>5, <2>6, <2>7, <4>2 DEF Founded
      <4> QED
        BY <4>1, <4>2
    <3>2. ASSUME NEW y \in Callers, NEW k \in Hosts, <<y, k>> \in d.pending
          PROVE  /\ k = d.child \/ k \in d.unfit
                 /\ d.at[y] = "sent" /\ (y = "boot" => k = d.startHost)
                 /\ \A j \in Hosts : <<y, j>> \in d.pending => j = k
      <4>1. CASE y = "boot"
        BY <2>6, <2>7, <2>9, <3>2, <4>1
      <4>2. CASE y # "boot"
        <5>1. /\ <<y, k>> \in client.pending
              /\ \A j \in Hosts : <<y, j>> \in d.pending => <<y, j>> \in client.pending
          BY <2>7, <3>2, <4>2
        <5>2. k \in client.unfit /\ client.at[y] = "sent"
              /\ \A j \in Hosts : <<y, j>> \in client.pending => j = k
          BY <2>2, <2>3, <5>1, CallersAre DEF Founded
        <5> QED
          BY <2>5, <2>7, <4>2, <5>1, <5>2
      <4> QED
        BY <4>1, <4>2
    <3> QED
      BY <3>1, <3>2 DEF Founded
  <2>11. Tracked(d)'
    <3>1. client.timedOut \/ Alive = {}
      BY <1>1, <2>2, <2>3, CallersAre DEF Tracked, Ending, Alive
    <3>2. Alive' \subseteq Alive \cup {h}
      BY <1>1, <1>3 DEF Alive, TypeOK
    <3> QED
      BY <2>7, <3>1, <3>2 DEF Tracked
  <2>12. Current(d)'
    <3>1. env'[h] = <<client.settings, client.settings>>
      BY <1>1, <1>3, <2>2 DEF TypeOK, Current
    <3>2. client.settings = d.settings
      BY <2>7 DEF UsersStay
    <3> QED
      BY <2>7, <3>1, <3>2 DEF Current
  <2>13. /\ \A y \in SavePhases : d.at[y] = client.at[y]
         /\ \A y \in Calls : d.at[y] = client.at[y]
         /\ \A k \in Hosts : <<"check", k>> \in d.pending => <<"check", k>> \in client.pending
    BY <2>5, <2>7, CallersAre DEF SavePhases
  <2>14. client.save \notin {"check", "stop", "stopping", "copy", "undoing", "rollback"}
    BY <1>1, <2>2 DEF Saving
  <2>15. Saving(d)
    BY <1>1, <2>2, <2>3, <2>7, <2>13, <2>14 DEF Saving, UsersStay, SavePhases
  <2>16. Hushed(d)
    <3>1. d.save = client.save /\ d.runActive = client.runActive
      BY <2>7 DEF UsersStay
    <3> QED
      BY <2>7, <2>13, <2>14, <3>1 DEF Hushed, SavePhases
  <2>17. /\ proc' \in [Hosts -> {"none", "boot", "up", "dead", "closed"}]
         /\ env' \in [Hosts -> {"old", "new"} \X {"old", "new"}]
         /\ outbox' = outbox /\ outbox \in [Hosts -> Seq([to : Callers, active : BOOLEAN])]
         /\ active' = active
    BY <1>1, <1>3 DEF TypeOK, ClientType
  <2>18. Shape(d) /\ d.quit # "exited"
    BY <1>1, <2>5, <2>7, <2>8, <2>10 DEF Shape, UsersStay, Running
  <2> QED
    BY <1>1, <1>3, <2>5, <2>11, <2>12, <2>15, <2>16, <2>17, <2>18, ClientSteps, ZenonT(40)
<1>4. CASE \E h \in Hosts :
             /\ proc[h] = "none" /\ \A k \in Hosts : k < h => proc[k] # "none"
             /\ proc' = [proc EXCEPT ![h] = "boot"]
             /\ env' = [env EXCEPT ![h] = <<client.startEnv, client.settings>>]
             /\ Becomes(Enter([client EXCEPT !.start = "health", !.startHost = h, !.child = h],
                              "boot"))
  BY <1>3, <1>4
<1> QED
  BY <1>2, <1>4 DEF StartSpawns

\* stop() is over: with the end of the application, or while a save goes on, and
\* then nobody waited for it.
LEMMA StopEnds ==
  ASSUME IInv, Running, UNCHANGED <<proc, outbox, active, env>>,
         NEW c, Sound(c), UsersStay(client, c), c.child = client.child,
         c.pending = client.pending, c.at = client.at, c.stop # "none",
         c.child = NoHost, c.timedOut \/ Alive = {}, c.start # "health",
         NEW ok \in BOOLEAN, NEW d, d = StopSettled(c, ok), Becomes(d)
  PROVE  IInv'
<1>1. /\ c \in ClientType /\ Standing(c) /\ Founded(c) /\ Saving(c) /\ Shape(c) /\ Current(c)
      /\ c.quit \in {"no", "asked"}
  BY DEF Sound, Shape, Running, UsersStay, ClientType
<1>2. c.quit = "no" =>
        /\ c.save \in {"stopping", "undoing"}
        /\ \A x \in Callers : c.at[x] # "waitStop"
  <2>1. ASSUME c.quit = "no"
        PROVE  c.save \in {"stopping", "undoing"}
    BY <1>1, <2>1 DEF Saving
  <2>2. ASSUME c.quit = "no", NEW x \in Callers
        PROVE  c.at[x] # "waitStop"
    <3>1. CASE x \in Calls
      BY <1>1, <2>1, <2>2, <3>1 DEF Saving, Settled
    <3>2. CASE x = "boot"
      BY <1>1, <3>2 DEF Standing
    <3>3. CASE x \in SavePhases
      BY <1>1, <2>1, <2>2, <3>3 DEF Saving, Settled, SavePhases
    <3> QED
      BY <3>1, <3>2, <3>3 DEF Callers
  <2> QED
    BY <2>1, <2>2
<1>3. /\ d \in ClientType /\ d.stop = "none" /\ HostsStay(c, d)
      /\ d.pending = c.pending /\ d.runActive = c.runActive /\ d.settings = c.settings
      /\ d.quit = IF c.quit = "asked" THEN "exited" ELSE c.quit
      /\ c.quit # "asked" =>
           /\ \A x \in Callers : d.at[x] = c.at[x]
           /\ d.start = c.start /\ d.startHost = c.startHost /\ d.startEnv = c.startEnv
           /\ d.save = IF c.save = "stopping" THEN (IF ok THEN "copy" ELSE "done")
                       ELSE IF c.save = "undoing" THEN "rollback" ELSE c.save
  BY <1>1, <1>2, StopSettledIs
<1>4. CASE c.quit = "asked"
  <2>1. d.quit = "exited" /\ d.timedOut = c.timedOut
    BY <1>3, <1>4 DEF HostsStay
  <2> QED
    BY <1>3, <2>1, ClientMoves
<1>5. CASE c.quit = "no"
  <2>1. Shape(d)
    BY <1>1, <1>2, <1>5, StopSettledShape
  <2>2. d.child = NoHost /\ d.timedOut = c.timedOut /\ d.start = c.start /\ c.start = "none"
    BY <1>1, <1>2, <1>3, <1>5 DEF HostsStay, Saving, Standing, Ending
  <2>3. Tracked(d)
    BY <2>2 DEF Tracked
  <2>4. Current(d)
    BY <2>2 DEF Current
  <2>5. /\ d.at["check"] = c.at["check"] /\ d.at["activate"] = c.at["activate"]
        /\ d.at["restore"] = c.at["restore"] /\ \A x \in Calls : d.at[x] = c.at[x]
    BY <1>3, <1>5, CallersAre DEF SavePhases
  <2>6. \/ d.save = "copy" /\ c.save = "stopping"
        \/ d.save = "rollback" /\ c.save = "undoing"
        \/ d.save = "done"
    BY <1>2, <1>3, <1>5
  <2>7. Saving(d)
    BY <1>1, <1>2, <1>3, <1>5, <2>2, <2>5, <2>6 DEF Saving, SavePhases
  <2>8. Hushed(d)
    BY <1>3, <2>2, <2>5, <2>6 DEF Hushed, UsersStay
  <2> QED
    BY <1>3, <1>5, <2>1, <2>3, <2>4, <2>7, <2>8, ClientMoves DEF Sound
<1> QED
  BY <1>1, <1>4, <1>5

LEMMA StopAwaitsStartupStep ==
  ASSUME IInv, StopAwaitsStartup
  PROVE  IInv'
<1>1. /\ Running /\ client.stop = "startup" /\ client.start = "none" /\ Sound(client)
      /\ UNCHANGED <<proc, outbox, active, env>>
  BY DEF StopAwaitsStartup, IInv
<1>2. client.child = NoHost
  BY <1>1 DEF Sound, Shape, Standing
<1>3. client.timedOut \/ Alive = {}
  BY <1>1, <1>2, CallersAre DEF Sound, Tracked, Ending, Alive
<1>4. PICK ok \in BOOLEAN : ok = TRUE
  OBVIOUS
<1> DEFINE d == StopSettled(client, ok)
<1>5. Becomes(d)
  BY <1>4 DEF StopAwaitsStartup
<1>6. UsersStay(client, client)
  BY DEF UsersStay
<1> HIDE DEF d
<1>7. d = StopSettled(client, ok)
  BY DEF d
<1> QED
  BY <1>1, <1>2, <1>3, <1>5, <1>6, <1>7, StopEnds

LEMMA StopTerminatesStep ==
  ASSUME IInv, StopTerminates
  PROVE  IInv'
<1>1. /\ Running /\ client.stop \in Ending /\ Sound(client) /\ client \in ClientType
      /\ UNCHANGED <<proc, outbox, active, env>> /\ client.stopHost \in Hosts
      /\ client.child = NoHost /\ client.start \in {"none"} \cup Ending
      /\ client.start \in Ending => client.startHost = client.stopHost
  BY DEF StopTerminates, IInv, TypeOK, Ending, Sound, Shape, Standing
<1>2. ASSUME proc[client.stopHost] = "closed"
      PROVE  client.timedOut \/ Alive = {}
  BY <1>1, <1>2, CallersAre DEF Sound, Tracked, Alive
<1>3. CASE proc[client.stopHost] = "closed" /\ Becomes(StopGoesOn(client))
  <2>1. CASE client.start # "none"
    <3> DEFINE d == [client EXCEPT !.stop = "startup"]
    <3>1. Becomes(d)
      BY <1>3, <2>1 DEF StopGoesOn
    <3>2. /\ d \in ClientType /\ d.stop = "startup" /\ StartStays(client, d)
          /\ HostsStay(client, d) /\ UsersStay(client, d) /\ d.at = client.at
          /\ d.pending = client.pending
      BY <1>1 DEF ClientType, StartStays, HostsStay, UsersStay
    <3> HIDE DEF d
    <3>3. Shape(d)
      <4>1. Standing(d)
        BY <1>1, <2>1, <3>2 DEF Sound, Shape, Standing, StartStays, HostsStay, Ending
      <4>2. Founded(d)
        BY <1>1, <3>2 DEF Sound, Shape, Founded, StartStays, HostsStay
      <4> QED
        BY <3>2, <4>1, <4>2 DEF Shape
    <3>4. Tracked(d)
      BY <1>2, <1>3, <3>2 DEF Tracked, HostsStay
    <3>5. Saving(d)
      BY <1>1, <2>1, <3>2 DEF Sound, Saving, StartStays, HostsStay, UsersStay, Ending
    <3>6. Current(d)
      BY <1>1, <3>2 DEF Sound, Current, StartStays, HostsStay, UsersStay
    <3>7. Hushed(d) /\ d.quit # "exited"
      BY <1>1, <3>2 DEF Hushed, UsersStay, HostsStay, Running
    <3> QED
      BY <1>1, <3>1, <3>2, <3>3, <3>4, <3>5, <3>6, <3>7, ClientMoves DEF Sound
  <2>2. CASE client.start = "none"
    <3>1. PICK ok \in BOOLEAN : ok = TRUE
      OBVIOUS
    <3> DEFINE d == StopSettled(client, ok)
    <3>2. Becomes(d)
      BY <1>3, <2>2, <3>1 DEF StopGoesOn
    <3>3. UsersStay(client, client)
      BY DEF UsersStay
    <3> HIDE DEF d
    <3>4. d = StopSettled(client, ok)
      BY DEF d
    <3> QED
      BY <1>1, <1>2, <1>3, <2>2, <3>2, <3>3, <3>4, StopEnds DEF Ending
  <2> QED
    BY <2>1, <2>2
<1>4. CASE client.stop = "eof" /\ Becomes([client EXCEPT !.stop = "kill"])
  <2> DEFINE d == [client EXCEPT !.stop = "kill"]
  <2>1. /\ Sound(d) /\ UsersStay(client, d) /\ HostsStay(client, d)
        /\ d.pending = client.pending /\ d.at = client.at
    BY <1>1, <1>4, Kills
  <2>2. Becomes(d)
    BY <1>4
  <2> HIDE DEF d
  <2>3. d \in ClientType /\ Hushed(d) /\ d.quit # "exited"
    BY <1>1, <2>1 DEF Sound, Shape, Hushed, UsersStay, HostsStay, Running
  <2> QED
    BY <1>1, <2>1, <2>2, <2>3, ClientMoves
<1>5. CASE /\ client.stop = "kill"
           /\ Becomes(StopSettled([client EXCEPT !.timedOut = TRUE], FALSE))
  <2>1. PICK ok \in BOOLEAN : ok = FALSE
    OBVIOUS
  <2> DEFINE c == [client EXCEPT !.timedOut = TRUE]
             d == StopSettled(c, ok)
  <2>2. Becomes(d)
    BY <1>5, <2>1
  <2>3. /\ Sound(c) /\ c.timedOut /\ UsersStay(client, c)
        /\ c.pending = client.pending /\ c.at = client.at /\ StopStays(client, c)
        /\ StartStays(client, c) /\ c.child = client.child
    BY <1>1, TimesOut
  <2> HIDE DEF d
  <2>4. d = StopSettled(c, ok)
    BY DEF d
  <2> HIDE DEF c
  <2>5. c.stop # "none" /\ c.start # "health"
    BY <1>1, <2>3 DEF StopStays, StartStays, Ending
  <2> QED
    BY <1>1, <2>2, <2>3, <2>4, <2>5, StopEnds
<1> QED
  BY <1>3, <1>4, <1>5 DEF StopTerminates

-----------------------------------------------------------------------------
(* Events of requests and of hosts.                                        *)

\* The health request of the start in progress failed: alone, by its own timer, or
\* with all that was pending.
LEMMA BootFailedSound ==
  ASSUME Sound(client), client.start = "health", client.stop = "none",
         client.startHost \in Hosts, client.child = client.startHost,
         NEW c \in ClientType, StartStays(client, c), StopStays(client, c), UsersStay(client, c),
         c.child \in {NoHost, client.startHost},
         c.unfit = client.unfit, c.timedOut = client.timedOut,
         \A x \in Callers \ {"boot"} :
           \/ /\ c.at[x] = client.at[x]
              /\ \A h \in Hosts : <<x, h>> \in c.pending <=> <<x, h>> \in client.pending
           \/ /\ client.at[x] = "sent" /\ c.at[x] = "failed"
              /\ \A h \in Hosts : <<x, h>> \notin c.pending,
         \A h \in Hosts : <<"boot", h>> \notin c.pending,
         NEW d, d = BootFailed(c)
  PROVE  /\ Sound(d) /\ d \in ClientType /\ UsersStay(client, d) /\ Hushed(d)
         /\ d.child = NoHost /\ d.start # "directory"
<1>1. /\ Standing(client) /\ Founded(client) /\ Tracked(client) /\ Saving(client)
      /\ client \in ClientType
      /\ c.start = "health" /\ c.startHost = client.startHost /\ c.stop = "none"
  BY DEF Sound, Shape, StartStays, StopStays
<1>2. \A x \in Callers, h \in Hosts : <<x, h>> \in c.pending =>
        /\ <<x, h>> \in client.pending
        /\ h = c.startHost \/ h \in c.unfit
        /\ c.at[x] = "sent" /\ \A k \in Hosts : <<x, k>> \in c.pending => k = h
  BY <1>1 DEF Founded
<1>3. \A x \in Callers \ {"boot"} :
        /\ c.at[x] # "waitStop"
        /\ c.at[x] = "sent" => \E h \in Hosts : <<x, h>> \in c.pending
  BY <1>1 DEF Founded
<1>4. c.timedOut \/ \A h \in Alive : h = c.startHost
  BY <1>1 DEF Tracked, Ending
<1>5. Shape(d) /\ d.child = NoHost /\ d.start \in {"none", "eof"} /\ Tracked(d)
  BY <1>1, <1>2, <1>3, <1>4, BootFailedShape
<1>6. /\ d \in ClientType /\ UsersStay(c, d) /\ StopStays(c, d) /\ d.pending = c.pending
      /\ Gone(c.startHost) =>
           /\ d.start = "none"
           /\ \A x \in Callers \ {"boot"} :
                d.at[x] = IF c.at[x] = "waitStart" THEN "failed" ELSE c.at[x]
      /\ ~Gone(c.startHost) =>
           /\ d.start = "eof" /\ d.startHost = c.startHost
           /\ \A x \in Callers \ {"boot"} : d.at[x] = c.at[x]
  BY <1>1, BootFailedIs
<1>7. client.save \notin {"check", "stop", "stopping", "copy", "undoing", "rollback"}
  BY <1>1 DEF Saving
<1>8. /\ d.save = client.save /\ d.stop = "none" /\ d.quit = client.quit
      /\ d.runActive = client.runActive /\ UsersStay(client, d)
  BY <1>1, <1>6 DEF UsersStay, StopStays
<1>9. \A x \in Callers \ {"boot"} :
        \/ d.at[x] = client.at[x]
        \/ client.at[x] = "sent" /\ d.at[x] = "failed"
        \/ client.at[x] = "waitStart" /\ d.at[x] = "failed" /\ d.start = "none"
  BY <1>6
<1>10. \A x \in SavePhases \cup Calls : x \in Callers \ {"boot"}
  BY CallersAre DEF SavePhases
<1>11. /\ client.at["check"] # "waitStart"
       /\ d.at["check"] \in {client.at["check"], "failed"}
  BY <1>1, <1>9, <1>10 DEF Saving, Settled, SavePhases
<1>12. /\ \A h \in Hosts : <<"check", h>> \notin d.pending
       /\ client.save = "idle" => \A x \in SavePhases : d.at[x] = "new"
       /\ client.save \notin {"idle", "done"} => \A x \in Calls : d.at[x] \in Settled
  <2>1. \A h \in Hosts : <<"check", h>> \notin d.pending
    BY <1>1, <1>2, <1>6, <1>7, <1>10 DEF Saving, SavePhases
  <2>2. client.save = "idle" => \A x \in SavePhases : d.at[x] = "new"
    BY <1>1, <1>9, <1>10 DEF Saving
  <2>3. client.save \notin {"idle", "done"} => \A x \in Calls : d.at[x] \in Settled
    BY <1>1, <1>9, <1>10 DEF Saving, Settled
  <2> QED
    BY <2>1, <2>2, <2>3
<1>13. /\ client.save \notin {"restore", "done"} => d.at["restore"] = "new"
       /\ client.save = "activate" =>
            /\ d.at["activate"] \in {"waitStart", "failed"}
            /\ d.at["activate"] # "waitStart" => d.start = "none"
       /\ client.save = "activate" => d.at["check"] \in {"new", "ok"}
  <2>1. client.save \notin {"restore", "done"} => d.at["restore"] = "new"
    BY <1>1, <1>9, <1>10 DEF Saving, SavePhases
  <2>2. client.save = "activate" => client.at["activate"] = "waitStart"
    BY <1>1 DEF Saving
  <2>3. client.save = "activate" =>
            /\ d.at["activate"] \in {"waitStart", "failed"}
            /\ d.at["activate"] # "waitStart" => d.start = "none"
    BY <1>9, <1>10, <2>2 DEF SavePhases
  <2>4. client.save = "activate" => d.at["check"] \in {"new", "ok"}
    BY <1>1, <1>9, <1>10 DEF Saving, SavePhases
  <2> QED
    BY <2>1, <2>3, <2>4
<1>14. d.at["check"] \in {"sent"} \cup Settled
  BY <1>1, <1>11 DEF Saving, Settled
<1>15. Saving(d)
  BY <1>5, <1>7, <1>8, <1>12, <1>13, <1>14 DEF Saving
<1>16. Current(d)
  BY <1>5 DEF Current
<1>17. Hushed(d)
  BY <1>2, <1>5, <1>6, <1>7, <1>8, <1>11 DEF Hushed
<1> QED
  BY <1>5, <1>6, <1>8, <1>15, <1>16, <1>17 DEF Sound

\* A pending health request is that of the start in progress, of the current host.
LEMMA BootIs ==
  ASSUME Sound(client), NEW h \in Hosts, <<"boot", h>> \in client.pending
  PROVE  /\ client.start = "health" /\ client.stop = "none" /\ h = client.startHost
         /\ client.child = client.startHost /\ client.at["boot"] = "sent"
BY CallersAre DEF Sound, Shape, Standing, Founded

LEMMA WithoutIs ==
  ASSUME NEW c \in ClientType, NEW x \in Callers, NEW h \in Hosts,
         NEW d, d = Without(c, x, h)
  PROVE  /\ d \in ClientType /\ d.at = c.at /\ d.pending = c.pending \ {<<x, h>>}
         /\ UsersStay(c, d) /\ StartStays(c, d) /\ StopStays(c, d) /\ HostsStay(c, d)
BY DEF Without, ClientType, UsersStay, StartStays, StopStays, HostsStay

\* A request of the window or of a save is answered, or given up.
Answered(c, x, h, to, run) ==
  [c EXCEPT !.pending = @ \ {<<x, h>>}, !.at[x] = to, !.runActive = run]

LEMMA Settles ==
  ASSUME NEW c, Sound(c), NEW x \in Callers \ {"boot"}, NEW h \in Hosts, <<x, h>> \in c.pending,
         NEW to \in {"ok", "failed"}, NEW run \in BOOLEAN, x # "check" => run = c.runActive,
         NEW d, d = Answered(c, x, h, to, run)
  PROVE  /\ d \in ClientType /\ Sound(d) /\ d.runActive = run
         /\ d.at[x] = to /\ \A y \in Callers \ {x} : d.at[y] = c.at[y]
         /\ d.pending \subseteq c.pending /\ HostsStay(c, d)
         /\ d.save = c.save /\ d.quit = c.quit
<1>1. /\ c \in ClientType /\ Standing(c) /\ Founded(c) /\ Tracked(c) /\ Saving(c) /\ Current(c)
  BY DEF Sound, Shape
<1> DEFINE at == [c.at EXCEPT ![x] = to]
           left == c.pending \ {<<x, h>>}
<1>2. /\ at \in [Callers -> {"new", "waitStop", "waitStart", "sent", "ok", "failed"}]
      /\ at[x] = to /\ \A y \in Callers \ {x} : at[y] = c.at[y]
      /\ left \in SUBSET (Callers \X Hosts) /\ left \subseteq c.pending
      /\ \A y \in Callers, k \in Hosts :
           <<y, k>> \in left <=> <<y, k>> \in c.pending /\ ~(y = x /\ k = h)
  BY <1>1 DEF ClientType
<1>3. d = [c EXCEPT !.pending = left, !.at = at, !.runActive = run]
  BY <1>1 DEF Answered, ClientType
<1> HIDE DEF at, left
<1>4. /\ d \in ClientType /\ d.at = at /\ d.pending = left /\ d.runActive = run
      /\ d.save = c.save /\ d.quit = c.quit /\ d.settings = c.settings
      /\ StartStays(c, d) /\ StopStays(c, d) /\ HostsStay(c, d)
  BY <1>1, <1>2, <1>3, ZenonT(40) DEF ClientType, StartStays, StopStays, HostsStay
<1>5. c.at[x] = "sent" /\ d.at["boot"] = c.at["boot"]
  BY <1>1, <1>2, <1>4, CallersAre DEF Founded
<1>6. Standing(d)
  BY <1>1, <1>4, <1>5 DEF Standing, StartStays, StopStays, HostsStay
<1>7. Founded(d)
  <2>1. ASSUME NEW y \in Callers
        PROVE  /\ d.at[y] = "waitStop" => d.stop # "none"
               /\ d.at[y] = "waitStart" => d.start # "none"
               /\ d.at[y] = "sent" => \E k \in Hosts : <<y, k>> \in d.pending
    <3>1. CASE y = x
      BY <1>2, <1>4, <3>1
    <3>2. CASE y # x
      <4>1. d.at[y] = c.at[y] /\ d.start = c.start /\ d.stop = c.stop
        BY <1>2, <1>4, <3>2 DEF StartStays, StopStays
      <4>2. \A k \in Hosts : <<y, k>> \in c.pending => <<y, k>> \in d.pending
        BY <1>2, <1>4, <3>2
      <4> QED
        BY <1>1, <4>1, <4>2 DEF Founded
    <3> QED
      BY <3>1, <3>2
  <2>2. ASSUME NEW y \in Callers, NEW k \in Hosts, <<y, k>> \in d.pending
        PROVE  /\ k = d.child \/ k \in d.unfit
               /\ d.at[y] = "sent" /\ (y = "boot" => k = d.startHost)
               /\ \A j \in Hosts : <<y, j>> \in d.pending => j = k
    <3>1. <<y, k>> \in c.pending /\ ~(y = x /\ k = h)
      BY <1>2, <1>4, <2>2
    <3>2. y # x
      BY <1>1, <3>1 DEF Founded
    <3>3. /\ k = c.child \/ k \in c.unfit
          /\ c.at[y] = "sent" /\ (y = "boot" => k = c.startHost)
          /\ \A j \in Hosts : <<y, j>> \in c.pending => j = k
      BY <1>1, <3>1 DEF Founded
    <3> QED
      BY <1>2, <1>4, <3>2, <3>3 DEF StartStays, HostsStay
  <2> QED
    BY <2>1, <2>2 DEF Founded
<1>8. Tracked(d)
  BY <1>1, <1>4 DEF Tracked, StartStays, StopStays, HostsStay
<1>9. Current(d)
  BY <1>1, <1>4 DEF Current, StartStays, HostsStay
<1>10. Saving(d)
  <2>1. /\ d.start = c.start /\ d.stop = c.stop /\ d.child = c.child
        /\ \A k \in Hosts : <<"check", k>> \in d.pending => <<"check", k>> \in c.pending
        /\ \A k \in Hosts : <<"check", k>> \in c.pending => c.save = "check"
    BY <1>1, <1>2, <1>4, CallersAre DEF StartStays, StopStays, HostsStay, Saving, SavePhases
  <2>2. CASE x \in Calls
    <3>1. \A y \in SavePhases : d.at[y] = c.at[y]
      BY <1>2, <1>4, <2>2, CallersAre
    <3>2. \A y \in Calls : d.at[y] = c.at[y] \/ d.at[y] \in Settled
      BY <1>2, <1>4, CallersAre DEF Settled
    <3>3. d.runActive = c.runActive
      BY <1>4, <2>2, CallersAre DEF SavePhases
    <3> QED
      BY <1>1, <1>4, <2>1, <3>1, <3>2, <3>3 DEF Saving, SavePhases
  <2>3. ASSUME x \in SavePhases
        PROVE  /\ \A y \in SavePhases \ {x} : d.at[y] = c.at[y]
               /\ \A y \in Calls : d.at[y] = c.at[y]
               /\ d.at[x] = to /\ c.at[x] = "sent"
    BY <1>2, <1>4, <1>5, <2>3, CallersAre
  <2>4. CASE x = "check"
    <3>1. c.save = "check"
      BY <2>1, <2>4
    <3>2. \A k \in Hosts : <<"check", k>> \notin d.pending
      BY <1>1, <1>2, <1>4, <2>4, CallersAre DEF Founded, SavePhases
    <3> QED
      BY <1>1, <1>4, <2>1, <2>3, <2>4, <3>1, <3>2 DEF Saving, SavePhases, Settled
  <2>5. CASE x = "activate"
    BY <1>1, <1>4, <2>1, <2>3, <2>5 DEF Saving, SavePhases, Settled
  <2>6. CASE x = "restore"
    BY <1>1, <1>4, <2>1, <2>3, <2>6 DEF Saving, SavePhases, Settled
  <2> QED
    BY <2>2, <2>4, <2>5, <2>6 DEF Callers, SavePhases
<1> QED
  BY <1>2, <1>4, <1>6, <1>7, <1>8, <1>9, <1>10 DEF Sound, Shape

LEMMA GivesUpStep ==
  ASSUME IInv, NEW x \in Callers, NEW h \in Hosts, GivesUp(x, h)
  PROVE  IInv'
<1>1. /\ Running /\ <<x, h>> \in client.pending /\ Sound(client) /\ client \in ClientType
      /\ UNCHANGED <<proc, outbox, active, env>>
  BY DEF GivesUp, IInv, TypeOK
<1> DEFINE c == Without(client, x, h)
<1>2. /\ c \in ClientType /\ c.at = client.at /\ c.pending = client.pending \ {<<x, h>>}
      /\ UsersStay(client, c) /\ StartStays(client, c) /\ StopStays(client, c)
      /\ HostsStay(client, c)
  BY <1>1, WithoutIs
<1>3. CASE x = "boot"
  <2>1. Becomes(BootFailed(c))
    BY <1>3 DEF GivesUp
  <2> HIDE DEF c
  <2>2. /\ client.start = "health" /\ client.stop = "none" /\ h = client.startHost
        /\ client.child = client.startHost
    BY <1>1, <1>3, BootIs
  <2>3. /\ \A y \in Callers \ {"boot"}, k \in Hosts :
             <<y, k>> \in c.pending <=> <<y, k>> \in client.pending
        /\ \A k \in Hosts : <<"boot", k>> \notin c.pending
    BY <1>1, <1>2, <1>3 DEF Sound, Shape, Founded
  <2> DEFINE d == BootFailed(c)
  <2>4. /\ Sound(d) /\ d \in ClientType /\ UsersStay(client, d) /\ Hushed(d)
    <3>1. d = BootFailed(c)
      OBVIOUS
    <3> HIDE DEF d
    <3>2. client.startHost \in Hosts /\ c.child \in {NoHost, client.startHost}
          /\ c.unfit = client.unfit /\ c.timedOut = client.timedOut
      BY <1>2, <2>2 DEF HostsStay
    <3>3. \A y \in Callers \ {"boot"} :
            /\ c.at[y] = client.at[y]
            /\ \A k \in Hosts : <<y, k>> \in c.pending <=> <<y, k>> \in client.pending
      BY <1>2, <2>3
    <3> QED
      BY <1>1, <1>2, <2>2, <2>3, <3>1, <3>2, <3>3, BootFailedSound
  <2> HIDE DEF d
  <2>5. Becomes(d) /\ d.quit # "exited"
    BY <1>1, <2>1, <2>4 DEF d, UsersStay, Running
  <2> QED
    BY <1>1, <2>4, <2>5, ClientMoves
<1>4. CASE x # "boot"
  <2> DEFINE d == Answered(client, x, h, "failed", client.runActive)
  <2>1. [c EXCEPT !.at[x] = "failed"] = d
    BY <1>1 DEF Without, Answered, ClientType
  <2>2. Becomes(d)
    BY <1>4, <2>1 DEF GivesUp
  <2>3. client.runActive \in BOOLEAN
    BY <1>1 DEF ClientType
  <2>4. /\ d \in ClientType /\ Sound(d) /\ d.runActive = client.runActive
        /\ d.at[x] = "failed" /\ \A y \in Callers \ {x} : d.at[y] = client.at[y]
        /\ d.pending \subseteq client.pending /\ HostsStay(client, d)
        /\ d.save = client.save /\ d.quit = client.quit
    <3>1. PICK to \in {"ok", "failed"} : to = "failed"
      OBVIOUS
    <3>2. PICK run \in BOOLEAN : run = client.runActive
      BY <2>3
    <3>3. d = Answered(client, x, h, to, run)
      BY <3>1, <3>2
    <3> HIDE DEF d
    <3>4. x \in Callers \ {"boot"}
      BY <1>4
    <3>5. /\ d \in ClientType /\ Sound(d) /\ d.runActive = run /\ d.at[x] = to
          /\ d.pending \subseteq client.pending /\ HostsStay(client, d)
          /\ d.save = client.save /\ d.quit = client.quit
      BY <1>1, <3>2, <3>3, <3>4, Settles
    <3>6. \A y \in Callers \ {x} : d.at[y] = client.at[y]
      BY <1>1, <3>2, <3>3, <3>4, Settles
    <3> QED
      BY <3>1, <3>2, <3>5, <3>6
  <2> HIDE DEF d
  <2>5. Hushed(d) /\ d.quit # "exited"
    <3>1. d.at["check"] \in {client.at["check"], "failed"}
      BY <2>4, CallersAre DEF SavePhases
    <3> QED
      BY <1>1, <2>4, <3>1 DEF Hushed, HostsStay, Running
  <2> QED
    BY <1>1, <2>2, <2>4, <2>5, ClientMoves
<1> QED
  BY <1>3, <1>4

\* start() returns.
LEMMA BootDoneSound ==
  ASSUME Sound(client), client.start = "health", client.stop = "none",
         client.startHost \in Hosts, client.child = client.startHost,
         NEW c \in ClientType, c.at = client.at, StartStays(client, c), StopStays(client, c),
         HostsStay(client, c), UsersStay(client, c),
         \A x \in Callers, h \in Hosts :
           <<x, h>> \in c.pending <=> <<x, h>> \in client.pending /\ x # "boot",
         NEW d, d = BootDone(c)
  PROVE  Sound(d) /\ d \in ClientType /\ UsersStay(client, d) /\ Hushed(d)
<1>1. /\ Standing(client) /\ Founded(client) /\ Tracked(client) /\ Saving(client)
      /\ Current(client) /\ client \in ClientType
  BY DEF Sound, Shape
<1>2. /\ d \in ClientType /\ UsersStay(c, d) /\ StopStays(c, d) /\ HostsStay(c, d)
      /\ d.start = "none"
      /\ \A x \in Callers \ {"boot"} :
           d.at[x] = IF c.at[x] = "waitStart" THEN "sent" ELSE c.at[x]
      /\ c.at["boot"] # "waitStart" => d.at["boot"] = "ok"
      /\ \A x \in Callers, h \in Hosts :
           <<x, h>> \in d.pending
           <=> <<x, h>> \in c.pending \/ (c.at[x] = "waitStart" /\ h = c.child)
  BY BootDoneIs DEF HostsStay
<1>3. /\ d.at["boot"] = "ok" /\ d.stop = "none" /\ d.child = client.child
      /\ d.unfit = client.unfit /\ d.timedOut = client.timedOut /\ UsersStay(client, d)
      /\ d.save = client.save /\ d.settings = client.settings
      /\ d.runActive = client.runActive /\ d.quit = client.quit
  BY <1>1, <1>2 DEF Standing, UsersStay, StopStays, HostsStay
<1>4. \A x \in Callers \ {"boot"} :
        d.at[x] = IF client.at[x] = "waitStart" THEN "sent" ELSE client.at[x]
  BY <1>2
<1>5. \A x \in Callers, h \in Hosts :
        <<x, h>> \in d.pending
        <=> x # "boot" /\ (<<x, h>> \in client.pending
                           \/ (client.at[x] = "waitStart" /\ h = client.child))
  BY <1>1, <1>2, ZenonT(40) DEF Standing, HostsStay
<1>6. Standing(d)
  BY <1>2, <1>3 DEF Standing, Ending
<1>7. Founded(d)
  <2>1. ASSUME NEW y \in Callers
        PROVE  /\ d.at[y] = "waitStop" => d.stop # "none"
               /\ d.at[y] = "waitStart" => d.start # "none"
               /\ d.at[y] = "sent" => \E h \in Hosts : <<y, h>> \in d.pending
    <3>1. CASE y = "boot"
      BY <1>3, <3>1
    <3>2. CASE y # "boot" /\ client.at[y] = "waitStart"
      BY <1>4, <1>5, <3>2
    <3>3. CASE y # "boot" /\ client.at[y] # "waitStart"
      BY <1>1, <1>4, <1>5, <3>3 DEF Founded
    <3> QED
      BY <3>1, <3>2, <3>3
  <2>2. ASSUME NEW y \in Callers, NEW h \in Hosts, <<y, h>> \in d.pending
        PROVE  /\ h = d.child \/ h \in d.unfit
               /\ d.at[y] = "sent" /\ (y = "boot" => h = d.startHost)
               /\ \A k \in Hosts : <<y, k>> \in d.pending => k = h
    <3>1. y # "boot"
      BY <1>5, <2>2
    <3>2. CASE client.at[y] = "waitStart"
      BY <1>1, <1>3, <1>4, <1>5, <2>2, <3>1, <3>2 DEF Founded
    <3>3. CASE client.at[y] # "waitStart"
      BY <1>1, <1>3, <1>4, <1>5, <2>2, <3>1, <3>3 DEF Founded
    <3> QED
      BY <3>2, <3>3
  <2> QED
    BY <2>1, <2>2 DEF Founded
<1>8. Tracked(d)
  BY <1>1, <1>3 DEF Tracked, Ending
<1>9. Current(d)
  BY <1>1, <1>2, <1>3 DEF Current
<1>10. client.save \notin {"check", "stop", "stopping", "copy", "undoing", "rollback"}
  BY <1>1 DEF Saving
<1>11. /\ d.at["check"] = client.at["check"]
       /\ \A h \in Hosts : <<"check", h>> \notin d.pending
  BY <1>1, <1>4, <1>5, <1>10, CallersAre DEF Saving, Settled, SavePhases
<1>12. Saving(d)
  <2>1. \A x \in SavePhases \cup Calls : x \in Callers \ {"boot"}
    BY CallersAre DEF SavePhases
  <2>2. client.save = "idle" => \A x \in SavePhases : d.at[x] = "new"
    BY <1>1, <1>4, <2>1 DEF Saving
  <2>3. client.save \notin {"idle", "done"} => \A x \in Calls : d.at[x] \in Settled
    BY <1>1, <1>4, <2>1 DEF Saving, Settled
  <2>4. /\ client.save \notin {"restore", "done"} => d.at["restore"] = "new"
        /\ client.save = "activate" => d.at["activate"] = "sent"
    BY <1>1, <1>4, <2>1 DEF Saving, SavePhases
  <2> QED
    BY <1>1, <1>2, <1>3, <1>10, <1>11, <2>2, <2>3, <2>4 DEF Saving
<1>13. Hushed(d)
  <2>1. \A h \in Hosts : <<"check", h>> \notin d.pending
    BY <1>11
  <2> QED
    BY <1>3, <1>10, <1>11, <2>1 DEF Hushed
<1> QED
  BY <1>2, <1>3, <1>6, <1>7, <1>8, <1>9, <1>12, <1>13 DEF Sound, Shape

\* The desktop reads a reply of a host.
LEMMA ReplyMoves ==
  ASSUME IInv, Running, NEW h \in Hosts, outbox[h] # <<>>,
         outbox' = [outbox EXCEPT ![h] = Tail(@)], UNCHANGED <<proc, active, env>>,
         NEW c \in ClientType, Becomes(c), Sound(c), c.quit # "exited", Hushed(c)
  PROVE  IInv'
<1>1. outbox \in [Hosts -> Seq([to : Callers, active : BOOLEAN])] /\ TypeOK
  BY DEF IInv, TypeOK
<1>2. /\ outbox' \in [Hosts -> Seq([to : Callers, active : BOOLEAN])]
      /\ \A k \in Hosts : outbox'[k] = IF k = h THEN Tail(outbox[h]) ELSE outbox[k]
  <2>1. Tail(outbox[h]) \in Seq([to : Callers, active : BOOLEAN])
    BY <1>1, HeadAndTail
  <2> QED
    BY <1>1, <2>1
<1>3. ASSUME NEW k \in Hosts, NEW i \in DOMAIN outbox'[k]
      PROVE  \E j \in DOMAIN outbox[k] : outbox'[k][i] = outbox[k][j]
  <2>1. CASE k # h
    BY <1>2, <1>3, <2>1
  <2>2. CASE k = h
    <3>1. outbox'[k] = Tail(outbox[h])
      BY <1>2, <2>2
    <3>2. /\ i \in 1..Len(Tail(outbox[h])) /\ i + 1 \in DOMAIN outbox[h]
          /\ Tail(outbox[h])[i] = outbox[h][i + 1]
      BY <1>1, <1>3, <3>1, HeadAndTail
    <3> QED
      BY <2>2, <3>1, <3>2
  <2> QED
    BY <2>1, <2>2
<1>4. Tracked(c)' /\ Current(c)' /\ Shape(c) /\ Saving(c)
  BY DEF Sound, Tracked, Current, Alive
<1>5. /\ proc' \in [Hosts -> {"none", "boot", "up", "dead", "closed"}]
      /\ env' \in [Hosts -> {"old", "new"} \X {"old", "new"}]
  BY <1>1 DEF TypeOK
<1> QED
  BY <1>2, <1>3, <1>4, <1>5, ClientSteps

LEMMA ReplyStep ==
  ASSUME IInv, NEW h \in Hosts, Reply(h)
  PROVE  IInv'
<1> DEFINE r == Head(outbox[h])
           c == Without(client, r.to, h)
<1>1. /\ Running /\ outbox[h] # <<>> /\ outbox' = [outbox EXCEPT ![h] = Tail(@)]
      /\ UNCHANGED <<proc, active, env>> /\ Sound(client) /\ client \in ClientType
  BY DEF Reply, IInv, TypeOK
<1>2. /\ r \in [to : Callers, active : BOOLEAN] /\ 1 \in DOMAIN outbox[h]
      /\ outbox[h][1] = r
  BY <1>1, HeadAndTail DEF IInv, TypeOK
<1>3. Becomes(IF <<r.to, h>> \notin client.pending THEN client
              ELSE IF r.to = "boot" THEN BootDone(c)
              ELSE [c EXCEPT !.at[r.to] = "ok",
                             !.runActive = IF r.to = "check" THEN r.active ELSE @])
  BY DEF Reply
<1> HIDE DEF r
<1>4. CASE <<r.to, h>> \notin client.pending
  <2>1. Becomes(client)
    BY <1>3, <1>4
  <2>2. Hushed(client) /\ client.quit # "exited"
    BY <1>1 DEF Hushed, Running
  <2> QED
    BY <1>1, <2>1, <2>2, ReplyMoves
<1>5. CASE <<r.to, h>> \in client.pending /\ r.to = "boot"
  <2>1. Becomes(BootDone(c))
    BY <1>3, <1>5
  <2>2. /\ c \in ClientType /\ c.at = client.at /\ c.pending = client.pending \ {<<r.to, h>>}
        /\ UsersStay(client, c) /\ StartStays(client, c) /\ StopStays(client, c)
        /\ HostsStay(client, c)
    BY <1>1, <1>2, WithoutIs
  <2> HIDE DEF c
  <2>3. /\ client.start = "health" /\ client.stop = "none" /\ h = client.startHost
        /\ client.child = client.startHost
    BY <1>1, <1>5, BootIs
  <2>4. \A x \in Callers, k \in Hosts :
          <<x, k>> \in c.pending <=> <<x, k>> \in client.pending /\ x # "boot"
    BY <1>1, <1>5, <2>2, ZenonT(40) DEF Sound, Shape, Founded
  <2> DEFINE d == BootDone(c)
  <2>5. Sound(d) /\ d \in ClientType /\ UsersStay(client, d) /\ Hushed(d)
    <3>1. d = BootDone(c) /\ client.startHost \in Hosts
      BY <2>3
    <3> HIDE DEF d
    <3> QED
      BY <1>1, <2>2, <2>3, <2>4, <3>1, BootDoneSound
  <2> HIDE DEF d
  <2>6. Becomes(d) /\ d.quit # "exited"
    BY <1>1, <2>1, <2>5 DEF d, UsersStay, Running
  <2> QED
    BY <1>1, <2>5, <2>6, ReplyMoves
<1>6. CASE <<r.to, h>> \in client.pending /\ r.to # "boot"
  <2>1. PICK run \in BOOLEAN : run = IF r.to = "check" THEN r.active ELSE client.runActive
    BY <1>1, <1>2 DEF ClientType
  <2>2. PICK x \in Callers : x = r.to
    BY <1>2
  <2> DEFINE d == Answered(client, x, h, "ok", run)
  <2>3. Becomes(d)
    <3>1. [c EXCEPT !.at[r.to] = "ok",
                    !.runActive = IF r.to = "check" THEN r.active ELSE @] = d
      BY <1>1, <2>1, <2>2 DEF Without, Answered, ClientType
    <3> HIDE DEF c, d
    <3> QED
      BY <1>3, <1>6, <3>1
  <2>4. PICK to \in {"ok", "failed"} : to = "ok"
    OBVIOUS
  <2>5. d = Answered(client, x, h, to, run)
    BY <2>4
  <2> HIDE DEF d, c
  <2>6. x \in Callers \ {"boot"} /\ <<x, h>> \in client.pending
        /\ (x # "check" => run = client.runActive)
    BY <1>6, <2>1, <2>2
  <2>7. /\ d \in ClientType /\ Sound(d) /\ d.runActive = run /\ d.at[x] = to
        /\ d.pending \subseteq client.pending /\ HostsStay(client, d)
        /\ d.save = client.save /\ d.quit = client.quit
    BY <1>1, <2>5, <2>6, Settles
  <2>8. \A y \in Callers \ {x} : d.at[y] = client.at[y]
    BY <1>1, <2>5, <2>6, Settles
  <2>9. \/ d.at["check"] \in {client.at["check"], "failed"} /\ d.runActive = client.runActive
        \/ d.at["check"] = "ok" /\ (d.runActive \/ Idle(client.child))
    <3>1. CASE x # "check"
      BY <2>6, <2>7, <2>8, <3>1, CallersAre DEF SavePhases
    <3>2. CASE x = "check"
      <4>1. d.at["check"] = "ok" /\ d.runActive = r.active
        BY <2>1, <2>2, <2>4, <2>7, <3>2
      <4>2. client.save = "check" /\ h = client.child
        BY <1>1, <2>6, <3>2 DEF Sound, Saving
      <4>3. r.active \/ Idle(h)
        BY <1>1, <1>2, <2>2, <3>2, <4>2 DEF IInv, Asked
      <4> QED
        BY <4>1, <4>2, <4>3
    <3> QED
      BY <3>1, <3>2
  <2>10. Hushed(d) /\ d.quit # "exited"
    BY <1>1, <2>7, <2>9 DEF Hushed, HostsStay, Running
  <2> QED
    BY <1>1, <2>3, <2>7, <2>10, ReplyMoves
<1> QED
  BY <1>4, <1>5, <1>6

\* The desktop sees the end of a host.
LEMMA ClosedMoves ==
  ASSUME IInv, Running, NEW h \in Hosts, proc[h] = "dead",
         proc' = [proc EXCEPT ![h] = "closed"], env' = [env EXCEPT ![h] = <<"old", "old">>],
         UNCHANGED <<outbox, active>>,
         NEW c \in ClientType, Becomes(c), Sound(c), c.child # h, c.quit # "exited", Hushed(c)
  PROVE  IInv'
<1>1. TypeOK
  BY DEF IInv
<1>2. Alive' = Alive
  BY <1>1 DEF Alive, TypeOK
<1>3. Tracked(c)'
  BY <1>2 DEF Sound, Tracked
<1>4. Current(c)'
  BY <1>1 DEF Sound, Current, TypeOK
<1>5. /\ proc' \in [Hosts -> {"none", "boot", "up", "dead", "closed"}]
      /\ env' \in [Hosts -> {"old", "new"} \X {"old", "new"}]
      /\ outbox' \in [Hosts -> Seq([to : Callers, active : BOOLEAN])]
  BY <1>1 DEF TypeOK
<1>6. \A k \in Hosts : \A i \in DOMAIN outbox'[k] :
        \E j \in DOMAIN outbox[k] : outbox'[k][i] = outbox[k][j]
  OBVIOUS
<1>7. Shape(c) /\ Saving(c)
  BY DEF Sound
<1> QED
  BY <1>3, <1>4, <1>5, <1>6, <1>7, ClientSteps

\* The current host ends while its start is over, or has no health request any more.
LEMMA ClosedSound ==
  ASSUME Sound(client), client.child \in Hosts, client.child \notin Alive,
         ~BootPending(client),
         NEW d, d = RejectAll([client EXCEPT !.child = NoHost])
  PROVE  Sound(d) /\ d \in ClientType /\ UsersStay(client, d) /\ Hushed(d) /\ d.child = NoHost
<1>1. /\ Standing(client) /\ Founded(client) /\ Tracked(client) /\ Saving(client)
      /\ Current(client) /\ client \in ClientType
  BY DEF Sound, Shape
<1> DEFINE b == [client EXCEPT !.child = NoHost]
<1>2. /\ b \in ClientType /\ UsersStay(client, b) /\ b.at = client.at
      /\ StartStays(client, b) /\ StopStays(client, b) /\ b.child = NoHost
      /\ b.unfit = client.unfit /\ b.timedOut = client.timedOut
  BY <1>1 DEF ClientType, UsersStay, StartStays, StopStays
<1> HIDE DEF b
<1>3. d = RejectAll(b)
  BY DEF b
<1>4. /\ d \in ClientType /\ UsersStay(b, d) /\ d.pending = {}
      /\ \A x \in Callers :
           d.at[x] = IF x # "boot" /\ b.at[x] = "sent" THEN "failed" ELSE b.at[x]
      /\ StartStays(b, d) /\ StopStays(b, d) /\ HostsStay(b, d)
  BY <1>2, <1>3, RejectAllIs
<1>5. /\ UsersStay(client, d) /\ StartStays(client, d) /\ StopStays(client, d)
      /\ d.child = NoHost /\ d.unfit = client.unfit /\ d.timedOut = client.timedOut
      /\ \A x \in Callers :
           d.at[x] = IF x # "boot" /\ client.at[x] = "sent" THEN "failed" ELSE client.at[x]
      /\ d.at["boot"] = client.at["boot"]
  BY <1>2, <1>4, CallersAre DEF UsersStay, StartStays, StopStays, HostsStay
<1>6. client.at["boot"] # "sent"
  BY <1>1, CallersAre DEF Founded, BootPending
<1>7. Standing(d)
  BY <1>1, <1>5, <1>6 DEF Standing, StartStays, StopStays, Ending
<1>8. Founded(d)
  BY <1>1, <1>4, <1>5, <1>6 DEF Founded, StartStays, StopStays
<1>9. Tracked(d)
  BY <1>1, <1>5 DEF Tracked, StartStays, StopStays
<1>10. Current(d)
  BY <1>1, <1>5 DEF Current, StartStays, UsersStay
<1>11. \A x \in SavePhases \cup Calls :
         /\ x \in Callers \ {"boot"}
         /\ d.at[x] = IF client.at[x] = "sent" THEN "failed" ELSE client.at[x]
  BY <1>5, CallersAre DEF SavePhases
<1>12. Saving(d)
  <2>1. client.save = "idle" => \A x \in SavePhases : d.at[x] = "new"
    BY <1>1, <1>11 DEF Saving
  <2>2. client.save \notin {"idle", "done"} => \A x \in Calls : d.at[x] \in Settled
    BY <1>1, <1>11 DEF Saving, Settled
  <2>3. \A x \in SavePhases :
          d.at[x] = IF client.at[x] = "sent" THEN "failed" ELSE client.at[x]
    BY <1>11
  <2>4. /\ d.save = client.save /\ d.quit = client.quit /\ d.start = client.start
        /\ d.stop = client.stop
    BY <1>5 DEF UsersStay, StartStays, StopStays
  <2> QED
    BY <1>1, <1>4, <1>5, <2>1, <2>2, <2>3, <2>4 DEF Saving, SavePhases, Settled
<1>13. Hushed(d)
  <2>1. d.at["check"] \in {client.at["check"], "failed"}
    BY <1>11 DEF SavePhases
  <2> QED
    BY <1>4, <1>5, <2>1 DEF Hushed, UsersStay
<1> QED
  BY <1>4, <1>5, <1>7, <1>8, <1>9, <1>10, <1>12, <1>13 DEF Sound, Shape

LEMMA ClosedStep ==
  ASSUME IInv, NEW h \in Hosts, Closed(h)
  PROVE  IInv'
<1> DEFINE b == [client EXCEPT !.child = NoHost]
           c == RejectAll(b)
<1>1. /\ Running /\ proc[h] = "dead" /\ proc' = [proc EXCEPT ![h] = "closed"]
      /\ env' = [env EXCEPT ![h] = <<"old", "old">>] /\ UNCHANGED <<outbox, active>>
      /\ Sound(client) /\ client \in ClientType
      /\ Becomes(IF client.child # h THEN client
                 ELSE IF BootPending(client) THEN BootFailed(c)
                 ELSE c)
  BY DEF Closed, IInv, TypeOK
<1>2. h \notin Alive /\ h # NoHost
  BY <1>1, CallersAre DEF Alive
<1>3. CASE client.child # h
  <2>1. Becomes(client)
    BY <1>1, <1>3
  <2>2. Hushed(client) /\ client.quit # "exited"
    BY <1>1 DEF Hushed, Running
  <2> QED
    BY <1>1, <1>3, <2>1, <2>2, ClosedMoves
<1>4. CASE client.child = h /\ BootPending(client)
  <2>1. Becomes(BootFailed(c))
    BY <1>1, <1>4
  <2>2. /\ client.start = "health" /\ client.stop = "none" /\ h = client.startHost
        /\ client.child = client.startHost
    BY <1>1, <1>4, BootIs DEF BootPending
  <2>3. /\ b \in ClientType /\ UsersStay(client, b) /\ b.at = client.at
        /\ StartStays(client, b) /\ StopStays(client, b) /\ b.child = NoHost
        /\ b.unfit = client.unfit /\ b.timedOut = client.timedOut
    BY <1>1 DEF ClientType, UsersStay, StartStays, StopStays
  <2> HIDE DEF b
  <2>4. /\ c \in ClientType /\ UsersStay(b, c) /\ c.pending = {}
        /\ \A x \in Callers :
             c.at[x] = IF x # "boot" /\ b.at[x] = "sent" THEN "failed" ELSE b.at[x]
        /\ StartStays(b, c) /\ StopStays(b, c) /\ HostsStay(b, c)
    BY <2>3, RejectAllIs
  <2> HIDE DEF c
  <2>5. /\ StartStays(client, c) /\ StopStays(client, c) /\ UsersStay(client, c)
        /\ c.child = NoHost /\ c.unfit = client.unfit /\ c.timedOut = client.timedOut
    BY <2>3, <2>4 DEF StartStays, StopStays, UsersStay, HostsStay
  <2>6. \A x \in Callers \ {"boot"} :
          \/ /\ c.at[x] = client.at[x]
             /\ \A k \in Hosts : <<x, k>> \in c.pending <=> <<x, k>> \in client.pending
          \/ /\ client.at[x] = "sent" /\ c.at[x] = "failed"
             /\ \A k \in Hosts : <<x, k>> \notin c.pending
    BY <1>1, <2>3, <2>4 DEF Sound, Shape, Founded
  <2> DEFINE d == BootFailed(c)
  <2>7. /\ Sound(d) /\ d \in ClientType /\ UsersStay(client, d) /\ Hushed(d)
        /\ d.child = NoHost
    <3>1. d = BootFailed(c) /\ client.startHost \in Hosts
      BY <2>2
    <3> HIDE DEF d
    <3> QED
      BY <1>1, <2>2, <2>4, <2>5, <2>6, <3>1, BootFailedSound
  <2> HIDE DEF d
  <2>8. Becomes(d) /\ d.quit # "exited" /\ d.child # h
    BY <1>1, <1>2, <2>1, <2>7 DEF d, UsersStay, Running
  <2> QED
    BY <1>1, <2>7, <2>8, ClosedMoves
<1>5. CASE client.child = h /\ ~BootPending(client)
  <2>1. Becomes(c) /\ c = RejectAll([client EXCEPT !.child = NoHost])
    BY <1>1, <1>5
  <2> HIDE DEF c
  <2>2. Sound(c) /\ c \in ClientType /\ UsersStay(client, c) /\ Hushed(c) /\ c.child = NoHost
    BY <1>1, <1>2, <1>5, <2>1, ClosedSound
  <2>3. c.quit # "exited" /\ c.child # h
    BY <1>1, <1>2, <2>2 DEF UsersStay, Running
  <2> QED
    BY <1>1, <2>1, <2>2, <2>3, ClosedMoves
<1> QED
  BY <1>3, <1>4, <1>5

-----------------------------------------------------------------------------
(* Steps of the hosts.                                                     *)

LEMMA HostMoves ==
  ASSUME IInv, Running, UNCHANGED <<client, env>>, TypeOK', Alive' \subseteq Alive,
         Asked(client)'
  PROVE  IInv'
<1>1. Standing(client)' /\ Founded(client)' /\ Saving(client)'
  BY DEF IInv, Sound, Shape, Standing, Founded, Saving
<1>2. Tracked(client)' /\ Current(client)'
  BY DEF IInv, Sound, Tracked, Current
<1> QED
  BY <1>1, <1>2 DEF IInv, Sound, Shape, Running, TypeOK

\* A host answers the request it reads first.
LEMMA HostAnswersStep ==
  ASSUME IInv, Running, NEW h \in Hosts, HostAnswers(h)
  PROVE  IInv'
<1>1. /\ proc[h] = "up" /\ inbox[h] # <<>> /\ inbox' = [inbox EXCEPT ![h] = Tail(@)]
      /\ UNCHANGED <<client, proc, eof, env>> /\ TypeOK /\ Asked(client)
  BY DEF HostAnswers, IInv
<1> DEFINE x == Head(inbox[h])
<1>2. /\ inbox[h] \in Seq(Callers) /\ outbox[h] \in Seq([to : Callers, active : BOOLEAN])
      /\ active[h] \in BOOLEAN
  BY <1>1 DEF TypeOK
<1>3. /\ 1 \in DOMAIN inbox[h] /\ x = inbox[h][1] /\ x \in Callers
      /\ Tail(inbox[h]) \in Seq(Callers)
      /\ \A i \in DOMAIN Tail(inbox[h]) :
           /\ i + 1 \in DOMAIN inbox[h] /\ Tail(inbox[h])[i] = inbox[h][i + 1]
           /\ i \in Nat /\ i > 0
  BY <1>1, <1>2, HeadAndTail
<1>4. PICK run \in BOOLEAN :
        /\ x \notin Calls => run = active[h]
        /\ active' = [active EXCEPT ![h] = run]
        /\ outbox' = [outbox EXCEPT ![h] = Append(@, [to |-> x, active |-> run])]
  <2>1. PICK run \in (IF x \in Calls THEN {active[h], TRUE} ELSE {active[h]}) :
          /\ active' = [active EXCEPT ![h] = run]
          /\ outbox' = [outbox EXCEPT ![h] = Append(@, [to |-> x, active |-> run])]
    BY DEF HostAnswers
  <2> QED
    BY <1>2, <2>1
<1> HIDE DEF x
<1> DEFINE said == [to |-> x, active |-> run]
           all == Append(outbox[h], said)
<1>5. /\ said \in [to : Callers, active : BOOLEAN] /\ said.to = x /\ said.active = run
  BY <1>3
<1> HIDE DEF said
<1>6. /\ all \in Seq([to : Callers, active : BOOLEAN])
      /\ \A i \in DOMAIN all : \/ i \in DOMAIN outbox[h] /\ all[i] = outbox[h][i]
                               \/ all[i] = said
  <2> DEFINE R == [to : Callers, active : BOOLEAN]
  <2>1. outbox[h] \in Seq(R) /\ said \in R
    BY <1>2, <1>5
  <2> HIDE DEF R
  <2>2. /\ all \in Seq(R)
        /\ \A i \in DOMAIN all : \/ i \in DOMAIN outbox[h] /\ all[i] = outbox[h][i]
                                 \/ all[i] = said
    BY <2>1
  <2> QED
    BY <2>2 DEF R
<1>7. outbox' = [outbox EXCEPT ![h] = all]
  BY <1>4 DEF said
<1> HIDE DEF all
<1>8. TypeOK'
  <2>1. inbox' \in [Hosts -> Seq(Callers)]
    BY <1>1, <1>3 DEF TypeOK
  <2>2. outbox' \in [Hosts -> Seq([to : Callers, active : BOOLEAN])]
    BY <1>1, <1>6, <1>7 DEF TypeOK
  <2>3. active' \in [Hosts -> BOOLEAN]
    BY <1>1, <1>4 DEF TypeOK
  <2> QED
    BY <1>1, <2>1, <2>2, <2>3 DEF TypeOK
<1>9. /\ \A k \in Hosts : inbox'[k] = IF k = h THEN Tail(inbox[h]) ELSE inbox[k]
      /\ \A k \in Hosts : outbox'[k] = IF k = h THEN all ELSE outbox[k]
      /\ \A k \in Hosts : active'[k] = IF k = h THEN run ELSE active[k]
  BY <1>1, <1>4, <1>7 DEF TypeOK
<1>10. ASSUME NEW k \in Hosts, Idle(k)
       PROVE  Idle(k)'
  <2>1. CASE k # h
    BY <1>9, <1>10, <2>1 DEF Idle
  <2>2. CASE k = h
    BY <1>3, <1>4, <1>9, <1>10, <2>2, ZenonT(40) DEF Idle
  <2> QED
    BY <2>1, <2>2
<1>11. ASSUME client.at["check"] = "new", NEW k \in Hosts
       PROVE  /\ \A i \in DOMAIN inbox'[k] : inbox'[k][i] # "check"
              /\ \A i \in DOMAIN outbox'[k] : outbox'[k][i].to # "check"
  <2>1. /\ \A i \in DOMAIN inbox[k] : inbox[k][i] # "check"
        /\ \A i \in DOMAIN outbox[k] : outbox[k][i].to # "check"
    BY <1>1, <1>11 DEF Asked
  <2>2. CASE k # h
    BY <1>9, <2>1, <2>2
  <2>3. CASE k = h
    <3>1. \A i \in DOMAIN Tail(inbox[h]) : Tail(inbox[h])[i] # "check"
      BY <1>3, <2>1, <2>3
    <3>2. x # "check"
      BY <1>3, <2>1, <2>3
    <3>3. \A i \in DOMAIN all : all[i].to # "check"
      BY <1>5, <1>6, <2>1, <2>3, <3>2
    <3> QED
      BY <1>9, <2>3, <3>1, <3>3
  <2> QED
    BY <2>2, <2>3
<1>12. ASSUME client.save = "check", NEW k \in Hosts
       PROVE  /\ \A i, j \in DOMAIN inbox'[k] :
                   i < j /\ inbox'[k][i] = "check" => inbox'[k][j] \notin Calls
              /\ \A i \in DOMAIN outbox'[k] :
                   outbox'[k][i].to = "check" /\ ~outbox'[k][i].active => Idle(k)'
  <2>1. /\ \A i, j \in DOMAIN inbox[k] :
             i < j /\ inbox[k][i] = "check" => inbox[k][j] \notin Calls
        /\ \A i \in DOMAIN outbox[k] :
             outbox[k][i].to = "check" /\ ~outbox[k][i].active => Idle(k)
    BY <1>1, <1>12 DEF Asked
  <2>2. CASE k # h
    BY <1>9, <1>10, <2>1, <2>2
  <2>3. CASE k = h
    <3>1. \A i, j \in DOMAIN Tail(inbox[h]) :
             i < j /\ Tail(inbox[h])[i] = "check" => Tail(inbox[h])[j] \notin Calls
      <4>1. ASSUME NEW i \in DOMAIN Tail(inbox[h]), NEW j \in DOMAIN Tail(inbox[h]), i < j,
                   Tail(inbox[h])[i] = "check"
            PROVE  Tail(inbox[h])[j] \notin Calls
        <5>1. /\ i + 1 \in DOMAIN inbox[h] /\ j + 1 \in DOMAIN inbox[h] /\ i + 1 < j + 1
              /\ inbox[h][i + 1] = "check" /\ inbox[h][j + 1] = Tail(inbox[h])[j]
          BY <1>3, <4>1
        <5> QED
          BY <2>1, <2>3, <5>1
      <4> QED
        BY <4>1
    <3>2. ASSUME x = "check", ~run
          PROVE  Idle(h)'
      <4>1. active'[h] = FALSE
        BY <1>9, <3>2
      <4>2. ASSUME NEW i \in DOMAIN Tail(inbox[h])
            PROVE  Tail(inbox[h])[i] \notin Calls
        <5>1. /\ i + 1 \in DOMAIN inbox[h] /\ 1 < i + 1 /\ inbox[h][1] = "check"
              /\ Tail(inbox[h])[i] = inbox[h][i + 1] /\ 1 \in DOMAIN inbox[h]
          BY <1>3, <3>2, <4>2
        <5> QED
          BY <2>1, <2>3, <5>1
      <4> QED
        BY <1>9, <4>1, <4>2 DEF Idle
    <3>3. ASSUME NEW i \in DOMAIN all, all[i].to = "check", ~all[i].active
          PROVE  Idle(h)'
      BY <1>5, <1>6, <1>10, <2>1, <2>3, <3>2, <3>3
    <3> QED
      BY <1>9, <2>3, <3>1, <3>3
  <2> QED
    BY <2>2, <2>3
<1>13. ASSUME client.save \in {"check", "stop"}, client.at["check"] = "ok",
              ~client.runActive, client.child # NoHost
       PROVE  Idle(client.child)'
  <2>1. PICK k \in Hosts : k = client.child
    BY <1>1, <1>13 DEF TypeOK, ClientType
  <2>2. Idle(k)
    BY <1>1, <1>13, <2>1 DEF Asked
  <2>3. Idle(k)'
    BY <1>10, <2>2
  <2>4. client.child' = k
    BY <1>1, <2>1
  <2> QED
    BY <2>3, <2>4 DEF Idle
<1>14. Asked(client)'
  BY <1>1, <1>11, <1>12, <1>13 DEF Asked
<1> QED
  BY <1>1, <1>8, <1>14, HostMoves DEF Alive

\* A host boots, ends its run, closes or dies: it asks and answers nothing.
LEMMA HostQuiets ==
  ASSUME IInv, Running, UNCHANGED <<client, eof, outbox, env>>, NEW h \in Hosts,
         proc' = proc \/ (/\ h \in Alive
                          /\ \E s \in {"up", "dead"} : proc' = [proc EXCEPT ![h] = s]),
         active' = active \/ active' = [active EXCEPT ![h] = FALSE],
         inbox' = inbox \/ inbox' = [inbox EXCEPT ![h] = <<>>]
  PROVE  IInv'
<1>1. TypeOK /\ Asked(client)
  BY DEF IInv
<1>2. Alive' \subseteq Alive
  BY <1>1 DEF Alive, TypeOK
<1>3. /\ \A k \in Hosts : inbox'[k] = inbox[k] \/ inbox'[k] = <<>>
      /\ \A k \in Hosts : active'[k] = active[k] \/ active'[k] = FALSE
  BY <1>1 DEF TypeOK
<1>4. TypeOK'
  <2>1. proc' \in [Hosts -> {"none", "boot", "up", "dead", "closed"}]
    BY <1>1 DEF TypeOK
  <2>2. active' \in [Hosts -> BOOLEAN]
    BY <1>1 DEF TypeOK
  <2>3. inbox' \in [Hosts -> Seq(Callers)]
    <3>1. inbox \in [Hosts -> Seq(Callers)] /\ <<>> \in Seq(Callers)
      BY <1>1 DEF TypeOK
    <3> QED
      BY <3>1
  <2> QED
    BY <1>1, <2>1, <2>2, <2>3 DEF TypeOK
<1>5. ASSUME NEW k \in Hosts, NEW i \in DOMAIN inbox'[k]
      PROVE  i \in DOMAIN inbox[k] /\ inbox'[k][i] = inbox[k][i]
  BY <1>3, <1>5
<1>6. ASSUME NEW k \in Hosts, Idle(k)
      PROVE  Idle(k)'
  BY <1>3, <1>5, <1>6 DEF Idle
<1>7. ASSUME client.save \in {"check", "stop"}, client.at["check"] = "ok",
             ~client.runActive, client.child # NoHost
      PROVE  Idle(client.child)'
  <2>1. PICK k \in Hosts : k = client.child
    BY <1>1, <1>7 DEF TypeOK, ClientType
  <2>2. Idle(k)
    BY <1>1, <1>7, <2>1 DEF Asked
  <2>3. Idle(k)'
    BY <1>6, <2>2
  <2>4. client.child' = k
    BY <2>1
  <2> QED
    BY <2>3, <2>4 DEF Idle
<1>8. ASSUME client.save = "check", NEW k \in Hosts
      PROVE  /\ \A i, j \in DOMAIN inbox'[k] :
                  i < j /\ inbox'[k][i] = "check" => inbox'[k][j] \notin Calls
             /\ \A i \in DOMAIN outbox'[k] :
                  outbox'[k][i].to = "check" /\ ~outbox'[k][i].active => Idle(k)'
  BY <1>1, <1>5, <1>6, <1>8 DEF Asked
<1>9. ASSUME client.at["check"] = "new", NEW k \in Hosts
      PROVE  /\ \A i \in DOMAIN inbox'[k] : inbox'[k][i] # "check"
             /\ \A i \in DOMAIN outbox'[k] : outbox'[k][i].to # "check"
  BY <1>1, <1>5, <1>9 DEF Asked
<1>10. Asked(client)'
  BY <1>7, <1>8, <1>9 DEF Asked
<1> QED
  BY <1>2, <1>4, <1>10, HostMoves

LEMMA HostStepStep ==
  ASSUME IInv, NEW h \in Hosts, HostStep(h)
  PROVE  IInv'
<1>1. Running
  BY DEF HostStep
<1>2. CASE HostBoots(h)
  <2>1. \E s \in {"up", "dead"} : proc' = [proc EXCEPT ![h] = s]
    BY <1>2 DEF HostBoots
  <2> QED
    BY <1>1, <1>2, <2>1, HostQuiets DEF HostBoots, Alive
<1>3. CASE HostAnswers(h)
  BY <1>1, <1>3, HostAnswersStep
<1>4. CASE RunEnds(h)
  BY <1>1, <1>4, HostQuiets DEF RunEnds
<1>5. CASE HostEnds(h)
  BY <1>1, <1>5, HostQuiets DEF HostEnds, Alive
<1>6. CASE HostDies(h)
  BY <1>1, <1>6, HostQuiets DEF HostDies
<1> QED
  BY <1>2, <1>3, <1>4, <1>5, <1>6 DEF HostStep

-----------------------------------------------------------------------------
(* The invariant.                                                          *)

LEMMA IInvInit == Init => IInv
<1> SUFFICES ASSUME Init PROVE IInv
  OBVIOUS
<1>1. client \in ClientType
  BY DEF Init, ClientType
<1>2. TypeOK
  <2>1. inbox \in [Hosts -> Seq(Callers)]
      /\ outbox \in [Hosts -> Seq([to : Callers, active : BOOLEAN])]
    BY DEF Init
  <2> QED
    BY <1>1, <2>1 DEF Init, TypeOK
<1>3. /\ client.child = NoHost /\ client.pending = {} /\ \A x \in Callers : client.at[x] = "new"
      /\ client.start = "none" /\ client.stop = "none" /\ client.save = "idle"
      /\ client.quit = "no"
  BY DEF Init
<1>4. Alive = {}
  BY DEF Init, Alive
<1>5. Standing(client)
  BY <1>3, CallersAre DEF Standing, Ending
<1>6. Founded(client)
  BY <1>3 DEF Founded
<1>7. Tracked(client) /\ Current(client)
  BY <1>3, <1>4 DEF Tracked, Current
<1>8. Saving(client)
  BY <1>3, CallersAre DEF Saving, Settled, SavePhases
<1>9. Asked(client)
  BY <1>3 DEF Init, Asked
<1> QED
  BY <1>1, <1>2, <1>3, <1>5, <1>6, <1>7, <1>8, <1>9 DEF IInv, Running, Sound, Shape

LEMMA IInvNext == IInv /\ [Next]_vars => IInv'
<1> SUFFICES ASSUME IInv, [Next]_vars PROVE IInv'
  OBVIOUS
<1>1. ASSUME UNCHANGED vars PROVE IInv'
  <2>1. UNCHANGED <<client, proc, inbox, eof, outbox, active, env>>
    BY <1>1 DEF vars
  <2>2. TypeOK' /\ (Running' <=> Running) /\ Alive' = Alive
    BY <2>1 DEF IInv, TypeOK, Running, Alive
  <2>3. ASSUME Running
        PROVE  Sound(client)' /\ Asked(client)'
    <3>1. Standing(client)' /\ Founded(client)' /\ Saving(client)'
      BY <2>1, <2>3 DEF IInv, Sound, Shape, Standing, Founded, Saving
    <3>2. Tracked(client)' /\ Current(client)'
      BY <2>1, <2>3 DEF IInv, Sound, Tracked, Current, Alive
    <3>3. Asked(client)'
      BY <2>1, <2>3 DEF IInv, Asked, Idle
    <3> QED
      BY <2>2, <3>1, <3>2, <3>3 DEF Sound, Shape, TypeOK
  <2> QED
    BY <2>1, <2>2, <2>3 DEF IInv
<1>2. CASE \E x \in Calls : Request(x)
  BY <1>2, RequestStep
<1>3. CASE Quit
  BY <1>3, QuitStep
<1>4. CASE SaveBegins
  BY <1>4, SaveBeginsStep
<1>5. CASE StartSteps
  BY <1>5, StartReadsSecretsStep, StartSpawnsStep, StartTerminatesStep DEF StartSteps
<1>6. CASE StopSteps
  BY <1>6, StopTerminatesStep, StopAwaitsStartupStep DEF StopSteps
<1>7. CASE SaveSteps
  BY <1>7, SaveChecksStep, SaveStopsStep, SaveWritesStep, SaveActivatedStep DEF SaveSteps
<1>8. CASE \E x \in Callers, h \in Hosts : GivesUp(x, h)
  BY <1>8, GivesUpStep
<1>9. CASE \E h \in Hosts : Reply(h) \/ Closed(h) \/ HostStep(h)
  BY <1>9, ReplyStep, ClosedStep, HostStepStep
<1> QED
  BY <1>1, <1>2, <1>3, <1>4, <1>5, <1>6, <1>7, <1>8, <1>9 DEF Next

\* What the desktop believes of its host is so in every state it can reach, for any
\* number of requests.
THEOREM Invariant == Spec => []IInv
BY IInvInit, IInvNext, PTL DEF Spec

-----------------------------------------------------------------------------
(* What follows.                                                           *)

THEOREM ClientTyped == Spec => []TypeOK
<1>1. IInv => TypeOK
  BY DEF IInv
<1> QED
  BY <1>1, Invariant, PTL

\* No second host is ever started beside one that lives: start() spawns only when
\* there is no current host, and both starts that fail and stops leave the one that
\* was to its termination.
THEOREM OneHost == Spec => []OneHostProcess
<1>1. IInv => OneHostProcess
  <2> SUFFICES ASSUME IInv, ~client.timedOut PROVE Cardinality(Alive) <= 1
    BY DEF OneHostProcess
  <2>1. CASE ~Running
    BY <2>1, FS_EmptySet DEF IInv
  <2>2. CASE Running
    <3>1. Standing(client) /\ Tracked(client) /\ client \in ClientType
      BY <2>2 DEF IInv, Sound, Shape
    <3>2. \A h, k \in Alive : h = k
      BY <3>1, CallersAre DEF Standing, Tracked, Ending, Alive, ClientType
    <3>3. CASE Alive = {}
      BY <3>3, FS_EmptySet
    <3>4. ASSUME NEW h \in Alive
          PROVE  Cardinality(Alive) <= 1
      <4>1. Alive = {h}
        BY <3>2
      <4>2. Cardinality({h}) = 1
        BY FS_Singleton
      <4> QED
        BY <4>1, <4>2
    <3> QED
      BY <3>3, <3>4
  <2> QED
    BY <2>1, <2>2
<1> QED
  BY <1>1, Invariant, PTL

\* The settings a start has read are those of the file until its host is there:
\* what writes the file first waits for the start and the host to end.
THEOREM CurrentSettings == Spec => []ServesCurrentSettings
<1>1. IInv => ServesCurrentSettings
  BY DEF IInv, Sound, Current, ServesCurrentSettings
<1> QED
  BY <1>1, Invariant, PTL

\* When stop() has answered, the host is gone or its termination was given up.
THEOREM StoppedIsGone == Spec => []StoppedMeansGone
<1>1. IInv => StoppedMeansGone
  <2> SUFFICES ASSUME IInv, client.save = "copy" \/ client.quit = "exited"
               PROVE  client.timedOut \/ Alive = {}
    BY DEF StoppedMeansGone
  <2>1. CASE ~Running
    BY <2>1 DEF IInv
  <2>2. CASE Running
    <3>1. Standing(client) /\ Tracked(client) /\ Saving(client) /\ client.save = "copy"
      BY <2>2 DEF IInv, Sound, Shape, Running
    <3>2. client.start = "none" /\ client.stop = "none" /\ client.child = NoHost
      BY <3>1 DEF Saving
    <3> QED
      BY <3>1, <3>2, CallersAre DEF Tracked, Ending, Alive
  <2> QED
    BY <2>1, <2>2
<1> QED
  BY <1>1, Invariant, PTL

\* Whoever waits, waits for something that is still under way.
THEOREM WaitsFounded == Spec => []WaitsAreFounded
<1>1. IInv => WaitsAreFounded
  <2> SUFFICES ASSUME IInv, Running PROVE WaitsAreFounded
    BY DEF WaitsAreFounded
  <2>1. Standing(client) /\ Founded(client)
    BY DEF IInv, Sound, Shape
  <2>2. ASSUME NEW x \in Callers
        PROVE  CASE client.at[x] = "waitStop"  -> client.stop # "none"
                 [] client.at[x] = "waitStart" -> client.start # "none"
                 [] client.at[x] = "sent"      -> \E h \in Hosts : <<x, h>> \in client.pending
                 [] OTHER                      -> TRUE
    BY <2>1 DEF Founded
  <2>3. client.start = "health" => client.at["boot"] \in {"sent", "waitStop"}
    BY <2>1 DEF Standing
  <2>4. \A x \in Callers, h \in Hosts :
          <<x, h>> \in client.pending => h = client.child \/ h \in client.unfit
    BY <2>1 DEF Founded
  <2> QED
    BY <2>2, <2>3, <2>4 DEF WaitsAreFounded
<1> QED
  BY <1>1, Invariant, PTL

\* The host that a save stops has no active run: its answer to the question came
\* after all that could have started one.
THEOREM RunsSpared == Spec => SavingSparesRuns
<1>1. IInv /\ [Next]_vars =>
        [client.save = "stop" /\ client.save' # "stop" /\ client.child # NoHost
           => ~active[client.child]]_vars
  <2> SUFFICES ASSUME IInv, [Next]_vars, client.save = "stop", client.save' # "stop",
                      client.child # NoHost
               PROVE  ~active[client.child]
    OBVIOUS
  <2>1. CASE Running
    BY <2>1 DEF IInv, Sound, Saving, Asked, Idle
  <2>2. CASE ~Running
    <3>1. UNCHANGED client
      <4>1. client.quit = "exited"
        BY <2>2 DEF Running
      <4>2. ~Quit
        BY <4>1 DEF Quit
      <4>3. ~Next
        BY <2>2, <4>2
           DEF Next, Request, SaveBegins, StartSteps, StopSteps, SaveSteps, GivesUp, Reply,
               Closed, HostStep, StartReadsSecrets, StartSpawns, StartTerminates,
               StopTerminates, StopAwaitsStartup, SaveChecked, SaveStops, SaveWrites,
               SaveActivated, SaveRollsBack, SaveEnds
      <4> QED
        BY <4>3 DEF vars
    <3> QED
      BY <3>1
  <2> QED
    BY <2>1, <2>2
<1> QED
  BY <1>1, Invariant, PTL DEF Spec, SavingSparesRuns
=============================================================================
