-------------------------- MODULE StaleFencingRun --------------------------
(***************************************************************************)
(* main() of scripts/stale-fencing-e2e.mjs: one run of the scenario        *)
(* against a cluster (LockService) and the downstream reference, and the   *)
(* evidence file it leaves.                                                *)
(*                                                                         *)
(* main is sequential: `step` is its place in Script.  A step that calls   *)
(* the cluster goes through clusterRequest, which tries the members in     *)
(* turn, round after round, until one answers or 30 seconds are over.  An  *)
(* attempt that is given up (refused, redirected into the void, or timed   *)
(* out after 4 seconds) may nevertheless have been executed, or may be     *)
(* executed later: retries make every operation at-least-once.             *)
(***************************************************************************)
EXTENDS LockService, Sequences

CONSTANT MaxDelayed     \* bound on the requests that are executed after their attempt

ASSUME RunAssumption ==
    /\ Members = 3
    /\ MaxDelayed \in Nat
    /\ {"orders", "union/a", "union/b"} \subseteq Keys
    /\ {"a", "b", "c", "d", "union", "conflict"} \subseteq Holders

VARIABLES
    phase,          \* "run", "caught", "finally" or "done"
    step,           \* the next step of Script
    cursor,         \* the member clusterRequest tries next; Members + 1 at the round's end
    delayed,        \* requests whose attempt timed out and that are still under way
    token,          \* the token each holder was given (first.token, second.token, ...)
    target,         \* currentLeader, or 0
    handles,        \* the members in nodes[]
    highestToken,   \* downstream.state.highestToken
    history,        \* downstream.state.history
    evidence,       \* [passed, history] of the evidence object
    file,           \* what was written to EVIDENCE_PATH: a set of at most one [passed, history]
    failure,        \* "none", "assertion" (the scenario's) or "exception"
    trouble         \* history: an answer was lost, a request delayed, a lease ran out too
                    \* early, or no member answered as leader for 15 seconds

serviceVars == <<running, leader, locks, newest>>
mainVars == <<target, handles, highestToken, history, evidence, file>>
vars == <<running, leader, locks, newest, phase, step, cursor, delayed, token, target, handles,
          highestToken, history, evidence, file, failure, trouble>>

(***************************************************************************)
(* The scenario.                                                           *)
(***************************************************************************)

Orders == {"orders"}
Union == {"union/a", "union/b"}

Start(n) == [do |-> "start", node |-> n]
Inspect(h) == [do |-> "inspect", keys |-> Orders, holder |-> h]
Renew(keys, h, yes) == [do |-> "renew", keys |-> keys, holder |-> h, yes |-> yes]
Release(keys, h, yes) == [do |-> "release", keys |-> keys, holder |-> h, yes |-> yes]
Write(h, accepted) == [do |-> "write", holder |-> h, accepted |-> accepted]
Simply(what) == [do |-> what]

\* The grant must be newer than those of `over`; the union's is not compared.
Acquire(keys, h, over) ==
    [do |-> "acquire", keys |-> keys, holder |-> h, yes |-> TRUE, over |-> over]

Conflict(keys, h) == [do |-> "acquire", keys |-> keys, holder |-> h, yes |-> FALSE, over |-> {}]

\* Variant: the paused holder's late write is not tried.
HandoverWithoutLateWrite ==
    << Acquire(Orders, "a", {Nobody}), Write("a", TRUE), Simply("pause"),
       Acquire(Orders, "b", {"a"}), Write("b", TRUE),
       Renew(Orders, "a", FALSE), Release(Orders, "a", FALSE), Inspect("b") >>

Handover ==
    << Acquire(Orders, "a", {Nobody}), Write("a", TRUE), Simply("pause"),
       Acquire(Orders, "b", {"a"}), Write("b", TRUE), Write("a", FALSE),
       Renew(Orders, "a", FALSE), Release(Orders, "a", FALSE), Inspect("b") >>

LeaderCrash ==
    << Simply("findLeader"), Simply("crash"), Inspect("b"), Renew(Orders, "b", TRUE),
       Simply("restart"), Inspect("b"),
       Release(Orders, "b", TRUE), Acquire(Orders, "c", {"b"}), Write("c", TRUE), Write("b", FALSE) >>

FullRestart ==
    << Simply("stopAll"), Start(1), Start(2), Start(3), Inspect("c"), Renew(Orders, "c", TRUE),
       Release(Orders, "c", TRUE), Acquire(Orders, "d", {"c"}), Write("d", TRUE), Write("c", FALSE) >>

LockUnion ==
    << Acquire(Union, "union", {}), Conflict({"union/b"}, "conflict"),
       Release(Union, "union", TRUE), Acquire({"union/b"}, "conflict", {"union"}) >>

Script == << Start(1), Start(2), Start(3) >> \o Handover \o LeaderCrash \o FullRestart \o LockUnion

Doing(what) == phase = "run" /\ step <= Len(Script) /\ Script[step].do = what

Now == Script[step]

Succeeds == step' = step + 1 /\ cursor' = 1 /\ UNCHANGED <<phase, failure>>

Fails(why) == phase' = "caught" /\ failure' = why /\ UNCHANGED <<step, cursor>>

(***************************************************************************)
(* clusterRequest.                                                         *)
(***************************************************************************)

Calling == \E what \in {"acquire", "renew", "release", "inspect"} : Doing(what)

Request ==
    [kind |-> Now.do, keys |-> Now.keys, holder |-> Now.holder,
     token |-> IF Now.do \in {"renew", "release"} THEN token[Now.holder] ELSE 0]

\* The attempt gets to the leader, directly or by a redirect that is followed.
Reaches(n) == n \in running /\ leader # 0

Executes(req, o) ==
    /\ o \in Executed(req)
    /\ o.newest <= MaxToken
    /\ locks' = o.locks
    /\ newest' = o.newest
    /\ UNCHANGED <<running, leader>>

\* The assertions made of an answer.
Expected(s, a) ==
    CASE s.do = "acquire" -> a.yes = s.yes /\ \A h \in s.over : a.token > token[h]
      [] s.do \in {"renew", "release"} -> a.yes = s.yes
      [] s.do = "inspect" -> a.holder = s.holder /\ a.token = token[s.holder]

Attempting(n) == Calling /\ cursor = n /\ n \in Nodes

\* An answer with a success status ends the call.
AttemptAnswered(n) ==
    /\ Attempting(n) /\ Reaches(n)
    /\ \E o \in Executed(Request) :
        /\ Executes(Request, o)
        /\ IF Expected(Now, o.answer)
           THEN /\ Succeeds
                /\ token' = IF Now.do = "acquire" /\ Now.yes
                            THEN [token EXCEPT ![Now.holder] = o.answer.token] ELSE token
           ELSE Fails("assertion") /\ UNCHANGED token
    /\ UNCHANGED <<mainVars, delayed, trouble>>

\* The member is not up or known to be gone, cannot serve, or never gets the
\* request: the next member is tried.
AttemptFails(n) ==
    /\ Attempting(n)
    /\ cursor' = n + 1
    /\ UNCHANGED <<serviceVars, mainVars, phase, step, delayed, token, failure, trouble>>

\* The request is executed and its answer is lost.
AnswerLost(n) ==
    /\ Attempting(n) /\ Reaches(n)
    /\ \E o \in Executed(Request) : Executes(Request, o)
    /\ cursor' = n + 1
    /\ trouble' = TRUE
    /\ UNCHANGED <<mainVars, phase, step, delayed, token, failure>>

\* The attempt times out with its request still under way.
AttemptDelayed(n) ==
    /\ Attempting(n) /\ n \in running
    /\ Cardinality(delayed) < MaxDelayed
    /\ delayed' = delayed \cup {Request}
    /\ cursor' = n + 1
    /\ trouble' = TRUE
    /\ UNCHANGED <<serviceVars, mainVars, phase, step, token, failure>>

\* After a pause the members are tried again.
NextRound ==
    /\ Calling /\ cursor > Members
    /\ cursor' = 1
    /\ UNCHANGED <<serviceVars, mainVars, phase, step, delayed, token, failure, trouble>>

\* Variant: a round in which no member could serve does not count.
OutOfTimeIfServed == cursor > Members /\ leader # 0

\* The deadline is looked at between rounds only.
OutOfTime == cursor > Members

GiveUp ==
    /\ Calling /\ OutOfTime
    /\ Fails("exception")
    /\ UNCHANGED <<serviceVars, mainVars, delayed, token, trouble>>

(***************************************************************************)
(* The steps that do not call the cluster.                                 *)
(***************************************************************************)

Starting == Doing("start") \/ Doing("restart")

\* Variant: the index of the crashed member is taken for its number.
ToStartOffByOne == IF Now.do = "start" THEN Now.node ELSE target + 1

ToStart == IF Now.do = "start" THEN Now.node ELSE target

\* startNode() returns a healthy member, which takes its place in nodes[] ...
NodeStarts ==
    /\ Starting
    /\ Joins(ToStart)
    /\ handles' = handles \cup {ToStart}
    /\ Succeeds
    /\ UNCHANGED <<locks, newest, delayed, token, target, highestToken, history, evidence, file,
                   trouble>>

\* ... or throws, and leaves no process behind.
NodeFails ==
    /\ Starting
    /\ Fails("exception")
    /\ UNCHANGED <<serviceVars, mainVars, delayed, token, trouble>>

\* Variant: the delay is shorter than the lease.
LocksAfterShortPause == locks

\* delay(FIRST_TTL_MS + 900) outlives the lease that holder-a was granted.
LocksAfterPause ==
    [k \in Keys |-> IF Honest /\ locks[k] = [holder |-> "a", token |-> token["a"]]
                    THEN Free ELSE locks[k]]

Pause ==
    /\ Doing("pause")
    /\ locks' = LocksAfterPause
    /\ Succeeds
    /\ UNCHANGED <<running, leader, newest, mainVars, delayed, token, trouble>>

\* leaderIndex(): the first member that answers a read itself is the leader.
LeaderFound ==
    /\ Doing("findLeader")
    /\ leader # 0
    /\ target' = leader
    /\ Succeeds
    /\ UNCHANGED <<serviceVars, handles, highestToken, history, evidence, file, delayed, token,
                   trouble>>

\* None is found in 15 seconds, and currentLeader is asserted not to be null:
\* for so long the cluster had no leader, or its answers did not arrive.
NoLeaderFound ==
    /\ Doing("findLeader")
    /\ Fails("assertion")
    /\ trouble' = TRUE
    /\ UNCHANGED <<serviceVars, mainVars, delayed, token>>

\* SIGKILL to the member that was found.
Crash ==
    /\ Doing("crash")
    /\ Leave({target})
    /\ Succeeds
    /\ UNCHANGED <<locks, newest, mainVars, delayed, token, trouble>>

\* Variant: nodes[] is emptied before its members are stopped.
StoppedAfterForgetting == {}

\* stopAll() stops the members in nodes[].
Stopped == handles

\* The first half of restartAll(); the second is the three starts that follow.
StopAll ==
    /\ Doing("stopAll")
    /\ Leave(Stopped)
    /\ handles' = {}
    /\ Succeeds
    /\ UNCHANGED <<locks, newest, delayed, token, target, highestToken, history, evidence, file,
                   trouble>>

(***************************************************************************)
(* The downstream.                                                         *)
(***************************************************************************)

Accepts(t) == t >= highestToken

\* The server's handler, for a token that may be missing (0).
ServerHandles(h, t) ==
    IF t = 0
    THEN UNCHANGED <<highestToken, history>>
    ELSE /\ highestToken' = IF Accepts(t) THEN t ELSE highestToken
         /\ history' = Append(history, [writer |-> h, token |-> t, accepted |-> Accepts(t)])

\* The assertions made of the status, 200 or 409.
WriteExpected(s) ==
    token[s.holder] # 0 /\ (Accepts(token[s.holder]) <=> s.accepted)

WriteAnswered ==
    /\ Doing("write")
    /\ ServerHandles(Now.holder, token[Now.holder])
    /\ IF WriteExpected(Now) THEN Succeeds ELSE Fails("assertion")
    /\ UNCHANGED <<serviceVars, target, handles, evidence, file, delayed, token, trouble>>

\* mutate() throws after two seconds; the server may have handled the write.
WriteTimesOut ==
    /\ Doing("write")
    /\ ServerHandles(Now.holder, token[Now.holder]) \/ UNCHANGED <<highestToken, history>>
    /\ Fails("exception")
    /\ UNCHANGED <<serviceVars, target, handles, evidence, file, delayed, token, trouble>>

(***************************************************************************)
(* The evidence file and the end.                                          *)
(***************************************************************************)

PassedEvidence == [passed |-> TRUE, history |-> history]

\* The scenario is through: the evidence is completed and written.
Finish ==
    /\ phase = "run" /\ step > Len(Script)
    /\ evidence' = PassedEvidence
    /\ \/ file' = {evidence'} /\ phase' = "finally" /\ UNCHANGED failure
       \/ file' = file /\ phase' = "caught" /\ failure' = "exception"
    /\ UNCHANGED <<serviceVars, step, cursor, delayed, token, target, handles, highestToken,
                   history, trouble>>

\* The scratch directory, the ports or the downstream fail before the try
\* block is entered: neither catch nor finally runs.
SetupFails ==
    /\ phase = "run" /\ step = 1
    /\ phase' = "done" /\ failure' = "exception"
    /\ UNCHANGED <<serviceVars, mainVars, step, cursor, delayed, token, trouble>>

\* Variant: the verdict is left as it was.
CaughtKeepsVerdict == evidence

CaughtEvidence == [evidence EXCEPT !.passed = FALSE]

\* The catch block writes what the evidence holds by then, if it can.
Catch ==
    /\ phase = "caught"
    /\ evidence' = CaughtEvidence
    /\ file' \in {file, {evidence'}}
    /\ phase' = "finally"
    /\ UNCHANGED <<serviceVars, step, cursor, delayed, token, target, handles, highestToken,
                   history, failure, trouble>>

\* The finally block: removing the scratch directory may fail and throw.
Finally ==
    /\ phase = "finally"
    /\ evidence' = [evidence EXCEPT !.history = history]
    /\ Leave(handles)
    /\ phase' = "done"
    /\ failure' \in {failure, "exception"}
    /\ UNCHANGED <<locks, newest, step, cursor, delayed, token, target, handles, highestToken,
                   history, file, trouble>>

(***************************************************************************)
(* The environment.                                                        *)
(***************************************************************************)

\* A member is elected in place of another at any time.
Elect(n) ==
    /\ Elected(n)
    /\ UNCHANGED <<mainVars, phase, step, cursor, delayed, token, failure, trouble>>

\* A lease runs out before the scenario is done with it; holder-a's is meant to.
Lapse(k) ==
    /\ Honest /\ locks[k] # Free
    /\ locks' = Lapsed(k)
    /\ trouble' = (trouble \/ locks[k].holder # "a")
    /\ UNCHANGED <<running, leader, newest, mainVars, phase, step, cursor, delayed, token, failure>>

\* A request whose attempt timed out is executed after all.
DelayedArrives(req) ==
    /\ req \in delayed /\ leader # 0
    /\ delayed' = delayed \ {req}
    /\ \E o \in Executed(req) : Executes(req, o)
    /\ UNCHANGED <<mainVars, phase, step, cursor, token, failure, trouble>>

Init ==
    /\ ServiceInit
    /\ phase = "run" /\ step = 1 /\ cursor = 1
    /\ delayed = {}
    /\ token = [h \in Holders \cup {Nobody} |-> 0]
    /\ target = 0 /\ handles = {}
    /\ highestToken = 0 /\ history = << >>
    /\ evidence = [passed |-> FALSE, history |-> << >>]
    /\ file = {}
    /\ failure = "none" /\ trouble = FALSE

Main ==
    \/ SetupFails
    \/ NodeStarts \/ NodeFails \/ Pause \/ LeaderFound \/ NoLeaderFound \/ Crash \/ StopAll
    \/ \E n \in Nodes : AttemptAnswered(n) \/ AttemptFails(n) \/ AnswerLost(n) \/ AttemptDelayed(n)
    \/ NextRound \/ GiveUp
    \/ WriteAnswered \/ WriteTimesOut
    \/ Finish \/ Catch \/ Finally

\* After the scenario, nothing looks at the cluster any more.
Environment ==
    /\ phase = "run"
    /\ \/ \E n \in Nodes : Elect(n)
       \/ \E k \in Keys : Lapse(k)
       \/ \E req \in delayed : DelayedArrives(req)

Next == Main \/ Environment

Spec == Init /\ [][Next]_vars

\* main() is scheduled, and the clock reaches the deadline of a call that
\* goes on and on.
Fairness == WF_vars(Main) /\ SF_vars(GiveUp)

FairSpec == Spec /\ Fairness

-----------------------------------------------------------------------------
(***************************************************************************)
(* Properties.                                                             *)
(***************************************************************************)

Entries == [writer : Holders, token : 1..MaxToken, accepted : BOOLEAN]

\* The variables have their types.
TypeOK ==
    /\ running \subseteq Nodes /\ leader \in running \cup {0}
    /\ \A k \in Keys : locks[k] \in [holder : Holders \cup {Nobody}, token : 0..MaxToken]
    /\ newest \in 0..MaxToken
    /\ phase \in {"run", "caught", "finally", "done"}
    /\ step \in 1..(Len(Script) + 1) /\ cursor \in 1..(Members + 1)
    /\ Cardinality(delayed) <= MaxDelayed
    /\ \A h \in Holders \cup {Nobody} : token[h] \in 0..MaxToken
    /\ target \in Nodes \cup {0} /\ handles \subseteq Nodes
    /\ highestToken \in 0..MaxToken
    /\ \A i \in DOMAIN history : history[i] \in Entries
    /\ Cardinality(file) <= 1
    /\ failure \in {"none", "assertion", "exception"} /\ trouble \in BOOLEAN

\* A history that shows fencing: the tokens accepted strictly increase, and
\* each superseded holder's late write, after its successor's, is rejected.
ShowsFencing(h) ==
    /\ \A i, j \in DOMAIN h : i < j /\ h[i].accepted /\ h[j].accepted => h[i].token < h[j].token
    /\ \A w \in {"a", "b", "c"} :
            \E i, j, k \in DOMAIN h :
                /\ i < j /\ j < k
                /\ h[i].writer = w /\ h[i].accepted
                /\ h[j].writer # w /\ h[j].accepted
                /\ h[k].writer = w /\ ~h[k].accepted

\* No false pass: whatever the cluster answers, a file that says "passed"
\* holds a history that shows fencing.
PassedMeansFenced == \A f \in file : f.passed => ShowsFencing(f.history)

\* No false alarm: changes of leader, the crash, the restarts and every
\* attempt that was not executed are absorbed; an assertion fails only after
\* an answer was lost, a request was delayed, a lease ran out too early or
\* the search for a leader was in vain.
FailsOnlyInTrouble == failure = "assertion" => trouble

\* However the run ends, it leaves no member running.
NoOrphans == phase = "done" => running = {}

\* An exit status of 0 stands for a written verdict of "passed" with the
\* whole history, and a run that went through the catch block leaves no such
\* verdict.  The finally block may still throw: a run that exits with 1 may
\* leave one, but never after a failed assertion or with a part of the history.
ExitMatchesVerdict ==
    /\ phase = "done" /\ failure = "none" => file = {[passed |-> TRUE, history |-> history]}
    /\ phase = "finally" /\ failure # "none" => \A f \in file : ~f.passed
    /\ phase = "done" => \A f \in file : f.passed => f.history = history /\ failure # "assertion"

\* README.md: the evidence records the downstream's accept and reject history.
EvidenceHasHistory == phase = "done" => \A f \in file : f.history = history

\* test-plan.json: what is killed is the current leader.
CrashesTheLeader == [][Doing("crash") /\ step' > step => target = leader]_vars

\* The run ends: no call goes on past its deadline for ever.  (That starts and
\* stops end is shown in NodeLifecycle; here each is one step.)
RunEnds == <>(phase = "done")
=============================================================================
