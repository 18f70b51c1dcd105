---------------------------- MODULE NodeLifecycle ----------------------------
(***************************************************************************)
(* The member processes of scripts/stale-fencing-e2e.mjs: pickPorts(),     *)
(* startNode() with its health loop, crash() and stop(), and how main()    *)
(* calls them.                                                             *)
(*                                                                         *)
(* What the operating system does to a process (`proc`) and what the       *)
(* harness knows of it (`exit`, set by the exit event) are two variables:  *)
(* everything the harness decides, it decides on the second.  A signal is  *)
(* pending until it acts.  A port belongs to nobody between pickPorts()    *)
(* closing it and the member binding it, and another process may bind it.  *)
(*                                                                         *)
(* StaleFencingRun takes a start and a stop as one step each; this module  *)
(* is what happens inside them.                                            *)
(***************************************************************************)
EXTENDS Naturals, FiniteSets

CONSTANTS
    Members,    \* the members of the cluster
    Ports,      \* the ephemeral ports
    Nobody,     \* the owner of a free port, the port that is not picked yet
    Harness,    \* the harness as the owner of a port
    Stranger,   \* any other process as the owner of a port
    MaxStarts   \* bound on the starts of a run

ASSUME LifecycleAssumption ==
    /\ Cardinality(Members) <= Cardinality(Ports)
    /\ MaxStarts \in Nat
    /\ Nobody \notin Ports /\ Nobody # Harness
    /\ {Nobody, Harness, Stranger} \cap Members = {}

VARIABLES
    main,       \* where main() is: "ports", "ready", "crashed", "start", "stop", "over"
    cur,        \* the member that was crashed or is being started
    loop,       \* where startNode() is: "no", "check", "fetch" or "stop"
    late,       \* the 90 seconds of startNode() are over
    final,      \* the stop in progress is the one of the finally block
    handles,    \* the members in nodes[]
    starts,     \* how many starts there were
    picked,     \* the port picked for each member
    owner,      \* who listens on each port
    proc,       \* per member: "none", "booting", "serving" or "dead"
    exit,       \* per member, what the harness knows: "no", "code", "signal" or "error"
    how,        \* per member, what the exit event will say
    signals,    \* per member, the signals that were sent and did not act yet
    stop        \* per member, where stop() is: "no", "term", "kill" or "done"

harness == <<main, cur, loop, late, final, handles, starts, picked, stop>>
system == <<owner, proc, exit, how, signals>>
vars == <<main, cur, loop, late, final, handles, starts, picked, owner, proc, exit, how,
          signals, stop>>

Gone(m) == proc[m] \in {"none", "dead"}

\* child.exitCode or child.signalCode is set.
Known(m) == exit[m] # "no"

(***************************************************************************)
(* pickPorts(): all are held open until the last is picked.                *)
(***************************************************************************)

HoldsToo(p) == [owner EXCEPT ![p] = Harness]

\* listen(0) returns any port that nobody listens on.
PickPort(m, p) ==
    /\ main = "ports" /\ picked[m] = Nobody /\ owner[p] = Nobody
    /\ picked' = [picked EXCEPT ![m] = p]
    /\ owner' = HoldsToo(p)
    /\ UNCHANGED <<main, cur, loop, late, final, handles, starts, proc, exit, how, signals, stop>>

ClosePorts ==
    /\ main = "ports" /\ \A m \in Members : picked[m] # Nobody
    /\ owner' = [p \in Ports |-> IF owner[p] = Harness THEN Nobody ELSE owner[p]]
    /\ main' = "ready"
    /\ UNCHANGED <<cur, loop, late, final, handles, starts, picked, proc, exit, how, signals, stop>>

(***************************************************************************)
(* Signals and stop().                                                     *)
(***************************************************************************)

\* killTree(): nothing is sent to a process that is known to be gone.
Sent(ms, s) == [m \in Members |-> IF m \in ms /\ ~Known(m) THEN signals[m] \cup {s} ELSE signals[m]]

\* stop() is called for members ms: SIGTERM, and a listener for the exit event.
Stopping(ms) ==
    /\ signals' = Sent(ms, "TERM")
    /\ stop' = [m \in Members |-> IF m \in ms THEN IF Known(m) THEN "done" ELSE "term" ELSE "no"]

\* Variant: after four seconds stop() waits on and sends nothing.
OverdueIgnored(m) == signals' = signals

\* After four seconds, SIGKILL.
Overdue(m) == signals' = Sent({m}, "KILL")

StopOverdue(m) ==
    /\ stop[m] = "term"
    /\ Overdue(m)
    /\ stop' = [stop EXCEPT ![m] = "kill"]
    /\ UNCHANGED <<main, cur, loop, late, final, handles, starts, picked, owner, proc, exit, how>>

\* Variant: four seconds after SIGTERM the member counts as stopped.
StoppedWhenOverdue(m) == stop[m] \in {"kill", "done"}

Stopped(m) == stop[m] = "done"

(***************************************************************************)
(* startNode().                                                            *)
(***************************************************************************)

\* Variant: the health loop goes on although the start was given up.
ThrowsInLoop ==
    /\ main' = "stop" /\ final' = TRUE /\ loop' = "check"
    /\ Stopping(handles)

\* Throwing out of the scenario: the finally block stops nodes[].
Throws ==
    /\ main' = "stop" /\ final' = TRUE /\ loop' = "no"
    /\ Stopping(handles)

\* An empty slot of nodes[] is filled; or the member that was crashed is
\* started anew, after delay(500), by when SIGKILL has acted.
MayStart(m) ==
    \/ main = "ready" /\ m \notin handles
    \/ main = "crashed" /\ m = cur /\ Gone(m)

\* spawn(), and the first turn of the health loop: nothing can have been
\* heard of the process by then.  A process that cannot be spawned is none.
Spawn(m) ==
    /\ MayStart(m) /\ starts < MaxStarts
    /\ main' = "start" /\ cur' = m /\ loop' = "fetch" /\ late' = FALSE
    /\ starts' = starts + 1
    /\ how' = [how EXCEPT ![m] = "no"]
    /\ signals' = [signals EXCEPT ![m] = {}]
    /\ \/ /\ proc' = [proc EXCEPT ![m] = "booting"]
          /\ exit' = [exit EXCEPT ![m] = "no"]
       \/ /\ proc' = [proc EXCEPT ![m] = "none"]
          /\ exit' = [exit EXCEPT ![m] = "error"]
    /\ UNCHANGED <<final, handles, picked, owner, stop>>

\* Variant: the deadline counts only once the process is gone.
TimeIsUpWhenGone == late /\ Known(cur)

TimeIsUp == late

Checking == main = "start" /\ loop = "check"

\* It could not be spawned, or it exited by itself; being killed by a signal
\* goes unnoticed here.
StartThrows ==
    /\ Checking /\ ~TimeIsUp
    /\ exit[cur] \in {"error", "code"}
    /\ Throws
    /\ UNCHANGED <<cur, late, handles, starts, picked, owner, proc, exit, how>>

Fetch ==
    /\ Checking /\ ~TimeIsUp
    /\ exit[cur] \notin {"error", "code"}
    /\ loop' = "fetch"
    /\ UNCHANGED <<main, cur, late, final, handles, starts, picked, stop, system>>

\* The answer on the member's port says healthy: the handle is returned.
FetchHealthy ==
    /\ main = "start" /\ loop = "fetch"
    /\ \/ owner[picked[cur]] = cur /\ proc[cur] = "serving"
       \/ owner[picked[cur]] = Stranger
    /\ handles' = handles \cup {cur}
    /\ main' = "ready" /\ loop' = "no"
    /\ UNCHANGED <<cur, late, final, starts, picked, stop, system>>

\* No answer, or not a healthy one: the next turn, after a delay.
FetchFails ==
    /\ main = "start" /\ loop = "fetch"
    /\ loop' = "check"
    /\ UNCHANGED <<main, cur, late, final, handles, starts, picked, stop, system>>

Deadline ==
    /\ main = "start" /\ ~late
    /\ late' = TRUE
    /\ UNCHANGED <<main, cur, loop, final, handles, starts, picked, stop, system>>

\* Variant: a start that was given up leaves its process behind.
AbandonedKept == {}

\* A start that is given up stops its process, which is not in nodes[] yet.
Abandoned == {cur}

GiveUpStart ==
    /\ Checking /\ TimeIsUp
    /\ loop' = "stop"
    /\ Stopping(Abandoned)
    /\ UNCHANGED <<main, cur, late, final, handles, starts, picked, owner, proc, exit, how>>

GivenUp ==
    /\ main = "start" /\ loop = "stop"
    /\ \A m \in Abandoned : Stopped(m)
    /\ Throws
    /\ UNCHANGED <<cur, late, handles, starts, picked, owner, proc, exit, how>>

(***************************************************************************)
(* What main() does with its members.                                      *)
(***************************************************************************)

\* nodes[currentLeader].crash()
Crash(m) ==
    /\ main = "ready" /\ handles = Members
    /\ signals' = Sent({m}, "KILL")
    /\ main' = "crashed" /\ cur' = m
    /\ UNCHANGED <<loop, late, final, handles, starts, picked, owner, proc, exit, how, stop>>

\* stopAll(): in restartAll(), or, `last`, in the finally block, which any
\* failure of the scenario leads to.
StopAll(last) ==
    /\ main \in {"ready", "crashed"}
    /\ ~last => main = "ready" /\ handles = Members
    /\ main' = "stop" /\ final' = last
    /\ Stopping(handles)
    /\ UNCHANGED <<cur, loop, late, handles, starts, picked, owner, proc, exit, how>>

\* Every stop() returned.
AllStopped ==
    /\ main = "stop" /\ \A m \in handles : Stopped(m)
    /\ main' = IF final THEN "over" ELSE "ready"
    /\ handles' = {}
    /\ UNCHANGED <<cur, loop, late, final, starts, picked, stop, system>>

(***************************************************************************)
(* The operating system.                                                   *)
(***************************************************************************)

Dead(m, why) ==
    /\ proc' = [proc EXCEPT ![m] = "dead"]
    /\ how' = [how EXCEPT ![m] = why]
    /\ owner' = [p \in Ports |-> IF owner[p] = m THEN Nobody ELSE owner[p]]
    /\ UNCHANGED <<harness, exit, signals>>

\* The member listens on its port, or exits if it cannot.
Binds(m) ==
    /\ proc[m] = "booting"
    /\ owner[picked[m]] = Nobody
    /\ proc' = [proc EXCEPT ![m] = "serving"]
    /\ owner' = [owner EXCEPT ![picked[m]] = m]
    /\ UNCHANGED <<harness, exit, how, signals>>

\* It exits by itself, or because SIGTERM asks it to; it may ignore SIGTERM.
Exits(m) == ~Gone(m) /\ Dead(m, "code")

\* SIGKILL acts; or SIGTERM, or any other signal, before a handler is there.
Killed(m) == ~Gone(m) /\ Dead(m, "signal")

KillActs(m) == "KILL" \in signals[m] /\ Killed(m)

\* The exit event: the harness learns of it, and a stop() that waits returns.
ExitEvent(m) ==
    /\ proc[m] = "dead" /\ exit[m] = "no"
    /\ exit' = [exit EXCEPT ![m] = how[m]]
    /\ stop' = IF stop[m] \in {"term", "kill"} THEN [stop EXCEPT ![m] = "done"] ELSE stop
    /\ UNCHANGED <<main, cur, loop, late, final, handles, starts, picked, owner, proc, how, signals>>

\* Another process takes a port that is free.
TakePort(p) ==
    /\ owner[p] = Nobody
    /\ owner' = [owner EXCEPT ![p] = Stranger]
    /\ UNCHANGED <<harness, proc, exit, how, signals>>

Init ==
    /\ main = "ports" /\ cur = Nobody /\ loop = "no" /\ late = FALSE /\ final = FALSE
    /\ handles = {} /\ starts = 0
    /\ picked = [m \in Members |-> Nobody]
    /\ owner = [p \in Ports |-> Nobody]
    /\ proc = [m \in Members |-> "none"]
    /\ exit = [m \in Members |-> "no"]
    /\ how = [m \in Members |-> "no"]
    /\ signals = [m \in Members |-> {}]
    /\ stop = [m \in Members |-> "no"]

Main ==
    \/ \E m \in Members, p \in Ports : PickPort(m, p)
    \/ ClosePorts
    \/ \E m \in Members : Spawn(m) \/ Crash(m)
    \/ StartThrows \/ Fetch \/ FetchHealthy \/ FetchFails \/ GiveUpStart \/ GivenUp
    \/ \E last \in BOOLEAN : StopAll(last)
    \/ AllStopped

System ==
    \/ \E m \in Members : Binds(m) \/ Exits(m) \/ Killed(m) \/ ExitEvent(m)
    \/ \E p \in Ports : TakePort(p)

Timers == Deadline \/ \E m \in Members : StopOverdue(m)

Next == Main \/ System \/ Timers

Spec == Init /\ [][Next]_vars

\* main() goes on, timers fire, SIGKILL acts and exit events are delivered.
\* A process that is only asked to end may never do so.
Fairness ==
    /\ WF_vars(Main) /\ WF_vars(Deadline)
    /\ \A m \in Members :
        WF_vars(StopOverdue(m)) /\ WF_vars(KillActs(m)) /\ WF_vars(ExitEvent(m))

FairSpec == Spec /\ Fairness

-----------------------------------------------------------------------------
(***************************************************************************)
(* Properties.                                                             *)
(***************************************************************************)

\* The variables have their types; no start is under way outside "start".
TypeOK ==
    /\ main \in {"ports", "ready", "crashed", "start", "stop", "over"}
    /\ loop \in {"no", "check", "fetch", "stop"} /\ (loop # "no" <=> main = "start")
    /\ cur \in Members \cup {Nobody} /\ late \in BOOLEAN /\ final \in BOOLEAN
    /\ handles \subseteq Members /\ starts \in 0..MaxStarts
    /\ picked \in [Members -> Ports \cup {Nobody}]
    /\ owner \in [Ports -> Members \cup {Nobody, Harness, Stranger}]
    /\ proc \in [Members -> {"none", "booting", "serving", "dead"}]
    /\ exit \in [Members -> {"no", "code", "signal", "error"}]
    /\ how \in [Members -> {"no", "code", "signal"}]
    /\ signals \in [Members -> SUBSET {"TERM", "KILL"}]
    /\ stop \in [Members -> {"no", "term", "kill", "done"}]

\* However a start fails and whatever a process does with SIGTERM, a run that
\* is over has left no process: the one of a start that was given up, in no
\* slot of nodes[], included.
NoProcessLeft == main = "over" => \A m \in Members : Gone(m)

\* A member's ports and data directory are never used by two of its processes:
\* a process is spawned only when the one before is gone.
OneProcessPerMember ==
    [][\A m \in Members : proc'[m] = "booting" => proc[m] = "booting" \/ Gone(m)]_vars

\* startNode() returns or throws, although a member killed by a signal while
\* it boots is noticed at the deadline only.
StartEnds == main = "start" ~> main # "start"

\* A stop comes to its end, although the second wait of stop() has no deadline
\* and a process may ignore SIGTERM: no exit event is missed.
StopEnds == main = "stop" ~> main # "stop"
=============================================================================
