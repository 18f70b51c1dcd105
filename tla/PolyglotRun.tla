----------------------------- MODULE PolyglotRun -----------------------------
(***************************************************************************)
(* scripts/run-live-mutex-polyglot-e2e.sh: a broker is built and started,  *)
(* every client runs against it, a receipt is written and the broker is    *)
(* stopped; first for the Node broker, then for the Rust broker.           *)
(*                                                                         *)
(* The script runs again and again over one evidence directory, which it   *)
(* never empties, and it may be killed before its exit trap runs: receipts *)
(* and brokers of earlier runs are what a later run finds.  `set -e` turns *)
(* the failure of any command into the end of the run.                     *)
(***************************************************************************)
EXTENDS Naturals

CONSTANTS
    Sources,    \* the revisions a broker is built from
    Cases,      \* how many clients each broker is tested with (nine)
    Attempts,   \* how often wait_for_tcp() tries (120)
    MaxRuns     \* bound on the runs of the script

ASSUME PolyglotAssumption ==
    /\ Cases \in Nat \ {0}
    /\ Attempts \in Nat \ {0}
    /\ MaxRuns \in Nat

Brokers == {"node", "rust"}

\* What stands for a process: the revision it was built from, and its run.
Process == [source : Sources, run : 1..MaxRuns]

None == [source |-> "none", run |-> 0]

VARIABLES
    run,        \* which run this is
    step,       \* where the script is
    at,         \* the broker it deals with
    ended,      \* how the run ended: "no", "passed", "failed" or "killed"
    source,     \* per broker, the revision that is checked out
    tries,      \* how often wait_for_tcp() tried
    cases,      \* per broker, how many cases ran
    pid,        \* the brokers whose *_BROKER_PID is set
    proc,       \* per broker, the process of this run: "none", "booting", "serving" or "dead"
    port,       \* per broker, the process that listens on its port
    receipt,    \* per broker, the receipt in the evidence directory
    passed,     \* history: per broker, how many cases of this run exited with 0
    answered    \* history: per broker, the processes that answered the cases of this run

script == <<run, ended, source, cases, passed, answered>>
vars == <<run, step, at, ended, source, tries, cases, pid, proc, port, receipt, passed, answered>>

This(b) == [source |-> source[b], run |-> run]

Alive(b) == proc[b] \in {"booting", "serving"}

(***************************************************************************)
(* The script.                                                             *)
(***************************************************************************)

\* A run starts with variables of its own, on whatever is checked out.
Begin ==
    /\ step = "over" /\ run < MaxRuns
    /\ run' = run + 1
    /\ step' = "require" /\ at' = "node" /\ ended' = "no" /\ tries' = 0
    /\ source' \in [Brokers -> Sources]
    /\ cases' = [b \in Brokers |-> 0]
    /\ pid' = {}
    /\ proc' = [b \in Brokers |-> "none"]
    /\ passed' = [b \in Brokers |-> 0]
    /\ answered' = [b \in Brokers |-> {}]
    /\ UNCHANGED <<port, receipt>>

\* Every command that is needed is installed, and both revisions are known.
Required ==
    /\ step = "require"
    /\ step' = "build"
    /\ UNCHANGED <<script, at, tries, pid, proc, port, receipt>>

\* The broker is built and started in the background.
StartBroker ==
    /\ step = "build"
    /\ proc' = [proc EXCEPT ![at] = "booting"]
    /\ pid' = pid \cup {at}
    /\ step' = "wait" /\ tries' = 0
    /\ UNCHANGED <<script, at, port, receipt>>

\* wait_for_tcp(): whoever listens on the port is taken for the broker.
Ready ==
    /\ step = "wait" /\ port[at] # None
    /\ step' = "cases"
    /\ UNCHANGED <<script, at, tries, pid, proc, port, receipt>>

\* Variant: an attempt is not counted.
TriedUncounted == tries

Tried == tries + 1

NotReady ==
    /\ step = "wait" /\ port[at] = None
    /\ tries' = Tried
    /\ step' = IF tries' = Attempts THEN "failing" ELSE "wait"
    /\ UNCHANGED <<script, at, pid, proc, port, receipt>>

\* run_case(): a client that passed was answered by whoever has the port.
CasePasses ==
    /\ step = "cases" /\ cases[at] < Cases /\ port[at] # None
    /\ cases' = [cases EXCEPT ![at] = @ + 1]
    /\ passed' = [passed EXCEPT ![at] = @ + 1]
    /\ answered' = [answered EXCEPT ![at] = @ \cup {port[at]}]
    /\ UNCHANGED <<run, ended, source, step, at, tries, pid, proc, port, receipt>>

\* Variant: run_case() ends with the exit code of its last echo.
FailureMasked ==
    /\ cases' = [cases EXCEPT ![at] = @ + 1]
    /\ step' = step

\* A command that fails ends the script.
Failure == step' = "failing" /\ cases' = cases

CaseFails ==
    /\ step = "cases" /\ cases[at] < Cases
    /\ Failure
    /\ UNCHANGED <<run, ended, source, passed, answered, at, tries, pid, proc, port, receipt>>

\* A command is missing, a revision is unknown, or a build fails.
CommandFails ==
    /\ step \in {"require", "build"}
    /\ step' = "failing"
    /\ UNCHANGED <<script, at, tries, pid, proc, port, receipt>>

WriteReceipt ==
    /\ step = "cases" /\ cases[at] = Cases
    /\ receipt' = [receipt EXCEPT ![at] = This(at)]
    /\ step' = "kill"
    /\ UNCHANGED <<script, at, tries, pid, proc, port>>

\* Variant: kill ... || true
KillTolerant == TRUE

\* kill fails if there is no such process any more.
KillSucceeds == Alive(at)

\* By now a broker has its port, or it has exited for want of it.
KillBroker ==
    /\ step = "kill" /\ proc[at] # "booting"
    /\ step' = IF KillSucceeds THEN "reap" ELSE "failing"
    /\ UNCHANGED <<script, at, tries, pid, proc, port, receipt>>

\* Variant: the PID stays set.
PidKept == pid

PidCleared == pid \ {at}

\* wait returns when the broker is gone.
ReapBroker ==
    /\ step = "reap" /\ ~Alive(at)
    /\ pid' = PidCleared
    /\ step' = IF at = "node" THEN "build" ELSE "done"
    /\ at' = "rust"
    /\ UNCHANGED <<script, tries, proc, port, receipt>>

\* Variant: the exit trap kills and does not wait.
CleanAtOnce == TRUE

\* The exit trap kills and awaits the brokers whose PID is set, if they live.
Clean == \A b \in pid : ~Alive(b)

Cleanup ==
    /\ step \in {"failing", "done"} /\ Clean
    /\ ended' = IF step = "done" THEN "passed" ELSE "failed"
    /\ step' = "over"
    /\ UNCHANGED <<run, source, cases, passed, answered, at, tries, pid, proc, port, receipt>>

(***************************************************************************)
(* The brokers, and whoever kills the script.                              *)
(***************************************************************************)

Binds(b) ==
    /\ proc[b] = "booting" /\ port[b] = None
    /\ proc' = [proc EXCEPT ![b] = "serving"]
    /\ port' = [port EXCEPT ![b] = This(b)]
    /\ UNCHANGED <<script, step, at, tries, pid, receipt>>

\* It is told to end, it cannot have its port, or it crashes.
Exits(b) ==
    /\ Alive(b)
    /\ proc' = [proc EXCEPT ![b] = "dead"]
    /\ port' = IF proc[b] = "serving" THEN [port EXCEPT ![b] = None] ELSE port
    /\ UNCHANGED <<script, step, at, tries, pid, receipt>>

\* The script is killed, and no trap runs.  A broker that listens goes on, and
\* nobody kills it later; one that boots may come to listen.
KillScript(binds) ==
    /\ step # "over"
    /\ step' = "over" /\ ended' = "killed"
    /\ proc' = [b \in Brokers |-> "none"]
    /\ port' = [b \in Brokers |->
                    IF binds /\ proc[b] = "booting" /\ port[b] = None THEN This(b) ELSE port[b]]
    /\ UNCHANGED <<run, source, cases, passed, answered, at, tries, pid, receipt>>

Init ==
    /\ run = 0 /\ step = "over" /\ at = "node" /\ ended = "no" /\ tries = 0
    /\ source \in [Brokers -> Sources]
    /\ cases = [b \in Brokers |-> 0]
    /\ pid = {}
    /\ proc = [b \in Brokers |-> "none"]
    /\ port = [b \in Brokers |-> None]
    /\ receipt = [b \in Brokers |-> None]
    /\ passed = [b \in Brokers |-> 0]
    /\ answered = [b \in Brokers |-> {}]

Readiness == Ready \/ NotReady

Next ==
    \/ Begin \/ Required \/ StartBroker \/ Readiness
    \/ CasePasses \/ CaseFails \/ CommandFails \/ WriteReceipt
    \/ KillBroker \/ ReapBroker \/ Cleanup
    \/ \E b \in Brokers : Binds(b) \/ Exits(b)
    \/ \E binds \in BOOLEAN : KillScript(binds)

Spec == Init /\ [][Next]_vars

\* The script itself goes on while it waits for a broker.
FairSpec == Spec /\ WF_vars(Readiness)

-----------------------------------------------------------------------------
(***************************************************************************)
(* Properties.                                                             *)
(***************************************************************************)

\* The variables have their types, and at most one *_BROKER_PID is set.
TypeOK ==
    /\ run \in 0..MaxRuns
    /\ step \in {"require", "build", "wait", "cases", "kill", "reap", "done", "failing", "over"}
    /\ at \in Brokers
    /\ ended \in {"no", "passed", "failed", "killed"}
    /\ source \in [Brokers -> Sources]
    /\ tries \in 0..Attempts
    /\ cases \in [Brokers -> 0..Cases] /\ passed \in [Brokers -> 0..Cases]
    /\ pid \subseteq {at}
    /\ proc \in [Brokers -> {"none", "booting", "serving", "dead"}]
    /\ port \in [Brokers -> Process \cup {None}]
    /\ receipt \in [Brokers -> Process \cup {None}]
    /\ answered \in [Brokers -> SUBSET Process]

\* A receipt that says "passed" is one of a run in which every client passed:
\* no failed client is lost between run_case() and write_receipt().
ReceiptNeedsEveryCase ==
    \A b \in Brokers : receipt[b].run = run /\ run > 0 => passed[b] = Cases

\* A run that exits with 0 has left receipts of its own for both brokers, none
\* of an earlier run, and only brokers built from the revisions they name
\* answered its clients: a broker that an earlier run left on the port, which
\* wait_for_tcp() takes for the new one, does not get a run through.
PassedMeansItsOwn ==
    ended = "passed" =>
        \A b \in Brokers : receipt[b] = This(b) /\ answered[b] = {This(b)}

\* However a run fails, its exit trap leaves none of its brokers behind; only
\* a run that was killed does.
NoBrokerLeft ==
    ended \in {"passed", "failed"} =>
        \A b \in Brokers : ~Alive(b) /\ port[b] # This(b)

\* wait_for_tcp() comes to its end whether or not the broker ever listens.
ReadinessEnds == step = "wait" ~> step # "wait"
=============================================================================
