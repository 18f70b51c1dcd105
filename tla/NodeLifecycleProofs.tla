------------------------- MODULE NodeLifecycleProofs -------------------------
(***************************************************************************)
(* Proofs about NodeLifecycle, for any members, ports and number of        *)
(* starts.                                                                 *)
(*                                                                         *)
(* A run that is over has left no process because of two facts that hold   *)
(* all the time.  Tracked: a process that is not gone is in nodes[] or is   *)
(* the one being started.  Honest: the harness never believes more than is *)
(* so, and a stop that counts as done, while somebody waits for it, is of  *)
(* a process whose exit event came.                                        *)
(***************************************************************************)
EXTENDS NodeLifecycle, TLAPS

\* startNode() and crash() are about a member.
AboutMember == main \in {"start", "crashed"} => cur \in Members

\* Whatever runs can be stopped: it is in nodes[] or being started.
Tracked == \A m \in Members : ~Gone(m) => m \in handles \/ (main = "start" /\ m = cur)

\* What the harness knows to have ended has ended.
KnownIsGone == \A m \in Members : Known(m) => Gone(m)

\* The stop() calls somebody waits for: those of a stop of nodes[], and the
\* one of a start that is given up.
Awaited(m) == main = "stop" \/ (loop = "stop" /\ m \in Abandoned)

StopIsHonest == \A m \in Members : Awaited(m) /\ Stopped(m) => Known(m)

\* After the finally block nodes[] is empty.
NothingAfter == main = "over" => handles = {}

\* The exit event of a process that ended will say how.
EndIsTold == \A m \in Members : proc[m] = "dead" => how[m] # "no"

Honest == KnownIsGone /\ StopIsHonest /\ EndIsTold

IInv == TypeOK /\ AboutMember /\ Tracked /\ Honest /\ NothingAfter

-----------------------------------------------------------------------------
(***************************************************************************)
(* Types.                                                                  *)
(***************************************************************************)

\* What the harness does to signals and stops, wherever it does it.
LEMMA StoppingType ==
    ASSUME TypeOK, NEW ms \in SUBSET Members, Stopping(ms)
    PROVE  /\ signals' \in [Members -> SUBSET {"TERM", "KILL"}]
           /\ stop' \in [Members -> {"no", "term", "kill", "done"}]
  BY DEF TypeOK, Stopping, Sent

LEMMA InitIInv == Init => IInv
<1> SUFFICES ASSUME Init PROVE IInv
  OBVIOUS
<1>1. TypeOK
  <2>1. signals \in [Members -> SUBSET {"TERM", "KILL"}]
    BY DEF Init
  <2>2. starts \in 0..MaxStarts
    BY LifecycleAssumption DEF Init
  <2>3. late \in BOOLEAN /\ final \in BOOLEAN
    BY DEF Init
  <2>4. /\ picked \in [Members -> Ports \cup {Nobody}]
        /\ owner \in [Ports -> Members \cup {Nobody, Harness, Stranger}]
    BY DEF Init
  <2>5. /\ proc \in [Members -> {"none", "booting", "serving", "dead"}]
        /\ exit \in [Members -> {"no", "code", "signal", "error"}]
        /\ how \in [Members -> {"no", "code", "signal"}]
        /\ stop \in [Members -> {"no", "term", "kill", "done"}]
    BY DEF Init
  <2>6. /\ main = "ports" /\ loop = "no" /\ cur = Nobody /\ handles = {}
    BY DEF Init
  <2> QED
    BY <2>1, <2>2, <2>3, <2>4, <2>5, <2>6 DEF TypeOK
<1>2. \A m \in Members : Gone(m) /\ ~Known(m)
  BY DEF Init, Gone, Known
<1> QED
  BY <1>1, <1>2
  DEF Init, IInv, AboutMember, Tracked, Honest, KnownIsGone, StopIsHonest, EndIsTold, Awaited,
      Stopped, NothingAfter

\* A step of main() keeps the types.
LEMMA MainType == ASSUME IInv, Main PROVE TypeOK'
<1> USE DEF IInv
<1>1. ASSUME NEW m \in Members, NEW p \in Ports, PickPort(m, p) PROVE TypeOK'
  BY <1>1 DEF TypeOK, PickPort, HoldsToo
<1>2. CASE ClosePorts
  BY <1>2 DEF TypeOK, ClosePorts
<1>3. ASSUME NEW m \in Members, Spawn(m) PROVE TypeOK'
  <2>1. starts' \in 0..MaxStarts
    BY <1>3, LifecycleAssumption DEF TypeOK, Spawn
  <2>2. /\ proc' \in [Members -> {"none", "booting", "serving", "dead"}]
        /\ exit' \in [Members -> {"no", "code", "signal", "error"}]
    BY <1>3 DEF TypeOK, Spawn
  <2>3. /\ how' \in [Members -> {"no", "code", "signal"}]
        /\ signals' \in [Members -> SUBSET {"TERM", "KILL"}]
    BY <1>3 DEF TypeOK, Spawn
  <2> QED
    BY <1>3, <2>1, <2>2, <2>3 DEF TypeOK, Spawn
<1>4. ASSUME NEW m \in Members, Crash(m) PROVE TypeOK'
  BY <1>4 DEF TypeOK, Crash, Sent
<1>5. CASE StartThrows
  BY <1>5, StoppingType DEF TypeOK, StartThrows, Throws
<1>6. CASE Fetch \/ FetchFails
  BY <1>6 DEF TypeOK, Fetch, FetchFails, Checking, system
<1>7. CASE FetchHealthy
  BY <1>7 DEF TypeOK, FetchHealthy, system, AboutMember
<1>8. CASE GiveUpStart
  BY <1>8, StoppingType DEF TypeOK, GiveUpStart, Checking, Abandoned, AboutMember
<1>9. CASE GivenUp
  BY <1>9, StoppingType DEF TypeOK, GivenUp, Throws
<1>10. ASSUME NEW last \in BOOLEAN, StopAll(last) PROVE TypeOK'
  BY <1>10, StoppingType DEF TypeOK, StopAll
<1>11. CASE AllStopped
  BY <1>11 DEF TypeOK, AllStopped, system
<1> QED
  BY <1>1, <1>2, <1>3, <1>4, <1>5, <1>6, <1>7, <1>8, <1>9, <1>10, <1>11 DEF Main

\* The operating system and the timers keep the types.
LEMMA OtherType == ASSUME IInv, System \/ Timers PROVE TypeOK'
<1> USE DEF IInv
<1>1. ASSUME NEW m \in Members, Binds(m) PROVE TypeOK'
  BY <1>1 DEF TypeOK, Binds, harness
<1>2. ASSUME NEW m \in Members, Exits(m) \/ Killed(m) PROVE TypeOK'
  BY <1>2 DEF TypeOK, Exits, Killed, Dead, harness
<1>3. ASSUME NEW m \in Members, ExitEvent(m) PROVE TypeOK'
  BY <1>3 DEF TypeOK, ExitEvent
<1>4. ASSUME NEW p \in Ports, TakePort(p) PROVE TypeOK'
  BY <1>4 DEF TypeOK, TakePort, harness
<1>5. CASE Deadline
  BY <1>5 DEF TypeOK, Deadline, system
<1>6. ASSUME NEW m \in Members, StopOverdue(m) PROVE TypeOK'
  BY <1>6 DEF TypeOK, StopOverdue, Overdue, Sent
<1> QED
  BY <1>1, <1>2, <1>3, <1>4, <1>5, <1>6 DEF System, Timers

-----------------------------------------------------------------------------
(***************************************************************************)
(* What main() does.                                                       *)
(***************************************************************************)

\* The conjuncts of IInv other than TypeOK.
Care == AboutMember /\ Tracked /\ Honest /\ NothingAfter

\* No process changes: what is left to show is about nodes[] and the stops.
LEMMA ProcessesKept ==
    ASSUME UNCHANGED <<proc, exit, how>>
    PROVE  /\ \A m \in Members : (Gone(m)' <=> Gone(m)) /\ (Known(m)' <=> Known(m))
           /\ KnownIsGone => KnownIsGone'
           /\ EndIsTold => EndIsTold'
  BY DEF Gone, Known, KnownIsGone, EndIsTold

\* A stop() that returns at once is of a process whose end is known.
LEMMA StoppingHonest ==
    ASSUME NEW ms, Stopping(ms), NEW m \in Members, Stopped(m)'
    PROVE  Known(m)
  BY DEF Stopping, Stopped

\* Before main() stops nodes[], everything that runs is in it.
LEMMA ToStop ==
    ASSUME IInv, Stopping(handles), UNCHANGED <<proc, exit, how, handles>>,
           main' = "stop", loop' # "stop",
           \A m \in Members : ~Gone(m) => m \in handles
    PROVE  Care'
<1>1. StopIsHonest'
  <2> SUFFICES ASSUME NEW m \in Members, Stopped(m)' PROVE Known(m)'
    BY DEF StopIsHonest
  <2> QED
    BY StoppingHonest, ProcessesKept
<1> QED
  BY <1>1, ProcessesKept DEF Care, IInv, AboutMember, Tracked, Honest, NothingAfter

\* Steps that change neither a process nor nodes[] nor a stop, and stop nothing.
LEMMA NothingStopped ==
    ASSUME IInv, UNCHANGED <<proc, exit, how, handles, cur, stop>>,
           main' = main \/ (main = "ports" /\ main' = "ready"),
           loop' = loop \/ loop' # "stop"
    PROVE  Care'
  BY ProcessesKept
  DEF Care, IInv, AboutMember, Tracked, Honest, StopIsHonest, Awaited, Abandoned, Stopped,
      NothingAfter

\* A process is spawned only in place of one that is gone.
LEMMA SpawnReplaces == ASSUME IInv, NEW m \in Members, MayStart(m) PROVE Gone(m)
  BY DEF IInv, TypeOK, MayStart, Tracked

LEMMA SpawnCare == ASSUME IInv, NEW m \in Members, Spawn(m) PROVE Care'
<1> USE DEF IInv
<1>1. /\ main' = "start" /\ cur' = m /\ loop' = "fetch" /\ handles' = handles
      /\ main \in {"ready", "crashed"}
  BY DEF Spawn, MayStart
<1>2. ASSUME NEW n \in Members, n # m
      PROVE  proc'[n] = proc[n] /\ exit'[n] = exit[n]
  BY <1>2 DEF Spawn, TypeOK
<1>3. Known(m)' => Gone(m)'
  BY DEF Spawn, TypeOK, Known, Gone
<1>4. KnownIsGone'
  BY <1>2, <1>3 DEF Honest, KnownIsGone, Known, Gone
<1>5. EndIsTold'
  BY <1>2 DEF Honest, EndIsTold, Spawn, TypeOK
<1>6. Tracked'
  BY <1>1, <1>2 DEF Tracked, Gone
<1> QED
  BY <1>1, <1>4, <1>5, <1>6 DEF Care, AboutMember, Honest, StopIsHonest, Awaited, NothingAfter

LEMMA MainCare == ASSUME IInv, Main PROVE Care'
<1> USE DEF IInv
<1>1. ASSUME NEW m \in Members, NEW p \in Ports, PickPort(m, p) PROVE Care'
  BY <1>1, NothingStopped DEF PickPort
<1>2. CASE ClosePorts
  BY <1>2, NothingStopped DEF ClosePorts
<1>3. ASSUME NEW m \in Members, Spawn(m) PROVE Care'
  BY <1>3, SpawnCare
<1>4. ASSUME NEW m \in Members, Crash(m) PROVE Care'
  BY <1>4, ProcessesKept
  DEF Crash, Care, AboutMember, Tracked, Honest, StopIsHonest, Awaited, TypeOK, NothingAfter
<1>5. CASE StartThrows
  <2>1. Gone(cur)
    BY <1>5 DEF StartThrows, Checking, AboutMember, Honest, KnownIsGone, Known
  <2>2. \A m \in Members : ~Gone(m) => m \in handles
    BY <2>1 DEF Tracked
  <2> QED
    BY <1>5, <2>2, ToStop DEF StartThrows, Throws
<1>6. CASE Fetch \/ FetchFails
  BY <1>6, NothingStopped DEF Fetch, FetchFails, Checking, system
<1>7. CASE FetchHealthy
  BY <1>7, ProcessesKept
  DEF FetchHealthy, system, Care, AboutMember, Tracked, Honest, StopIsHonest, Awaited, NothingAfter
<1>8. CASE GiveUpStart
  <2>1. /\ main' = main /\ main = "start" /\ Stopping(Abandoned)
        /\ UNCHANGED <<cur, handles, proc, exit, how>>
    BY <1>8 DEF GiveUpStart, Checking
  <2>2. StopIsHonest'
    BY <2>1, StoppingHonest, ProcessesKept DEF StopIsHonest
  <2> QED
    BY <2>1, <2>2, ProcessesKept DEF Care, AboutMember, Tracked, Honest, NothingAfter
<1>9. CASE GivenUp
  <2>1. cur \in Members /\ Stopped(cur) /\ loop = "stop"
    BY <1>9 DEF GivenUp, AboutMember, Abandoned
  <2>2. Gone(cur)
    BY <2>1 DEF Honest, StopIsHonest, KnownIsGone, Awaited, Abandoned
  <2>3. \A m \in Members : ~Gone(m) => m \in handles
    BY <2>2 DEF Tracked
  <2> QED
    BY <1>9, <2>3, ToStop DEF GivenUp, Throws
<1>10. ASSUME NEW last \in BOOLEAN, StopAll(last) PROVE Care'
  <2>1. \A m \in Members : ~Gone(m) => m \in handles
    BY <1>10 DEF Tracked, StopAll
  <2>2. loop' # "stop"
    BY <1>10 DEF StopAll, TypeOK
  <2> QED
    BY <1>10, <2>1, <2>2, ToStop DEF StopAll
<1>11. CASE AllStopped
  <2>1. \A m \in Members : Gone(m)
    BY <1>11 DEF AllStopped, Tracked, Honest, StopIsHonest, KnownIsGone, Awaited
  <2>2. main' \in {"over", "ready"} /\ loop' = loop /\ loop # "stop" /\ handles' = {}
    BY <1>11 DEF AllStopped, TypeOK
  <2> QED
    BY <1>11, <2>1, <2>2, ProcessesKept
    DEF AllStopped, system, Care, AboutMember, Tracked, Honest, StopIsHonest, Awaited, NothingAfter
<1> QED
  BY <1>1, <1>2, <1>3, <1>4, <1>5, <1>6, <1>7, <1>8, <1>9, <1>10, <1>11 DEF Main

-----------------------------------------------------------------------------
(***************************************************************************)
(* What the operating system and the timers do.                            *)
(***************************************************************************)

\* A process that ends only makes more processes gone.
LEMMA DeadCare ==
    ASSUME IInv, NEW m \in Members, NEW why \in {"code", "signal"}, Dead(m, why)
    PROVE  Care'
<1> USE DEF IInv
<1>1. \A n \in Members : Gone(n) => Gone(n)'
  BY DEF Dead, Gone, TypeOK
<1>2. EndIsTold'
  BY DEF Dead, TypeOK, Honest, EndIsTold
<1> QED
  BY <1>1, <1>2
  DEF Dead, harness, Care, AboutMember, Tracked, Honest, KnownIsGone, StopIsHonest, Known, Awaited,
      Abandoned, Stopped, NothingAfter

\* The exit event, and nothing else, makes a stop that waits count as done.
LEMMA ExitEventCare ==
    ASSUME IInv, NEW m \in Members, ExitEvent(m)
    PROVE  Care'
<1> USE DEF IInv
<1>1. \A n \in Members : n # m => exit'[n] = exit[n] /\ stop'[n] = stop[n]
  BY DEF ExitEvent, TypeOK
<1>2. Known(m)' /\ Gone(m)'
  BY DEF ExitEvent, TypeOK, Known, Gone, Honest, EndIsTold
<1>3. \A n \in Members : Gone(n)' <=> Gone(n)
  BY DEF ExitEvent, Gone
<1>4. KnownIsGone'
  BY <1>1, <1>2, <1>3 DEF Honest, KnownIsGone, Known
<1>5. StopIsHonest'
  BY <1>1, <1>2 DEF ExitEvent, Honest, StopIsHonest, Known, Awaited, Abandoned, Stopped
<1> QED
  BY <1>3, <1>4, <1>5
  DEF ExitEvent, Care, AboutMember, Tracked, Honest, EndIsTold, NothingAfter

LEMMA OtherCare == ASSUME IInv, System \/ Timers PROVE Care'
<1> USE DEF IInv
<1>1. ASSUME NEW m \in Members, Binds(m) PROVE Care'
  <2>1. \A n \in Members : Gone(n)' <=> Gone(n)
    BY <1>1 DEF Binds, Gone, TypeOK
  <2>2. EndIsTold'
    BY <1>1 DEF Binds, TypeOK, Honest, EndIsTold
  <2> QED
    BY <1>1, <2>1, <2>2
    DEF Binds, harness, Care, AboutMember, Tracked, Honest, KnownIsGone, StopIsHonest, Known,
        Awaited, Abandoned, Stopped, NothingAfter
<1>2. ASSUME NEW m \in Members, Exits(m) \/ Killed(m) PROVE Care'
  BY <1>2, DeadCare DEF Exits, Killed
<1>3. ASSUME NEW m \in Members, ExitEvent(m) PROVE Care'
  BY <1>3, ExitEventCare
<1>4. ASSUME NEW p \in Ports, TakePort(p) PROVE Care'
  BY <1>4, NothingStopped DEF TakePort, harness
<1>5. CASE Deadline
  BY <1>5, NothingStopped DEF Deadline, system
<1>6. ASSUME NEW m \in Members, StopOverdue(m) PROVE Care'
  <2>1. \A n \in Members : Stopped(n)' => Stopped(n)
    BY <1>6 DEF StopOverdue, TypeOK, Stopped
  <2>2. UNCHANGED <<main, cur, loop, handles, proc, exit, how>>
    BY <1>6 DEF StopOverdue
  <2> QED
    BY <2>1, <2>2, ProcessesKept
    DEF Care, AboutMember, Tracked, Honest, StopIsHonest, Awaited, Abandoned, NothingAfter
<1> QED
  BY <1>1, <1>2, <1>3, <1>4, <1>5, <1>6 DEF System, Timers

-----------------------------------------------------------------------------
(***************************************************************************)
(* The theorems.                                                           *)
(***************************************************************************)

LEMMA Step == IInv /\ [Next]_vars => IInv'
<1> SUFFICES ASSUME IInv, [Next]_vars PROVE IInv'
  OBVIOUS
<1>1. CASE Main
  BY <1>1, MainType, MainCare DEF IInv, Care
<1>2. CASE System \/ Timers
  BY <1>2, OtherType, OtherCare DEF IInv, Care
<1>3. CASE UNCHANGED vars
  <2>1. TypeOK'
    BY <1>3 DEF IInv, TypeOK, vars
  <2>2. Care'
    BY <1>3, NothingStopped DEF vars
  <2> QED
    BY <2>1, <2>2 DEF IInv, Care
<1> QED
  BY <1>1, <1>2, <1>3 DEF Next

\* Whatever is checked of a state follows from IInv, which every state satisfies.
THEOREM Inductive == Spec => []IInv
  BY InitIInv, Step, PTL DEF Spec

\* The variables of the harness and of the operating system keep their types.
THEOREM TypeCorrect == Spec => []TypeOK
  BY Inductive, PTL DEF IInv

\* Whatever is running is in nodes[], where the finally block looks for it,
\* or is the member startNode() is dealing with, which stops it if it gives up.
THEOREM NothingUntracked == Spec => []Tracked
  BY Inductive, PTL DEF IInv

\* What child.exitCode or child.signalCode says is so, and a stop that main()
\* waits for returns only when the exit event of its process came.
THEOREM HarnessIsHonest == Spec => []Honest
  BY Inductive, PTL DEF IInv

\* A run that is over has left no process, however its starts failed.
THEOREM NothingLeft == Spec => []NoProcessLeft
<1>1. IInv => NoProcessLeft
  BY DEF IInv, NoProcessLeft, NothingAfter, Tracked
<1> QED
  BY <1>1, Inductive, PTL

\* No two processes of a member at the same time.
THEOREM OneAtATime == Spec => OneProcessPerMember
<1> DEFINE Replaced == \A m \in Members : proc'[m] = "booting" => proc[m] = "booting" \/ Gone(m)
<1>1. ASSUME IInv, Next PROVE Replaced
  <2> SUFFICES ASSUME NEW n \in Members, proc'[n] = "booting", proc[n] # "booting"
               PROVE  Gone(n)
    OBVIOUS
  <2> USE DEF IInv
  <2>1. ASSUME NEW m \in Members, Spawn(m) PROVE Gone(n)
    <3>1. Gone(m)
      BY <1>1, <2>1, SpawnReplaces DEF Spawn
    <3>2. n = m
      BY <1>1, <2>1 DEF Spawn, TypeOK
    <3> QED
      BY <3>1, <3>2
  <2>2. CASE Main /\ proc' = proc
    BY <2>2
  <2>3. CASE System \/ Timers
    BY <1>1, <2>3
    DEF System, Timers, Binds, Exits, Killed, Dead, ExitEvent, TakePort, Deadline, StopOverdue,
        TypeOK, harness, system
  <2>4. Main => proc' = proc \/ \E m \in Members : Spawn(m)
    BY DEF Main, PickPort, ClosePorts, Crash, StartThrows, Fetch, FetchHealthy, FetchFails,
           GiveUpStart, GivenUp, StopAll, AllStopped, system
  <2> QED
    BY <1>1, <2>1, <2>2, <2>3, <2>4 DEF Next
<1>2. IInv /\ [Next]_vars => [Replaced]_vars
  BY <1>1
<1> QED
  BY <1>2, Inductive, PTL DEF Spec, OneProcessPerMember

-----------------------------------------------------------------------------
(***************************************************************************)
(* Ports.                                                                  *)
(***************************************************************************)

\* No two members get the same port.
PortsApart ==
    \A m, n \in Members : picked[m] = picked[n] /\ picked[m] # Nobody => m = n

\* pickPorts() listens on what it picked until the last port is picked.
HeldOpen ==
    main = "ports" => \A m \in Members : picked[m] # Nobody => owner[picked[m]] = Harness

\* It is because they are all held open that listen(0) cannot return a port twice.
THEOREM PortsDiffer == Spec => []PortsApart
<1> DEFINE Held == PortsApart /\ HeldOpen
<1>1. Init => Held
  BY DEF Init, PortsApart, HeldOpen
<1>2. ASSUME IInv, Held, [Next]_vars PROVE Held'
  <2> USE DEF IInv, Care
  <2>1. ASSUME NEW m \in Members, NEW p \in Ports, PickPort(m, p) PROVE Held'
    <3>1. /\ picked' = [picked EXCEPT ![m] = p] /\ owner' = [owner EXCEPT ![p] = Harness]
          /\ main = "ports" /\ owner[p] = Nobody
      BY <2>1 DEF PickPort, HoldsToo
    <3>2. \A n \in Members : picked[n] # Nobody => picked[n] # p /\ picked[n] \in Ports
      BY <1>2, <3>1, LifecycleAssumption DEF HeldOpen, TypeOK
    <3> QED
      BY <1>2, <3>1, <3>2 DEF PortsApart, HeldOpen, TypeOK
  <2>2. CASE ClosePorts
    BY <1>2, <2>2 DEF ClosePorts, PortsApart, HeldOpen
  <2>3. ASSUME NEW p \in Ports, TakePort(p) PROVE Held'
    BY <1>2, <2>3, LifecycleAssumption DEF TakePort, harness, PortsApart, HeldOpen, TypeOK
  <2>4. ASSUME picked' = picked, main' # "ports" PROVE Held'
    BY <1>2, <2>4 DEF PortsApart, HeldOpen
  <2>5. ASSUME UNCHANGED <<picked, owner, main>> PROVE Held'
    BY <1>2, <2>5 DEF PortsApart, HeldOpen
  <2>6. ASSUME NEW m \in Members, Dead(m, "code") \/ Dead(m, "signal") PROVE Held'
    BY <1>2, <2>6, LifecycleAssumption DEF Dead, harness, PortsApart, HeldOpen, TypeOK
  <2>7. ASSUME NEW m \in Members, Binds(m) PROVE Held'
    <3>1. UNCHANGED <<picked, main>> /\ owner[picked[m]] = Nobody
          /\ owner' = [owner EXCEPT ![picked[m]] = m]
      BY <2>7 DEF Binds, harness
    <3>2. main = "ports" => picked[m] = Nobody
      BY <1>2, <3>1, LifecycleAssumption DEF HeldOpen
    <3>3. main = "ports" => owner' = owner
      BY <1>2, <3>1, <3>2, LifecycleAssumption DEF TypeOK
    <3> QED
      BY <1>2, <3>1, <3>3 DEF PortsApart, HeldOpen
  <2>8. Main => \/ \E m \in Members, p \in Ports : PickPort(m, p)
                \/ ClosePorts
                \/ picked' = picked /\ main' # "ports"
    BY <1>2
    DEF Main, Spawn, Crash, StartThrows, Throws, Fetch, FetchHealthy, FetchFails, GiveUpStart,
        GivenUp, StopAll, AllStopped, Checking, system
  <2>9. System => \/ \E p \in Ports : TakePort(p)
                  \/ \E m \in Members : Binds(m) \/ Dead(m, "code") \/ Dead(m, "signal")
                  \/ UNCHANGED <<picked, owner, main>>
    BY DEF System, Exits, Killed, ExitEvent
  <2>10. Timers => UNCHANGED <<picked, owner, main>>
    BY DEF Timers, Deadline, StopOverdue, system
  <2> QED
    BY <1>2, <2>1, <2>2, <2>3, <2>4, <2>5, <2>6, <2>7, <2>8, <2>9, <2>10 DEF Next, vars
<1> QED
  BY <1>1, <1>2, Inductive, PTL DEF Spec
=============================================================================
