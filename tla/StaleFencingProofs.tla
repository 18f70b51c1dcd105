------------------------ MODULE StaleFencingProofs ------------------------
(***************************************************************************)
(* Proofs about StaleFencingRun, whether the cluster is honest or answers  *)
(* anything, for any further keys and holders and any bounds.              *)
(*                                                                         *)
(* The scenario is one script, so the invariant says what each place in it *)
(* has established: which writes the downstream has in its history and     *)
(* whose token is newer than whose (Story), and how long the history is    *)
(* (Length); at the end of the script this is PassedMeansFenced.  What the *)
(* evidence and the file may say in each phase is Verdict, and that no     *)
(* member is left is Tracked: what runs is in nodes[].                     *)
(***************************************************************************)
EXTENDS StaleFencingRun, FiniteSetTheorems, SequenceTheorems, TLAPS

(***************************************************************************)
(* The script, step by step.                                               *)
(***************************************************************************)

LEMMA Places ==
    /\ Len(Script) = 36
    /\ \A i \in 1..3 : Script[i] = Start(i)
    /\ \A i \in 4..12 : Script[i] = Handover[i - 3]
    /\ \A i \in 13..22 : Script[i] = LeaderCrash[i - 12]
    /\ \A i \in 23..32 : Script[i] = FullRestart[i - 22]
    /\ \A i \in 33..36 : Script[i] = LockUnion[i - 32]
<1> USE DEF Script, Handover, LeaderCrash, FullRestart, LockUnion
<1>1. Len(Script) = 36 /\ \A i \in 1..3 : Script[i] = Start(i)
  OBVIOUS
<1>2. \A i \in 4..12 : Script[i] = Handover[i - 3]
  OBVIOUS
<1>3. \A i \in 13..22 : Script[i] = LeaderCrash[i - 12]
  OBVIOUS
<1>4. \A i \in 23..32 : Script[i] = FullRestart[i - 22]
  OBVIOUS
<1>5. \A i \in 33..36 : Script[i] = LockUnion[i - 32]
  OBVIOUS
<1> HIDE DEF Script, Handover, LeaderCrash, FullRestart, LockUnion
<1> QED
  BY <1>1, <1>2, <1>3, <1>4, <1>5

LEMMA HandoverSteps ==
    /\ Script[4] = Acquire(Orders, "a", {Nobody})
    /\ Script[5] = Write("a", TRUE)
    /\ Script[6] = Simply("pause")
    /\ Script[7] = Acquire(Orders, "b", {"a"})
    /\ Script[8] = Write("b", TRUE)
    /\ Script[9] = Write("a", FALSE)
    /\ Script[10] = Renew(Orders, "a", FALSE)
    /\ Script[11] = Release(Orders, "a", FALSE)
    /\ Script[12] = Inspect("b")
<1>1. /\ Script[4] = Handover[1] /\ Script[5] = Handover[2]
     /\ Script[6] = Handover[3] /\ Script[7] = Handover[4]
     /\ Script[8] = Handover[5] /\ Script[9] = Handover[6]
     /\ Script[10] = Handover[7] /\ Script[11] = Handover[8]
     /\ Script[12] = Handover[9]
  BY Places
<1> QED
  BY <1>1 DEF Handover

LEMMA LeaderCrashSteps ==
    /\ Script[13] = Simply("findLeader")
    /\ Script[14] = Simply("crash")
    /\ Script[15] = Inspect("b")
    /\ Script[16] = Renew(Orders, "b", TRUE)
    /\ Script[17] = Simply("restart")
    /\ Script[18] = Inspect("b")
    /\ Script[19] = Release(Orders, "b", TRUE)
    /\ Script[20] = Acquire(Orders, "c", {"b"})
    /\ Script[21] = Write("c", TRUE)
    /\ Script[22] = Write("b", FALSE)
<1>1. /\ Script[13] = LeaderCrash[1] /\ Script[14] = LeaderCrash[2]
     /\ Script[15] = LeaderCrash[3] /\ Script[16] = LeaderCrash[4]
     /\ Script[17] = LeaderCrash[5] /\ Script[18] = LeaderCrash[6]
     /\ Script[19] = LeaderCrash[7] /\ Script[20] = LeaderCrash[8]
     /\ Script[21] = LeaderCrash[9] /\ Script[22] = LeaderCrash[10]
  BY Places
<1> QED
  BY <1>1 DEF LeaderCrash

LEMMA FullRestartSteps ==
    /\ Script[23] = Simply("stopAll")
    /\ Script[24] = Start(1)
    /\ Script[25] = Start(2)
    /\ Script[26] = Start(3)
    /\ Script[27] = Inspect("c")
    /\ Script[28] = Renew(Orders, "c", TRUE)
    /\ Script[29] = Release(Orders, "c", TRUE)
    /\ Script[30] = Acquire(Orders, "d", {"c"})
    /\ Script[31] = Write("d", TRUE)
    /\ Script[32] = Write("c", FALSE)
<1>1. /\ Script[23] = FullRestart[1] /\ Script[24] = FullRestart[2]
     /\ Script[25] = FullRestart[3] /\ Script[26] = FullRestart[4]
     /\ Script[27] = FullRestart[5] /\ Script[28] = FullRestart[6]
     /\ Script[29] = FullRestart[7] /\ Script[30] = FullRestart[8]
     /\ Script[31] = FullRestart[9] /\ Script[32] = FullRestart[10]
  BY Places
<1> QED
  BY <1>1 DEF FullRestart

LEMMA LockUnionSteps ==
    /\ Script[33] = Acquire(Union, "union", {})
    /\ Script[34] = Conflict({"union/b"}, "conflict")
    /\ Script[35] = Release(Union, "union", TRUE)
    /\ Script[36] = Acquire({"union/b"}, "conflict", {"union"})
<1>1. /\ Script[33] = LockUnion[1] /\ Script[34] = LockUnion[2]
     /\ Script[35] = LockUnion[3] /\ Script[36] = LockUnion[4]
  BY Places
<1> QED
  BY <1>1 DEF LockUnion

LEMMA Kinds ==
    ASSUME step \in 1..37
    PROVE  /\ Doing("start") => step \in {1, 2, 3, 24, 25, 26}
           /\ Doing("acquire") => step \in {4, 7, 20, 30, 33, 34, 36}
           /\ Doing("write") => step \in {5, 8, 9, 21, 22, 31, 32}
           /\ Doing("pause") => step \in {6}
           /\ Doing("renew") => step \in {10, 16, 28}
           /\ Doing("release") => step \in {11, 19, 29, 35}
           /\ Doing("inspect") => step \in {12, 15, 18, 27}
           /\ Doing("findLeader") => step \in {13}
           /\ Doing("crash") => step \in {14}
           /\ Doing("restart") => step \in {17}
           /\ Doing("stopAll") => step \in {23}
  BY Places, HandoverSteps, LeaderCrashSteps, FullRestartSteps, LockUnionSteps
  DEF Doing, Start, Acquire, Conflict, Write, Renew, Release, Inspect, Simply

-----------------------------------------------------------------------------
(***************************************************************************)
(* The invariant.                                                          *)
(***************************************************************************)

Locks == [holder : Holders \cup {Nobody}, token : 0..MaxToken]

Requests ==
    [kind : {"acquire", "renew", "release", "inspect"}, keys : SUBSET Keys, holder : Holders,
     token : 0..MaxToken]

\* The types, with what a proof about functions and sequences needs.
Types ==
    /\ running \subseteq Nodes /\ leader \in running \cup {0}
    /\ locks \in [Keys -> Locks] /\ newest \in 0..MaxToken
    /\ phase \in {"run", "caught", "finally", "done"}
    /\ step \in 1..37 /\ cursor \in 1..(Members + 1)
    /\ delayed \subseteq Requests /\ IsFiniteSet(delayed) /\ Cardinality(delayed) <= MaxDelayed
    /\ token \in [Holders \cup {Nobody} -> 0..MaxToken]
    /\ target \in Nodes \cup {0} /\ handles \subseteq Nodes
    /\ highestToken \in 0..MaxToken /\ history \in Seq(Entries)
    /\ failure \in {"none", "assertion", "exception"} /\ trouble \in BOOLEAN

\* The leader was found before it is crashed and started again.
TargetKnown == step > 13 => target \in Nodes

\* What runs is in nodes[], and nothing is before the first start.
Tracked ==
    /\ running \subseteq handles
    /\ step = 1 => handles = {}

\* The verdict of the evidence and of the file, from the scenario to the end.
Verdict ==
    /\ evidence = [passed |-> evidence.passed, history |-> evidence.history]
    /\ phase = "run" => failure = "none" /\ file = {}
    /\ phase = "caught" => failure # "none" /\ file = {}
    /\ phase \in {"finally", "done"} /\ failure = "none" => file = {PassedEvidence}
    /\ phase = "finally" /\ failure # "none" => \A f \in file : ~f.passed
    /\ phase = "done" => \A f \in file : f.passed => f = PassedEvidence /\ failure # "assertion"

\* At most one file.
OneFile == \A f \in file : file = {f}

\* Entry i of the history is a write of h's, with h's token.
Wrote(i, h, yes) ==
    /\ i <= Len(history)
    /\ history[i].writer = h /\ history[i].token = token[h] /\ history[i].accepted = yes

Newer(h, g) == token[h] > token[g]

\* Each grant is newer than the last one's, and each write of the script is in
\* the history with the answer the script expects.
Story ==
    /\ step > 5 => Wrote(1, "a", TRUE)
    /\ step > 7 => Newer("b", "a")
    /\ step > 8 => Wrote(2, "b", TRUE)
    /\ step > 9 => Wrote(3, "a", FALSE)
    /\ step > 20 => Newer("c", "b")
    /\ step > 21 => Wrote(4, "c", TRUE)
    /\ step > 22 => Wrote(5, "b", FALSE)
    /\ step > 30 => Newer("d", "c")
    /\ step > 31 => Wrote(6, "d", TRUE)
    /\ step > 32 => Wrote(7, "c", FALSE)

\* How many writes there were.
Length ==
    /\ step <= 5 => Len(history) = 0
    /\ step \in 6..8 => Len(history) = 1
    /\ step = 9 => Len(history) = 2
    /\ step \in 10..21 => Len(history) = 3
    /\ step = 22 => Len(history) = 4
    /\ step \in 23..31 => Len(history) = 5
    /\ step = 32 => Len(history) = 6
    /\ step >= 33 => Len(history) = 7

IInv ==
    /\ Types /\ TargetKnown
    /\ Tracked /\ NoOrphans
    /\ Verdict /\ OneFile
    /\ phase = "run" => Story /\ Length
    /\ PassedMeansFenced

-----------------------------------------------------------------------------
(***************************************************************************)
(* Types.                                                                  *)
(***************************************************************************)

\* Every step of the script, for the proofs that go through it.
LEMMA Steps ==
    ASSUME step \in 1..37
    PROVE  /\ Len(Script) = 36
           /\ Calling => step \in {4, 7, 10, 11, 12, 15, 16, 18, 19, 20, 27, 28, 29, 30, 33, 34, 35, 36}
           /\ Starting => step \in {1, 2, 3, 17, 24, 25, 26}
  BY Places, Kinds DEF Calling, Starting

\* A call asks for keys and in the name of holders of the scenario.
LEMMA RequestType == ASSUME Types, Calling PROVE Request \in Requests /\ Now.holder \in Holders
<1>1. /\ Now.do \in {"acquire", "renew", "release", "inspect"}
      /\ Now.keys \subseteq Keys
      /\ Now.holder \in Holders
  <2>1. CASE step \in {4, 7, 10, 11, 12}
    BY <2>1, HandoverSteps, RunAssumption DEF Now, Acquire, Renew, Release, Inspect, Orders
  <2>2. CASE step \in {15, 16, 18, 19, 20}
    BY <2>2, LeaderCrashSteps, RunAssumption DEF Now, Acquire, Renew, Release, Inspect, Orders
  <2>3. CASE step \in {27, 28, 29, 30}
    BY <2>3, FullRestartSteps, RunAssumption DEF Now, Acquire, Renew, Release, Inspect, Orders
  <2>4. CASE step \in {33, 34, 35, 36}
    BY <2>4, LockUnionSteps, RunAssumption DEF Now, Acquire, Conflict, Release, Union
  <2> QED
    BY <2>1, <2>2, <2>3, <2>4, Steps DEF Types
<1>2. token[Now.holder] \in 0..MaxToken /\ 0 \in 0..MaxToken
  BY <1>1, LockServiceAssumption DEF Types
<1> QED
  BY <1>1, <1>2 DEF Request, Requests

\* What executing a request leaves behind and answers has its type.
LEMMA ExecutedType ==
    ASSUME Types, NEW req \in Requests, NEW o \in Executed(req), o.newest <= MaxToken
    PROVE  /\ o.locks \in [Keys -> Locks] /\ o.newest \in 0..MaxToken
           /\ o.answer.token \in 0..MaxToken
<1> USE LockServiceAssumption
<1>1. ASSUME NEW a, a.token \in 0..MaxToken, o = Saying(a)
      PROVE  /\ o.locks \in [Keys -> Locks] /\ o.newest \in 0..MaxToken
             /\ o.answer.token \in 0..MaxToken
  BY <1>1 DEF Saying, Types
<1>2. No.token \in 0..MaxToken
  BY DEF No
<1>3. \A h, t : Yes(h, t).token = t
  BY DEF Yes
<1>4. CASE ~Honest
  BY <1>1, <1>4 DEF Executed, Anything
<1>5. CASE Honest /\ req.kind = "acquire"
  <2>1. CASE \A k \in req.keys : locks[k] = Free
    <3>1. /\ o.newest = newest + 1 /\ o.answer.token = newest + 1
          /\ o.locks = With(req.keys, [holder |-> req.holder, token |-> newest + 1])
      BY <1>5, <2>1 DEF Executed, Acquired, Yes
    <3>2. newest + 1 \in 0..MaxToken
      BY <3>1 DEF Types
    <3>3. [holder |-> req.holder, token |-> newest + 1] \in Locks
      BY <3>2 DEF Locks, Requests
    <3> QED
      BY <3>1, <3>2, <3>3 DEF With, Types
  <2>2. CASE ~\A k \in req.keys : locks[k] = Free
    BY <1>1, <1>2, <1>3, <1>5, <2>2 DEF Executed, Acquired, Types
  <2> QED
    BY <2>1, <2>2
<1>6. CASE Honest /\ req.kind = "renew"
  BY <1>1, <1>2, <1>3, <1>6 DEF Executed, Renewed, Requests
<1>7. CASE Honest /\ req.kind = "release"
  <2>1. CASE HeldAs(req.keys, req.holder, req.token)
    <3>1. /\ o.newest = newest /\ o.answer.token = 0
          /\ o.locks = With(req.keys, Free)
      BY <1>7, <2>1 DEF Executed, Released, Yes
    <3>2. Free \in Locks
      BY DEF Free, Locks
    <3> QED
      BY <3>1, <3>2 DEF With, Types
  <2> QED
    BY <1>1, <1>2, <1>7, <2>1 DEF Executed, Released
<1>8. CASE Honest /\ req.kind = "inspect"
  <2>1. \A k \in req.keys : locks[k].token \in 0..MaxToken
    BY DEF Requests, Types, Locks
  <2> QED
    BY <1>1, <1>3, <1>8, <2>1 DEF Executed, Inspected
<1> QED
  BY <1>4, <1>5, <1>6, <1>7, <1>8 DEF Requests

\* What a call leaves of the types, whatever is executed for it.
LEMMA ExecutesType ==
    ASSUME Types, NEW req \in Requests, NEW o \in Executed(req), Executes(req, o)
    PROVE  /\ locks' \in [Keys -> Locks] /\ newest' \in 0..MaxToken
           /\ UNCHANGED <<running, leader>> /\ o.answer.token \in 0..MaxToken
  BY ExecutedType DEF Executes

LEMMA CallType ==
    ASSUME Types, NEW n \in Nodes,
           AttemptAnswered(n) \/ AttemptFails(n) \/ AnswerLost(n) \/ AttemptDelayed(n)
    PROVE  Types'
<1>1. Calling /\ cursor = n /\ Request \in Requests /\ Now.holder \in Holders /\ step \in 1..36
  BY RequestType, Steps DEF AttemptAnswered, AttemptFails, AnswerLost, AttemptDelayed, Attempting,
                            Types
<1>2. n + 1 \in 1..(Members + 1) /\ 1 \in 1..(Members + 1)
  BY LockServiceAssumption DEF Nodes
<1>3. CASE AttemptAnswered(n)
  <2>1. PICK o \in Executed(Request) :
            /\ Executes(Request, o)
            /\ IF Expected(Now, o.answer)
               THEN /\ Succeeds
                    /\ token' = IF Now.do = "acquire" /\ Now.yes
                                THEN [token EXCEPT ![Now.holder] = o.answer.token] ELSE token
               ELSE Fails("assertion") /\ UNCHANGED token
    BY <1>3 DEF AttemptAnswered
  <2>2. /\ locks' \in [Keys -> Locks] /\ newest' \in 0..MaxToken
        /\ UNCHANGED <<running, leader>> /\ o.answer.token \in 0..MaxToken
    BY <1>1, <2>1, ExecutesType
  <2>3. token' \in [Holders \cup {Nobody} -> 0..MaxToken]
    BY <1>1, <2>1, <2>2 DEF Types
  <2>4. Succeeds \/ Fails("assertion")
    BY <2>1
  <2>5. /\ step' \in 1..37 /\ cursor' \in 1..(Members + 1)
        /\ phase' \in {"run", "caught", "finally", "done"}
        /\ failure' \in {"none", "assertion", "exception"}
    <3>1. CASE Succeeds
      BY <1>1, <1>2, <3>1 DEF Succeeds, Types
    <3>2. CASE Fails("assertion")
      BY <3>2 DEF Fails, Types
    <3> QED
      BY <2>4, <3>1, <3>2
  <2> QED
    BY <1>3, <2>2, <2>3, <2>5 DEF AttemptAnswered, mainVars, Types
<1>4. CASE AttemptFails(n)
  BY <1>2, <1>4 DEF AttemptFails, serviceVars, mainVars, Types
<1>5. CASE AnswerLost(n)
  <2>1. locks' \in [Keys -> Locks] /\ newest' \in 0..MaxToken /\ UNCHANGED <<running, leader>>
    BY <1>1, <1>5, ExecutesType DEF AnswerLost
  <2> QED
    BY <1>2, <1>5, <2>1 DEF AnswerLost, mainVars, Types
<1>6. CASE AttemptDelayed(n)
  <2>1. /\ delayed' = delayed \cup {Request} /\ Cardinality(delayed) < MaxDelayed
        /\ cursor' = n + 1 /\ trouble' = TRUE
        /\ UNCHANGED <<serviceVars, mainVars, phase, step, token, failure>>
    BY <1>6 DEF AttemptDelayed
  <2>2. IsFiniteSet(delayed) /\ Cardinality(delayed) \in Nat
    BY FS_CardinalityType DEF Types
  <2>3. /\ IsFiniteSet(delayed')
        /\ Cardinality(delayed') \in {Cardinality(delayed), Cardinality(delayed) + 1}
    BY <2>1, <2>2, FS_AddElement
  <2>4. delayed' \subseteq Requests /\ IsFiniteSet(delayed') /\ Cardinality(delayed') <= MaxDelayed
    BY <1>1, <2>1, <2>2, <2>3, RunAssumption DEF Types
  <2> QED
    BY <1>2, <2>1, <2>4 DEF serviceVars, mainVars, Types
<1> QED
  BY <1>3, <1>4, <1>5, <1>6

\* Steps that change neither the cluster nor what main() keeps.
LEMMA PlainType ==
    ASSUME Types,
           \/ NextRound \/ GiveUp \/ NodeFails \/ NoLeaderFound \/ SetupFails \/ Finish \/ Catch
           \/ UNCHANGED vars
    PROVE  Types'
<1>1. CASE NextRound
  BY <1>1, LockServiceAssumption DEF NextRound, serviceVars, mainVars, Types
<1>2. CASE GiveUp \/ NodeFails \/ NoLeaderFound
  BY <1>2 DEF GiveUp, NodeFails, NoLeaderFound, Fails, serviceVars, mainVars, Types
<1>3. CASE SetupFails
  BY <1>3 DEF SetupFails, serviceVars, mainVars, Types
<1>4. CASE Finish \/ Catch
  BY <1>4 DEF Finish, Catch, serviceVars, Types
<1>5. CASE UNCHANGED vars
  BY <1>5 DEF vars, Types
<1> QED
  BY <1>1, <1>2, <1>3, <1>4, <1>5

\* The first majority is needed to lead.
LEMMA LeaveType ==
    ASSUME Types, NEW nodes, Leave(nodes)
    PROVE  running' \subseteq running /\ running' \cap nodes = {} /\ leader' \in running' \cup {0}
  BY DEF Leave, Types

LEMMA StartType == Types /\ TargetKnown /\ Starting => ToStart \in Nodes /\ step \in 1..36
<1> SUFFICES ASSUME Types, TargetKnown, Starting PROVE ToStart \in Nodes /\ step \in 1..36
  OBVIOUS
<1>1. step \in {1, 2, 3, 17, 24, 25, 26}
  BY Steps DEF Types
<1>2. CASE step = 17
  BY <1>2, LeaderCrashSteps DEF ToStart, Now, Simply, TargetKnown
<1>3. CASE step \in {1, 2, 3, 24, 25, 26}
  <2>1. Now.do = "start" /\ Now.node \in 1..3
    BY <1>3, Places, FullRestartSteps DEF Now, Start
  <2> QED
    BY <1>3, <2>1, RunAssumption DEF ToStart, Nodes
<1> QED
  BY <1>1, <1>2, <1>3

LEMMA ScenarioType ==
    ASSUME Types, TargetKnown,
           NodeStarts \/ Pause \/ LeaderFound \/ Crash \/ StopAll \/ Finally
    PROVE  Types'
<1>1. step \in 1..36 => step + 1 \in 1..37 /\ 1 \in 1..(Members + 1)
  BY LockServiceAssumption
<1>2. CASE NodeStarts
  BY <1>1, <1>2, StartType DEF NodeStarts, Joins, Succeeds, Types
<1>3. CASE Pause
  <2>1. Free \in Locks /\ step \in 1..36
    BY <1>3, Kinds, LockServiceAssumption DEF Free, Locks, Pause, Types
  <2>2. LocksAfterPause \in [Keys -> Locks]
    BY <2>1 DEF LocksAfterPause, Types
  <2> QED
    BY <1>1, <1>3, <2>1, <2>2 DEF Pause, Succeeds, mainVars, Types
<1>4. CASE LeaderFound
  <2>1. step \in 1..36
    BY <1>4, Kinds DEF LeaderFound, Types
  <2> QED
    BY <1>1, <1>4, <2>1 DEF LeaderFound, Succeeds, serviceVars, Types
<1>5. CASE Crash
  <2>1. step \in 1..36
    BY <1>5, Kinds DEF Crash, Types
  <2> QED
    BY <1>1, <1>5, <2>1, LeaveType DEF Crash, Succeeds, mainVars, Types
<1>6. CASE StopAll
  <2>1. step \in 1..36
    BY <1>6, Kinds DEF StopAll, Types
  <2> QED
    BY <1>1, <1>6, <2>1, LeaveType DEF StopAll, Succeeds, Types
<1>7. CASE Finally
  BY <1>7, LeaveType DEF Finally, Types
<1> QED
  BY <1>2, <1>3, <1>4, <1>5, <1>6, <1>7

\* The scenario's writers are holders.
LEMMA Writers ==
    ASSUME Types, Doing("write")
    PROVE  Now.holder \in Holders /\ step \in 1..36 /\ token[Now.holder] \in 0..MaxToken
<1>1. step \in {5, 8, 9, 21, 22, 31, 32}
  BY Kinds DEF Types
<1>2. Now.holder \in {"a", "b", "c", "d"}
  BY <1>1, HandoverSteps, LeaderCrashSteps, FullRestartSteps DEF Now, Write
<1> QED
  BY <1>1, <1>2, RunAssumption DEF Types

LEMMA WriteType == ASSUME Types, WriteAnswered \/ WriteTimesOut PROVE Types'
<1> DEFINE t == token[Now.holder]
           entry == [writer |-> Now.holder, token |-> t, accepted |-> Accepts(t)]
<1>1. Now.holder \in Holders /\ step \in 1..36 /\ t \in 0..MaxToken
  BY Writers DEF WriteAnswered, WriteTimesOut
<1>2. t # 0 => entry \in Entries
  BY <1>1 DEF Entries, Accepts
<1>3. ASSUME ServerHandles(Now.holder, t)
      PROVE  highestToken' \in 0..MaxToken /\ history' \in Seq(Entries)
  <2>1. CASE t = 0
    BY <1>3, <2>1 DEF ServerHandles, Types
  <2>2. CASE t # 0
    <3>1. history' = Append(history, entry) /\ highestToken' \in {t, highestToken}
      BY <1>3, <2>2 DEF ServerHandles
    <3>2. history' \in Seq(Entries)
      BY <1>2, <2>2, <3>1, AppendProperties DEF Types
    <3> QED
      BY <1>1, <3>1, <3>2 DEF Types
  <2> QED
    BY <2>1, <2>2
<1>4. highestToken' \in 0..MaxToken /\ history' \in Seq(Entries)
  BY <1>3 DEF WriteAnswered, WriteTimesOut, Types
<1>5. step + 1 \in 1..37 /\ 1 \in 1..(Members + 1)
  BY <1>1, LockServiceAssumption
<1> QED
  BY <1>4, <1>5 DEF WriteAnswered, WriteTimesOut, Succeeds, Fails, serviceVars, Types

LEMMA EnvironmentType == ASSUME Types, Environment PROVE Types'
<1>1. ASSUME NEW n \in Nodes, Elect(n) PROVE Types'
  BY <1>1 DEF Elect, Elected, mainVars, Types
<1>2. ASSUME NEW k \in Keys, Lapse(k) PROVE Types'
  <2>1. Lapsed(k) \in [Keys -> Locks]
    BY LockServiceAssumption DEF Lapsed, Free, Locks, Types
  <2> QED
    BY <1>2, <2>1 DEF Lapse, mainVars, Types
<1>3. ASSUME NEW req \in delayed, DelayedArrives(req) PROVE Types'
  <2>1. locks' \in [Keys -> Locks] /\ newest' \in 0..MaxToken /\ UNCHANGED <<running, leader>>
    BY <1>3, ExecutesType DEF DelayedArrives, Types
  <2>2. delayed' = delayed \ {req}
    BY <1>3 DEF DelayedArrives
  <2>3. /\ IsFiniteSet(delayed') /\ Cardinality(delayed') = Cardinality(delayed) - 1
        /\ Cardinality(delayed) \in Nat
    BY <2>2, FS_RemoveElement, FS_CardinalityType DEF Types
  <2>4. delayed' \subseteq Requests /\ Cardinality(delayed') <= MaxDelayed
    BY <2>2, <2>3, RunAssumption DEF Types
  <2> QED
    BY <1>3, <2>1, <2>3, <2>4 DEF DelayedArrives, mainVars, Types
<1> QED
  BY <1>1, <1>2, <1>3 DEF Environment

\* The steps of the scenario: those of main() inside its try block.
Scenario ==
    \/ NodeStarts \/ NodeFails \/ Pause \/ LeaderFound \/ NoLeaderFound \/ Crash \/ StopAll
    \/ (\E n \in Nodes :
            AttemptAnswered(n) \/ AttemptFails(n) \/ AnswerLost(n) \/ AttemptDelayed(n))
    \/ NextRound \/ GiveUp \/ WriteAnswered \/ WriteTimesOut

LEMMA TypesKept == ASSUME Types, TargetKnown, [Next]_vars PROVE Types'
  BY CallType, PlainType, ScenarioType, WriteType, EnvironmentType DEF Next, Main

-----------------------------------------------------------------------------
(***************************************************************************)
(* Where main() is.                                                        *)
(***************************************************************************)

\* The scenario goes on or is caught; it leaves the evidence alone.
LEMMA ScenarioMoves ==
    ASSUME Scenario
    PROVE  /\ phase = "run" /\ UNCHANGED <<evidence, file>>
           /\ \/ phase' = "run" /\ failure' = failure /\ step' \in {step, step + 1}
              \/ phase' = "caught" /\ failure' # "none" /\ step' = step
<1> DEFINE Moves == \/ phase' = "run" /\ failure' = failure /\ step' \in {step, step + 1}
                    \/ phase' = "caught" /\ failure' # "none" /\ step' = step
<1>1. ASSUME NodeStarts \/ NodeFails \/ Pause \/ LeaderFound \/ NoLeaderFound \/ Crash \/ StopAll
      PROVE  phase = "run" /\ UNCHANGED <<evidence, file>> /\ Moves
  BY <1>1 DEF NodeStarts, NodeFails, Pause, LeaderFound, NoLeaderFound, Crash, StopAll, Starting,
              Doing, Succeeds, Fails, mainVars
<1>2. ASSUME NEW n \in Nodes,
             AttemptAnswered(n) \/ AttemptFails(n) \/ AnswerLost(n) \/ AttemptDelayed(n)
      PROVE  phase = "run" /\ UNCHANGED <<evidence, file>> /\ Moves
  <2>1. phase = "run"
    BY <1>2 DEF AttemptAnswered, AttemptFails, AnswerLost, AttemptDelayed, Attempting, Calling, Doing
  <2>2. AttemptAnswered(n) => Succeeds \/ Fails("assertion")
    BY DEF AttemptAnswered
  <2>3. UNCHANGED <<evidence, file>>
    BY <1>2 DEF AttemptAnswered, AttemptFails, AnswerLost, AttemptDelayed, mainVars
  <2>4. AttemptFails(n) \/ AnswerLost(n) \/ AttemptDelayed(n) => Moves
    BY <2>1 DEF AttemptFails, AnswerLost, AttemptDelayed
  <2> QED
    BY <1>2, <2>1, <2>2, <2>3, <2>4 DEF Succeeds, Fails
<1>3. ASSUME NextRound \/ GiveUp
      PROVE  phase = "run" /\ UNCHANGED <<evidence, file>> /\ Moves
  BY <1>3 DEF NextRound, GiveUp, Calling, Doing, Fails, mainVars
<1>4. ASSUME WriteAnswered \/ WriteTimesOut
      PROVE  phase = "run" /\ UNCHANGED <<evidence, file>> /\ Moves
  <2>1. phase = "run" /\ UNCHANGED <<evidence, file>>
    BY <1>4 DEF WriteAnswered, WriteTimesOut, Doing
  <2>2. Succeeds \/ Fails("assertion") \/ Fails("exception")
    BY <1>4 DEF WriteAnswered, WriteTimesOut
  <2> QED
    BY <2>1, <2>2 DEF Succeeds, Fails
<1> QED
  BY <1>1, <1>2, <1>3, <1>4 DEF Scenario

\* The environment looks at the cluster and at late requests only.
LEMMA EnvironmentMoves ==
    ASSUME Environment
    PROVE  phase = "run"
           /\ UNCHANGED <<running, mainVars, phase, step, cursor, token, failure>>
  BY DEF Environment, Elect, Elected, Lapse, DelayedArrives, Executes

LEMMA MainSteps ==
    ASSUME [Next]_vars
    PROVE  \/ Scenario \/ SetupFails \/ Finish \/ Catch \/ Finally \/ Environment \/ UNCHANGED vars
  BY DEF Next, Main, Scenario

\* What the members that run and nodes[] become in the scenario.
LEMMA ScenarioMembers ==
    ASSUME Types, Scenario
    PROVE  \/ UNCHANGED <<running, handles>>
           \/ /\ step' = step + 1
              /\ \/ running' = running \cup {ToStart} /\ handles' = handles \cup {ToStart}
                 \/ running' \subseteq running /\ handles' = handles
                 \/ running' = running \ handles /\ handles' = {}
<1>1. ASSUME NodeStarts \/ Crash \/ StopAll
      PROVE  /\ step' = step + 1
             /\ \/ running' = running \cup {ToStart} /\ handles' = handles \cup {ToStart}
                \/ running' \subseteq running /\ handles' = handles
                \/ running' = running \ handles /\ handles' = {}
  BY <1>1 DEF NodeStarts, Joins, Crash, StopAll, Stopped, Leave, Succeeds, mainVars
<1>2. ASSUME NEW n \in Nodes,
             AttemptAnswered(n) \/ AttemptFails(n) \/ AnswerLost(n) \/ AttemptDelayed(n)
      PROVE  UNCHANGED <<running, handles>>
  BY <1>2 DEF AttemptAnswered, AttemptFails, AnswerLost, AttemptDelayed, Executes, serviceVars,
              mainVars
<1>3. ASSUME \/ NodeFails \/ Pause \/ LeaderFound \/ NoLeaderFound \/ NextRound \/ GiveUp
             \/ WriteAnswered \/ WriteTimesOut
      PROVE  UNCHANGED <<running, handles>>
  BY <1>3 DEF NodeFails, Pause, LeaderFound, NoLeaderFound, NextRound, GiveUp, WriteAnswered,
              WriteTimesOut, serviceVars, mainVars
<1> QED
  BY <1>1, <1>2, <1>3 DEF Scenario

LEMMA TrackedKept ==
    ASSUME Types, Tracked, NoOrphans, [Next]_vars
    PROVE  Tracked' /\ NoOrphans'
<1>1. CASE Scenario
  BY <1>1, ScenarioMoves, ScenarioMembers DEF Types, Tracked, NoOrphans
<1>2. CASE SetupFails
  BY <1>2 DEF SetupFails, serviceVars, mainVars, Tracked, NoOrphans
<1>3. CASE Finish \/ Catch
  BY <1>3 DEF Finish, Catch, serviceVars, Tracked, NoOrphans
<1>4. CASE Finally
  BY <1>4, LeaveType DEF Finally, Leave, Tracked, NoOrphans
<1>5. CASE Environment
  BY <1>5, EnvironmentMoves DEF mainVars, Tracked, NoOrphans
<1>6. CASE UNCHANGED vars
  BY <1>6 DEF vars, Tracked, NoOrphans
<1> QED
  BY MainSteps, <1>1, <1>2, <1>3, <1>4, <1>5, <1>6

LEMMA TargetKept == ASSUME Types, TargetKnown, [Next]_vars PROVE TargetKnown'
<1>1. CASE LeaderFound
  BY <1>1, Kinds DEF LeaderFound, Types, TargetKnown
<1>2. CASE Scenario /\ ~LeaderFound
  <2>1. target' = target
    BY <1>2 DEF Scenario, NodeStarts, NodeFails, Pause, NoLeaderFound, Crash, StopAll,
                AttemptAnswered, AttemptFails, AnswerLost, AttemptDelayed, NextRound, GiveUp,
                WriteAnswered, WriteTimesOut, mainVars
  <2>2. ASSUME step = 13 PROVE step' = 13
    <3>1. /\ ~Starting /\ ~Calling
          /\ ~Doing("pause") /\ ~Doing("crash") /\ ~Doing("stopAll") /\ ~Doing("write")
      BY <2>2, Steps, Kinds DEF Types
    <3>2. NoLeaderFound
      BY <1>2, <3>1
      DEF Scenario, NodeStarts, NodeFails, Pause, Crash, StopAll, AttemptAnswered, AttemptFails,
          AnswerLost, AttemptDelayed, Attempting, NextRound, GiveUp, WriteAnswered, WriteTimesOut
    <3> QED
      BY <2>2, <3>2 DEF NoLeaderFound, Fails
  <2> QED
    BY <1>2, <2>1, <2>2, ScenarioMoves DEF Types, TargetKnown
<1>3. CASE SetupFails \/ Finish \/ Catch \/ Finally
  BY <1>3 DEF SetupFails, Finish, Catch, Finally, mainVars, TargetKnown
<1>4. CASE Environment
  BY <1>4, EnvironmentMoves DEF mainVars, TargetKnown
<1>5. CASE UNCHANGED vars
  BY <1>5 DEF vars, TargetKnown
<1> QED
  BY MainSteps, <1>1, <1>2, <1>3, <1>4, <1>5

-----------------------------------------------------------------------------
(***************************************************************************)
(* The verdict.                                                            *)
(***************************************************************************)

LEMMA VerdictKept == ASSUME Types, Verdict, [Next]_vars PROVE Verdict'
<1>1. CASE Scenario
  BY <1>1, ScenarioMoves DEF Types, Verdict
<1>2. CASE SetupFails
  BY <1>2 DEF SetupFails, mainVars, Types, Verdict
<1>3. CASE Finish
  <2>1. /\ evidence' = PassedEvidence /\ PassedEvidence' = PassedEvidence
        /\ evidence' = [passed |-> evidence'.passed, history |-> evidence'.history]
    BY <1>3 DEF Finish, PassedEvidence
  <2> QED
    BY <1>3, <2>1 DEF Finish, Types, Verdict
<1>4. CASE Catch
  <2>1. /\ evidence' = [passed |-> FALSE, history |-> evidence.history]
        /\ evidence' = [passed |-> evidence'.passed, history |-> evidence'.history]
    BY <1>4 DEF Catch, CaughtEvidence, Verdict
  <2> QED
    BY <1>4, <2>1 DEF Catch, Verdict
<1>5. CASE Finally
  <2>1. /\ evidence' = [passed |-> evidence.passed, history |-> history]
        /\ evidence' = [passed |-> evidence'.passed, history |-> evidence'.history]
    BY <1>5 DEF Finally, Verdict
  <2>2. PassedEvidence' = PassedEvidence
    BY <1>5 DEF Finally, PassedEvidence
  <2> QED
    BY <1>5, <2>1, <2>2 DEF Finally, Types, Verdict
<1>6. CASE Environment
  BY <1>6, EnvironmentMoves DEF mainVars, PassedEvidence, Verdict
<1>7. CASE UNCHANGED vars
  BY <1>7 DEF vars, PassedEvidence, Verdict
<1> QED
  BY MainSteps, <1>1, <1>2, <1>3, <1>4, <1>5, <1>6, <1>7

LEMMA OneFileKept == ASSUME OneFile, [Next]_vars PROVE OneFile'
<1>1. file' = file \/ file' = {evidence'}
  <2>1. Scenario \/ Environment \/ UNCHANGED vars => file' = file
    BY ScenarioMoves, EnvironmentMoves DEF mainVars, vars
  <2> QED
    BY <2>1, MainSteps DEF SetupFails, Finish, Catch, Finally, mainVars
<1> QED
  BY <1>1 DEF OneFile

-----------------------------------------------------------------------------
(***************************************************************************)
(* The story the scenario tells, whatever the cluster answers.             *)
(***************************************************************************)

\* The steps that are told of: the grants of "a" to "d", and the writes.
Told == {4, 5, 7, 8, 9, 20, 21, 22, 30, 31, 32}

LEMMA StoryStays ==
    ASSUME Types, Story, Length, UNCHANGED <<token, history>>,
           step' = step \/ (step' = step + 1 /\ (step \notin Told \/ step = 4))
    PROVE  Story' /\ Length'
<1>1. Story'
  BY DEF Types, Story, Wrote, Newer, Told
<1>2. Length'
  <2>1. step \in 1..37 /\ history' = history
    BY DEF Types
  <2>2. CASE step' = step
    BY <2>1, <2>2 DEF Length
  <2>3. CASE step' = step + 1 /\ (step \notin Told \/ step = 4)
    BY <2>1, <2>3 DEF Length, Told
  <2> QED
    BY <2>2, <2>3
<1> QED
  BY <1>1, <1>2

\* A grant to h that is newer than g's is told, and is no other holder's.
LEMMA GrantTold ==
    ASSUME Types, Story, Length, NEW n \in Nodes, AttemptAnswered(n), Succeeds
    PROVE  Story' /\ Length'
<1>1. Calling /\ history' = history /\ step' = step + 1
  BY DEF AttemptAnswered, Attempting, mainVars, Succeeds
<1>2. PICK o \in Executed(Request) :
          /\ Executes(Request, o)
          /\ IF Expected(Now, o.answer)
             THEN /\ Succeeds
                  /\ token' = IF Now.do = "acquire" /\ Now.yes
                              THEN [token EXCEPT ![Now.holder] = o.answer.token] ELSE token
             ELSE Fails("assertion") /\ UNCHANGED token
  BY DEF AttemptAnswered
<1>3. Expected(Now, o.answer)
  BY <1>1, <1>2 DEF Fails, Types
<1>4. ASSUME NEW h, NEW over, Now.do = "acquire", Now.yes, Now.holder = h, Now.over = over
      PROVE  /\ \A g \in Holders \cup {Nobody} : g # h => token'[g] = token[g]
             /\ \A g \in over : token'[h] > token[g]
  <2>1. Now.holder \in Holders
    BY <1>1, RequestType
  <2>2. token' = [token EXCEPT ![h] = o.answer.token]
    BY <1>2, <1>3, <1>4
  <2>3. \A g \in over : o.answer.token > token[g]
    BY <1>3, <1>4 DEF Expected
  <2> QED
    BY <1>4, <2>1, <2>2, <2>3 DEF Types
<1>5. /\ {"a", "b", "c", "d", "union", "conflict"} \subseteq Holders
      /\ history \in Seq(Entries) /\ Len(history) \in Nat
  BY RunAssumption DEF Types
<1>6. CASE step = 4
  BY <1>1, <1>5, <1>6 DEF Story, Length
<1>7. CASE step = 7
  <2>1. Now.do = "acquire" /\ Now.yes /\ Now.holder = "b" /\ Now.over = {"a"}
    BY <1>7, HandoverSteps DEF Now, Acquire
  <2>2. token'["a"] = token["a"] /\ token'["b"] > token["a"]
    BY <1>4, <1>5, <2>1
  <2> QED
    BY <1>1, <1>5, <1>7, <2>2 DEF Story, Length, Wrote, Newer
<1>8. CASE step = 20
  <2>1. Now.do = "acquire" /\ Now.yes /\ Now.holder = "c" /\ Now.over = {"b"}
    BY <1>8, LeaderCrashSteps DEF Now, Acquire
  <2>2. token'["a"] = token["a"] /\ token'["b"] = token["b"] /\ token'["c"] > token["b"]
    BY <1>4, <1>5, <2>1
  <2> QED
    BY <1>1, <1>5, <1>8, <2>2 DEF Story, Length, Wrote, Newer
<1>9. CASE step = 30
  <2>1. Now.do = "acquire" /\ Now.yes /\ Now.holder = "d" /\ Now.over = {"c"}
    BY <1>9, FullRestartSteps DEF Now, Acquire
  <2>2. /\ token'["a"] = token["a"] /\ token'["b"] = token["b"] /\ token'["c"] = token["c"]
        /\ token'["d"] > token["c"]
    BY <1>4, <1>5, <2>1
  <2> QED
    BY <1>1, <1>5, <1>9, <2>2 DEF Story, Length, Wrote, Newer
<1>10. CASE step \in {33, 36}
  <2>1. Now.do = "acquire" /\ Now.yes /\ Now.holder \in {"union", "conflict"}
    BY <1>10, LockUnionSteps DEF Now, Acquire
  <2>2. \A g \in {"a", "b", "c", "d"} : token'[g] = token[g]
    BY <1>4, <1>5, <2>1
  <2> QED
    BY <1>1, <1>5, <1>10, <2>2 DEF Story, Length, Wrote, Newer
<1>11. CASE step \notin {4, 7, 20, 30, 33, 36}
  <2>1. ~(Now.do = "acquire" /\ Now.yes)
    <3>1. CASE step = 34
      BY <3>1, LockUnionSteps DEF Now, Conflict
    <3>2. CASE step # 34
      BY <1>1, <1>11, <3>2, Kinds DEF Calling, Doing, Now, Types
    <3> QED
      BY <3>1, <3>2
  <2>2. token' = token
    BY <1>2, <1>3, <2>1
  <2>3. step \notin Told
    BY <1>1, <1>11, Steps DEF Told, Types
  <2> QED
    BY <1>1, <2>2, <2>3, StoryStays
<1> QED
  BY <1>6, <1>7, <1>8, <1>9, <1>10, <1>11

\* What is answered as the script expects is told.
LEMMA WriteTold ==
    ASSUME Types, Story, Length, WriteAnswered, Succeeds
    PROVE  Story' /\ Length'
<1> DEFINE h == Now.holder
           entry == [writer |-> h, token |-> token[h], accepted |-> Accepts(token[h])]
<1>1. Doing("write") /\ step \in {5, 8, 9, 21, 22, 31, 32} /\ token' = token /\ step' = step + 1
  BY Kinds DEF WriteAnswered, Succeeds, Types
<1>2. WriteExpected(Now)
  BY <1>1 DEF WriteAnswered, Fails, Types
<1>3. history' = Append(history, entry) /\ (Accepts(token[h]) <=> Now.accepted)
  BY <1>2 DEF WriteAnswered, ServerHandles, WriteExpected
<1>4. /\ Len(history') = Len(history) + 1 /\ history'[Len(history) + 1] = entry
      /\ \A i \in 1..Len(history) : history'[i] = history[i]
      /\ Len(history) \in Nat
  BY <1>3 DEF Types
<1>5. /\ entry.writer = h /\ entry.token = token[h] /\ entry.accepted \in BOOLEAN
      /\ entry.accepted <=> Now.accepted
  <2>1. Accepts(token[h]) \in BOOLEAN
    BY DEF Accepts
  <2> QED
    BY <1>3, <2>1
<1> HIDE DEF entry
<1>6. ASSUME NEW i \in 1..Len(history), NEW g, NEW yes, Wrote(i, g, yes)
      PROVE  Wrote(i, g, yes)'
  BY <1>1, <1>4, <1>6 DEF Wrote
<1>7. \A g, f : Newer(g, f)' <=> Newer(g, f)
  BY <1>1 DEF Newer
<1>8. CASE step = 5
  <2>1. h = "a" /\ Now.accepted
    BY <1>8, HandoverSteps DEF Now, Write
  <2>2. Len(history) = 0
    BY <1>8 DEF Length
  <2>3. Wrote(1, "a", TRUE)'
    BY <1>1, <1>4, <1>5, <2>1, <2>2 DEF Wrote
  <2> QED
    BY <1>1, <1>4, <1>6, <1>7, <1>8, <2>2, <2>3 DEF Story, Length, Wrote
<1>9. CASE step = 8
  <2>1. h = "b" /\ Now.accepted
    BY <1>9, HandoverSteps DEF Now, Write
  <2>2. Len(history) = 1
    BY <1>9 DEF Length
  <2>3. Wrote(2, "b", TRUE)'
    BY <1>1, <1>4, <1>5, <2>1, <2>2 DEF Wrote
  <2> QED
    BY <1>1, <1>4, <1>6, <1>7, <1>9, <2>2, <2>3 DEF Story, Length, Wrote
<1>10. CASE step = 9
  <2>1. h = "a" /\ ~Now.accepted
    BY <1>10, HandoverSteps DEF Now, Write
  <2>2. Len(history) = 2
    BY <1>10 DEF Length
  <2>3. Wrote(3, "a", FALSE)'
    BY <1>1, <1>4, <1>5, <2>1, <2>2 DEF Wrote
  <2> QED
    BY <1>1, <1>4, <1>6, <1>7, <1>10, <2>2, <2>3 DEF Story, Length, Wrote
<1>11. CASE step = 21
  <2>1. h = "c" /\ Now.accepted
    BY <1>11, LeaderCrashSteps DEF Now, Write
  <2>2. Len(history) = 3
    BY <1>11 DEF Length
  <2>3. Wrote(4, "c", TRUE)'
    BY <1>1, <1>4, <1>5, <2>1, <2>2 DEF Wrote
  <2> QED
    BY <1>1, <1>4, <1>6, <1>7, <1>11, <2>2, <2>3 DEF Story, Length, Wrote
<1>12. CASE step = 22
  <2>1. h = "b" /\ ~Now.accepted
    BY <1>12, LeaderCrashSteps DEF Now, Write
  <2>2. Len(history) = 4
    BY <1>12 DEF Length
  <2>3. Wrote(5, "b", FALSE)'
    BY <1>1, <1>4, <1>5, <2>1, <2>2 DEF Wrote
  <2> QED
    BY <1>1, <1>4, <1>6, <1>7, <1>12, <2>2, <2>3 DEF Story, Length, Wrote
<1>13. CASE step = 31
  <2>1. h = "d" /\ Now.accepted
    BY <1>13, FullRestartSteps DEF Now, Write
  <2>2. Len(history) = 5
    BY <1>13 DEF Length
  <2>3. Wrote(6, "d", TRUE)'
    BY <1>1, <1>4, <1>5, <2>1, <2>2 DEF Wrote
  <2> QED
    BY <1>1, <1>4, <1>6, <1>7, <1>13, <2>2, <2>3 DEF Story, Length, Wrote
<1>14. CASE step = 32
  <2>1. h = "c" /\ ~Now.accepted
    BY <1>14, FullRestartSteps DEF Now, Write
  <2>2. Len(history) = 6
    BY <1>14 DEF Length
  <2>3. Wrote(7, "c", FALSE)'
    BY <1>1, <1>4, <1>5, <2>1, <2>2 DEF Wrote
  <2> QED
    BY <1>1, <1>4, <1>6, <1>7, <1>14, <2>2, <2>3 DEF Story, Length, Wrote
<1> QED
  BY <1>1, <1>8, <1>9, <1>10, <1>11, <1>12, <1>13, <1>14

\* A step of the scenario that is not told of, or that is not over.
LEMMA Untold ==
    ASSUME Types,
           \/ NodeStarts \/ Pause \/ LeaderFound \/ Crash \/ StopAll \/ NextRound
           \/ \E n \in Nodes : AttemptFails(n) \/ AnswerLost(n) \/ AttemptDelayed(n)
    PROVE  /\ UNCHANGED <<token, history>>
           /\ step' = step \/ (step' = step + 1 /\ step \notin Told)
<1>1. CASE NodeStarts
  BY <1>1, Steps DEF NodeStarts, Succeeds, Told, Types
<1>2. CASE Pause \/ LeaderFound \/ Crash \/ StopAll
  BY <1>2, Kinds DEF Pause, LeaderFound, Crash, StopAll, Succeeds, mainVars, Told, Types
<1>3. ASSUME NEW n \in Nodes, NextRound \/ AttemptFails(n) \/ AnswerLost(n) \/ AttemptDelayed(n)
      PROVE  UNCHANGED <<token, history, step>>
  BY <1>3 DEF NextRound, AttemptFails, AnswerLost, AttemptDelayed, mainVars
<1>4. NextRound => UNCHANGED <<token, history, step>>
  BY DEF NextRound, mainVars
<1> QED
  BY <1>1, <1>2, <1>3, <1>4

LEMMA StoryKept ==
    ASSUME Types, phase = "run" => Story /\ Length, [Next]_vars, phase' = "run"
    PROVE  Story' /\ Length'
<1>1. CASE Scenario
  <2>1. Story /\ Length
    BY <1>1, ScenarioMoves
  <2>2. CASE NodeFails \/ NoLeaderFound \/ GiveUp \/ WriteTimesOut
    BY <2>2 DEF NodeFails, NoLeaderFound, GiveUp, WriteTimesOut, Fails
  <2>3. ASSUME NEW n \in Nodes, AttemptAnswered(n) PROVE Succeeds
    BY <2>3 DEF AttemptAnswered, Fails
  <2>4. WriteAnswered => Succeeds
    BY DEF WriteAnswered, Fails
  <2> QED
    BY <1>1, <2>1, <2>2, <2>3, <2>4, GrantTold, WriteTold, Untold, StoryStays DEF Scenario
<1>2. CASE SetupFails \/ Finish \/ Catch \/ Finally
  BY <1>2 DEF SetupFails, Finish, Catch, Finally
<1>3. CASE Environment
  BY <1>3, EnvironmentMoves, StoryStays DEF mainVars
<1>4. CASE UNCHANGED vars
  BY <1>4, StoryStays DEF vars
<1> QED
  BY MainSteps, <1>1, <1>2, <1>3, <1>4

-----------------------------------------------------------------------------
(***************************************************************************)
(* No false pass.                                                          *)
(***************************************************************************)

\* At the end of the script the history is a b a' c b' d c', with a', b' and c'
\* rejected and the tokens of a, b, c and d in this order.
LEMMA StoryShowsFencing ==
    ASSUME Types, Story, Length, step = 37
    PROVE  ShowsFencing(history)
<1>1. /\ Wrote(1, "a", TRUE) /\ Wrote(2, "b", TRUE) /\ Wrote(3, "a", FALSE)
      /\ Wrote(4, "c", TRUE) /\ Wrote(5, "b", FALSE)
      /\ Wrote(6, "d", TRUE) /\ Wrote(7, "c", FALSE)
      /\ Newer("b", "a") /\ Newer("c", "b") /\ Newer("d", "c")
  BY DEF Story, Wrote, Newer
<1>2. Len(history) = 7 /\ DOMAIN history = 1..7
  BY DEF Length, Types
<1>3. \A h \in {"a", "b", "c", "d"} : token[h] \in Nat
  BY RunAssumption, LockServiceAssumption DEF Types
<1>4. ASSUME NEW i \in 1..7, NEW j \in 1..7, i < j, history[i].accepted, history[j].accepted
      PROVE  history[i].token < history[j].token
  <2>1. i \in {1, 2, 4, 6} /\ j \in {1, 2, 4, 6}
    BY <1>1, <1>4 DEF Wrote
  <2>2. /\ history[1].token = token["a"] /\ history[2].token = token["b"]
        /\ history[4].token = token["c"] /\ history[6].token = token["d"]
    BY <1>1 DEF Wrote
  <2>3. token["a"] < token["b"] /\ token["b"] < token["c"] /\ token["c"] < token["d"]
    BY <1>1, <1>3 DEF Newer
  <2> QED
    BY <1>3, <1>4, <2>1, <2>2, <2>3
<1>5. ASSUME NEW w \in {"a", "b", "c"}
      PROVE  \E i, j, k \in 1..7 :
                /\ i < j /\ j < k
                /\ history[i].writer = w /\ history[i].accepted
                /\ history[j].writer # w /\ history[j].accepted
                /\ history[k].writer = w /\ ~history[k].accepted
  <2>1. CASE w = "a"
    <3>1. /\ history[1].writer = w /\ history[1].accepted
          /\ history[2].writer # w /\ history[2].accepted
          /\ history[3].writer = w /\ ~history[3].accepted
      BY <1>1, <2>1 DEF Wrote
    <3> QED
      BY <3>1
  <2>2. CASE w = "b"
    <3>1. /\ history[2].writer = w /\ history[2].accepted
          /\ history[4].writer # w /\ history[4].accepted
          /\ history[5].writer = w /\ ~history[5].accepted
      BY <1>1, <2>2 DEF Wrote
    <3> QED
      BY <3>1
  <2>3. CASE w = "c"
    <3>1. /\ history[4].writer = w /\ history[4].accepted
          /\ history[6].writer # w /\ history[6].accepted
          /\ history[7].writer = w /\ ~history[7].accepted
      BY <1>1, <2>3 DEF Wrote
    <3> QED
      BY <3>1
  <2> QED
    BY <2>1, <2>2, <2>3
<1> QED
  BY <1>2, <1>4, <1>5 DEF ShowsFencing

LEMMA FencedKept ==
    ASSUME Types, Verdict, phase = "run" => Story /\ Length, PassedMeansFenced, [Next]_vars
    PROVE  PassedMeansFenced'
<1>1. CASE Finish
  <2>1. step = 37 /\ phase = "run"
    <3>1. step > 36 /\ phase = "run"
      BY <1>1, Places DEF Finish
    <3> QED
      BY <3>1 DEF Types
  <2>2. ShowsFencing(history)
    BY <2>1, StoryShowsFencing
  <2>3. file' = {PassedEvidence} \/ file' = file
    BY <1>1 DEF Finish
  <2> QED
    BY <2>2, <2>3 DEF PassedEvidence, PassedMeansFenced
<1>2. CASE Catch
  <2>1. evidence' = [passed |-> FALSE, history |-> evidence.history]
    BY <1>2 DEF Catch, CaughtEvidence, Verdict
  <2> QED
    BY <1>2, <2>1 DEF Catch, PassedMeansFenced
<1>3. CASE ~Finish /\ ~Catch
  <2>1. Scenario \/ Environment \/ UNCHANGED vars => file' = file
    BY ScenarioMoves, EnvironmentMoves DEF mainVars, vars
  <2>2. file' = file
    BY <1>3, <2>1, MainSteps DEF SetupFails, Finally, mainVars
  <2> QED
    BY <2>2 DEF PassedMeansFenced
<1> QED
  BY <1>1, <1>2, <1>3

-----------------------------------------------------------------------------
(***************************************************************************)
(* The theorems.                                                           *)
(***************************************************************************)

LEMMA InitIInv == Init => IInv
<1> SUFFICES ASSUME Init PROVE IInv
  OBVIOUS
<1> USE LockServiceAssumption, RunAssumption
<1>1. Types
  <2>1. delayed = {} /\ IsFiniteSet(delayed) /\ Cardinality(delayed) = 0
    BY FS_EmptySet DEF Init
  <2>2. Free \in Locks
    BY DEF Free, Locks
  <2>3. token \in [Holders \cup {Nobody} -> 0..MaxToken]
    BY DEF Init
  <2>4. history \in Seq(Entries)
    BY DEF Init
  <2>5. locks \in [Keys -> Locks]
    BY <2>2 DEF Init, ServiceInit
  <2>6. delayed \subseteq Requests /\ IsFiniteSet(delayed) /\ Cardinality(delayed) <= MaxDelayed
    BY <2>1
  <2>7. 0 \in 0..MaxToken /\ 1 \in 1..(Members + 1)
    OBVIOUS
  <2>8. /\ running \subseteq Nodes /\ leader \in running \cup {0} /\ newest \in 0..MaxToken
        /\ phase \in {"run", "caught", "finally", "done"}
        /\ step \in 1..37 /\ cursor \in 1..(Members + 1)
    BY <2>7 DEF Init, ServiceInit
  <2>9. /\ target \in Nodes \cup {0} /\ handles \subseteq Nodes /\ highestToken \in 0..MaxToken
        /\ failure \in {"none", "assertion", "exception"} /\ trouble \in BOOLEAN
    BY <2>7 DEF Init
  <2> QED
    BY <2>3, <2>4, <2>5, <2>6, <2>8, <2>9 DEF Types
<1>2. Story /\ Length
  BY DEF Init, Story, Length
<1> QED
  BY <1>1, <1>2
  DEF Init, ServiceInit, IInv, TargetKnown, Tracked, NoOrphans, Verdict, OneFile, PassedMeansFenced

\* The invariant holds in every reachable state, whatever the cluster answers
\* (Honest or not), for any number of keys and holders beside the scenario's,
\* any tokens and any number of delayed requests.
THEOREM Inductive == Spec => []IInv
<1>1. IInv /\ [Next]_vars => IInv'
  BY TypesKept, TargetKept, TrackedKept, VerdictKept, OneFileKept, StoryKept, FencedKept DEF IInv
<1> QED
  BY <1>1, InitIInv, PTL DEF Spec

\* TypeOK holds in every reachable state: the variables have their types, the
\* history's entries are complete, and at most one evidence file is written.
THEOREM TypeCorrect == Spec => []TypeOK
<1>1. IInv => TypeOK
  <2> SUFFICES ASSUME IInv PROVE TypeOK
    OBVIOUS
  <2>1. Len(Script) + 1 = 37
    BY Places
  <2>2. Cardinality(file) <= 1
    <3>1. CASE file = {}
      BY <3>1, FS_EmptySet
    <3>2. CASE file # {}
      BY <3>2, FS_Singleton DEF IInv, OneFile
    <3> QED
      BY <3>1, <3>2
  <2>3. \A h \in Holders \cup {Nobody} : token[h] \in 0..MaxToken
    BY DEF IInv, Types
  <2>4. \A k \in Keys : locks[k] \in [holder : Holders \cup {Nobody}, token : 0..MaxToken]
    BY DEF IInv, Types, Locks
  <2>5. \A i \in DOMAIN history : history[i] \in Entries
    BY DEF IInv, Types
  <2> QED
    BY <2>1, <2>2, <2>3, <2>4, <2>5 DEF IInv, Types, TypeOK
<1> QED
  BY <1>1, Inductive, PTL

\* NoOrphans: however the run ends, stopAll() leaves no member running.
THEOREM NothingRunsOn == Spec => []NoOrphans
<1>1. IInv => NoOrphans
  BY DEF IInv
<1> QED
  BY <1>1, Inductive, PTL

\* ExitMatchesVerdict: an exit status of 0 stands for a written verdict of
\* "passed" with the whole history; a run that went through the catch block
\* leaves no such verdict; and where the finally block throws, a verdict of
\* "passed" beside the exit status 1 still has the whole history, and no
\* assertion had failed.
THEOREM ExitIsTheVerdict == Spec => []ExitMatchesVerdict
<1>1. IInv => ExitMatchesVerdict
  BY DEF IInv, Verdict, ExitMatchesVerdict, PassedEvidence
<1> QED
  BY <1>1, Inductive, PTL

\* PassedMeansFenced: whatever the cluster answers, an evidence file that says
\* "passed" holds a history in which the accepted tokens strictly increase and
\* each superseded holder's late write is rejected.
THEOREM NoFalsePass == Spec => []PassedMeansFenced
<1>1. IInv => PassedMeansFenced
  BY DEF IInv
<1> QED
  BY <1>1, Inductive, PTL
=============================================================================
