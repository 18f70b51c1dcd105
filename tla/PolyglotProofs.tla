--------------------------- MODULE PolyglotProofs ---------------------------
(***************************************************************************)
(* Proofs about PolyglotRun, for any revisions, any number of clients and  *)
(* of attempts, and any number of runs over one evidence directory.        *)
(*                                                                         *)
(* Two arguments carry them.  Whose is it: receipts and processes of a run *)
(* to come do not exist, so a receipt or a listener with this run's number *)
(* is this run's.  Who answered: a broker of an earlier run that is on the *)
(* port stays there, so if this run's broker is there when it is killed,   *)
(* nobody else was there before.                                           *)
(***************************************************************************)
EXTENDS PolyglotRun, TLAPS

\* Outside a run there is no step, and a run that is over ended somehow.
Runs ==
    /\ ended = "no" <=> step # "over" \/ run = 0
    /\ step # "over" => run > 0
    /\ \A b \in Brokers : proc[b] # "none" => run > 0

\* wait_for_tcp() has an attempt left.
Patient == step = "wait" => tries < Attempts

\* A client that ran passed, and somebody answered it.
Counted ==
    \A b \in Brokers : cases[b] = passed[b] /\ (passed[b] > 0 => answered[b] # {})

NoneOfTheFuture == \A b \in Brokers : receipt[b].run <= run /\ port[b].run <= run

\* A broker that lives is one the exit trap knows.
Trapped == \A b \in Brokers : Alive(b) => b \in pid

\* A broker that is still to be built is not running already.
Unstarted == step \in {"require", "build"} => pid = {}

CleanEnd == ended \in {"passed", "failed"} => \A b \in Brokers : ~Alive(b)

\* This run's broker serves exactly if it has the port, unless the run was killed.
OnPort ==
    \A b \in Brokers :
        /\ proc[b] = "serving" => port[b] = This(b)
        /\ port[b] = This(b) /\ run > 0 /\ ended # "killed" => proc[b] = "serving"

KilledHasNone == ended = "killed" => \A b \in Brokers : proc[b] = "none"

\* Who answered was this run's broker, or is an earlier one that never leaves.
Sits == \A b \in Brokers : \A p \in answered[b] : p = This(b) \/ port[b] = p

\* A broker that is dealt with: its receipt is written, only it answered.
Finished(b) == receipt[b] = This(b) /\ answered[b] = {This(b)}

Progress ==
    /\ step = "kill" => receipt[at] = This(at) /\ passed[at] = Cases
    /\ step = "reap" => Finished(at)
    /\ step = "done" => at = "rust" /\ Finished("rust")
    /\ at = "rust" => Finished("node")
    /\ ended = "passed" => Finished("node") /\ Finished("rust")

TypeInv == TypeOK /\ Runs /\ Patient

ReceiptInv == Counted /\ NoneOfTheFuture /\ ReceiptNeedsEveryCase

BrokerInv == Trapped /\ Unstarted /\ CleanEnd /\ OnPort /\ KilledHasNone

IInv == TypeInv /\ ReceiptInv /\ BrokerInv /\ Sits /\ Progress

-----------------------------------------------------------------------------
(***************************************************************************)
(* The steps of the script.                                                *)
(***************************************************************************)

\* The steps that do no more than go on, or go wrong.
Quiet == Required \/ Ready \/ NotReady \/ CaseFails \/ CommandFails \/ KillBroker

LEMMA QuietSteps ==
    ASSUME Quiet
    PROVE  /\ UNCHANGED <<script, at, pid, proc, port, receipt>>
           /\ step # "over"
           /\ \/ step' = "failing"
              \/ step = "require" /\ step' = "build"
              \/ step = "wait" /\ step' \in {"wait", "cases"}
              \/ step = "kill" /\ Alive(at) /\ proc[at] # "booting" /\ step' = "reap"
<1>1. ASSUME Required \/ Ready \/ NotReady \/ CommandFails
      PROVE  /\ UNCHANGED <<script, at, pid, proc, port, receipt>> /\ step # "over"
             /\ \/ step' = "failing"
                \/ step = "require" /\ step' = "build"
                \/ step = "wait" /\ step' \in {"wait", "cases"}
  BY <1>1 DEF Required, Ready, NotReady, CommandFails, Tried
<1>2. CASE CaseFails
  BY <1>2 DEF CaseFails, Failure, script
<1>3. CASE KillBroker
  BY <1>3 DEF KillBroker, KillSucceeds
<1> QED
  BY <1>1, <1>2, <1>3 DEF Quiet

\* The steps there are.
LEMMA Steps ==
    ASSUME [Next]_vars
    PROVE  \/ Begin \/ StartBroker \/ Quiet \/ CasePasses \/ WriteReceipt \/ ReapBroker
           \/ Cleanup \/ (\E b \in Brokers : Binds(b) \/ Exits(b))
           \/ (\E binds \in BOOLEAN : KillScript(binds)) \/ UNCHANGED vars
  BY DEF Next, Quiet, Readiness

\* Types, and where in a run the script is.
LEMMA TypesKept == ASSUME IInv, [Next]_vars PROVE TypeInv'
<1> USE PolyglotAssumption
        DEF IInv, TypeInv, ReceiptInv, BrokerInv, Brokers, This, Alive, Finished, Process, None,
            script
<1>1. CASE Begin
  BY <1>1 DEF TypeOK, Runs, Patient, Begin
<1>2. CASE StartBroker
  BY <1>2 DEF TypeOK, Runs, Patient, StartBroker
<1>3. CASE Quiet
  <2>1. CASE NotReady
    BY <2>1 DEF NotReady, Tried, TypeOK, Runs, Patient
  <2>2. CASE ~NotReady
    <3>1. tries' = tries /\ step' # "wait"
      BY <1>3, <2>2 DEF Quiet, Required, Ready, CaseFails, Failure, CommandFails, KillBroker
    <3> QED
      BY <1>3, <3>1, QuietSteps DEF TypeOK, Runs, Patient
  <2> QED
    BY <2>1, <2>2
<1>4. CASE CasePasses
  BY <1>4 DEF TypeOK, Runs, Patient, Counted, CasePasses
<1>5. CASE WriteReceipt
  BY <1>5 DEF TypeOK, Runs, Patient, WriteReceipt
<1>6. CASE ReapBroker
  BY <1>6 DEF TypeOK, Runs, Patient, ReapBroker, PidCleared
<1>7. CASE Cleanup
  BY <1>7 DEF TypeOK, Runs, Patient, Cleanup
<1>8. ASSUME NEW b \in Brokers, Binds(b) PROVE TypeInv'
  BY <1>8 DEF TypeOK, Runs, Patient, Binds
<1>9. ASSUME NEW b \in Brokers, Exits(b) PROVE TypeInv'
  BY <1>9 DEF TypeOK, Runs, Patient, Exits
<1>10. ASSUME NEW binds \in BOOLEAN, KillScript(binds) PROVE TypeInv'
  BY <1>10 DEF TypeOK, Runs, Patient, KillScript
<1>11. CASE UNCHANGED vars
  BY <1>11 DEF TypeOK, Runs, Patient, vars
<1> QED
  BY Steps, <1>1, <1>2, <1>3, <1>4, <1>5, <1>6, <1>7, <1>8, <1>9, <1>10, <1>11

\* Receipts and what they count.
LEMMA ReceiptsKept == ASSUME IInv, [Next]_vars PROVE ReceiptInv'
<1> USE PolyglotAssumption
        DEF IInv, TypeInv, ReceiptInv, BrokerInv, Brokers, This, Alive, Finished, Process, None,
            script
<1>1. CASE Begin
  BY <1>1 DEF TypeOK, Counted, NoneOfTheFuture, ReceiptNeedsEveryCase, Begin
<1>2. CASE StartBroker
  BY <1>2 DEF Counted, NoneOfTheFuture, ReceiptNeedsEveryCase, StartBroker
<1>3. CASE Quiet
  BY <1>3, QuietSteps DEF Counted, NoneOfTheFuture, ReceiptNeedsEveryCase
<1>4. CASE CasePasses
  BY <1>4 DEF TypeOK, Counted, NoneOfTheFuture, ReceiptNeedsEveryCase, CasePasses
<1>5. CASE WriteReceipt
  BY <1>5 DEF TypeOK, Counted, NoneOfTheFuture, ReceiptNeedsEveryCase, WriteReceipt
<1>6. CASE ReapBroker
  BY <1>6 DEF Counted, NoneOfTheFuture, ReceiptNeedsEveryCase, ReapBroker
<1>7. CASE Cleanup
  BY <1>7 DEF Counted, NoneOfTheFuture, ReceiptNeedsEveryCase, Cleanup
<1>8. ASSUME NEW b \in Brokers, Binds(b) PROVE ReceiptInv'
  BY <1>8 DEF TypeOK, Counted, NoneOfTheFuture, ReceiptNeedsEveryCase, Binds
<1>9. ASSUME NEW b \in Brokers, Exits(b) PROVE ReceiptInv'
  BY <1>9 DEF TypeOK, Counted, NoneOfTheFuture, ReceiptNeedsEveryCase, Exits
<1>10. ASSUME NEW binds \in BOOLEAN, KillScript(binds) PROVE ReceiptInv'
  BY <1>10 DEF TypeOK, Counted, NoneOfTheFuture, ReceiptNeedsEveryCase, KillScript
<1>11. CASE UNCHANGED vars
  BY <1>11 DEF Counted, NoneOfTheFuture, ReceiptNeedsEveryCase, vars
<1> QED
  BY Steps, <1>1, <1>2, <1>3, <1>4, <1>5, <1>6, <1>7, <1>8, <1>9, <1>10, <1>11

\* Which brokers live, and where.
LEMMA BrokersKept == ASSUME IInv, [Next]_vars PROVE BrokerInv'
<1> USE PolyglotAssumption
        DEF IInv, TypeInv, ReceiptInv, BrokerInv, Brokers, This, Alive, Finished, Process, None,
            script
<1>1. CASE Begin
  BY <1>1 DEF TypeOK, NoneOfTheFuture, Trapped, Unstarted, CleanEnd, OnPort, KilledHasNone, Begin
<1>2. CASE StartBroker
  BY <1>2 DEF Runs, Trapped, Unstarted, CleanEnd, OnPort, KilledHasNone, StartBroker
<1>3. CASE Quiet
  BY <1>3, QuietSteps DEF Trapped, Unstarted, CleanEnd, OnPort, KilledHasNone
<1>4. CASE CasePasses
  BY <1>4 DEF Trapped, Unstarted, CleanEnd, OnPort, KilledHasNone, CasePasses
<1>5. CASE WriteReceipt
  BY <1>5 DEF Trapped, Unstarted, CleanEnd, OnPort, KilledHasNone, WriteReceipt
<1>6. CASE ReapBroker
  BY <1>6 DEF TypeOK, Trapped, Unstarted, CleanEnd, OnPort, KilledHasNone, ReapBroker, PidCleared
<1>7. CASE Cleanup
  BY <1>7 DEF Runs, Trapped, Unstarted, CleanEnd, OnPort, KilledHasNone, Cleanup, Clean
<1>8. ASSUME NEW b \in Brokers, Binds(b) PROVE BrokerInv'
  BY <1>8 DEF TypeOK, Trapped, Unstarted, CleanEnd, OnPort, KilledHasNone, Binds
<1>9. ASSUME NEW b \in Brokers, Exits(b) PROVE BrokerInv'
  BY <1>9 DEF TypeOK, Trapped, Unstarted, CleanEnd, OnPort, KilledHasNone, Exits
<1>10. ASSUME NEW binds \in BOOLEAN, KillScript(binds) PROVE BrokerInv'
  BY <1>10 DEF Trapped, Unstarted, CleanEnd, OnPort, KilledHasNone, KillScript
<1>11. CASE UNCHANGED vars
  BY <1>11 DEF Trapped, Unstarted, CleanEnd, OnPort, KilledHasNone, vars
<1> QED
  BY Steps, <1>1, <1>2, <1>3, <1>4, <1>5, <1>6, <1>7, <1>8, <1>9, <1>10, <1>11

\* Who answered the clients.
LEMMA AnswersKept == ASSUME IInv, [Next]_vars PROVE Sits'
<1> USE PolyglotAssumption
        DEF IInv, TypeInv, ReceiptInv, BrokerInv, Brokers, This, Alive, Finished, Process, None,
            script
<1>1. CASE Begin
  BY <1>1 DEF Sits, Begin
<1>2. CASE StartBroker
  BY <1>2 DEF Sits, StartBroker
<1>3. CASE Quiet
  BY <1>3, QuietSteps DEF Sits
<1>4. CASE CasePasses
  BY <1>4 DEF Sits, CasePasses
<1>5. CASE WriteReceipt
  BY <1>5 DEF Sits, WriteReceipt
<1>6. CASE ReapBroker
  BY <1>6 DEF Sits, ReapBroker
<1>7. CASE Cleanup
  BY <1>7 DEF Sits, Cleanup
<1>8. ASSUME NEW b \in Brokers, Binds(b) PROVE Sits'
  BY <1>8 DEF TypeOK, Sits, Binds
<1>9. ASSUME NEW b \in Brokers, Exits(b) PROVE Sits'
  BY <1>9 DEF OnPort, Sits, Exits
<1>10. ASSUME NEW binds \in BOOLEAN, KillScript(binds) PROVE Sits'
  BY <1>10 DEF TypeOK, Sits, KillScript
<1>11. CASE UNCHANGED vars
  BY <1>11 DEF Sits, vars
<1> QED
  BY Steps, <1>1, <1>2, <1>3, <1>4, <1>5, <1>6, <1>7, <1>8, <1>9, <1>10, <1>11

\* What is achieved at each step.
LEMMA ProgressKept == ASSUME IInv, [Next]_vars PROVE Progress'
<1> USE PolyglotAssumption
        DEF IInv, TypeInv, ReceiptInv, BrokerInv, Brokers, This, Alive, Finished, Process, None,
            script
<1>1. CASE Begin
  BY <1>1 DEF Progress, Begin
<1>2. CASE StartBroker
  BY <1>2 DEF Progress, StartBroker
<1>3. CASE Quiet
  BY <1>3, QuietSteps DEF TypeOK, Counted, OnPort, Sits, Progress
<1>4. CASE CasePasses
  BY <1>4 DEF Runs, Progress, CasePasses
<1>5. CASE WriteReceipt
  BY <1>5 DEF TypeOK, Counted, Progress, WriteReceipt
<1>6. CASE ReapBroker
  BY <1>6 DEF TypeOK, Progress, ReapBroker
<1>7. CASE Cleanup
  BY <1>7 DEF Progress, Cleanup
<1>8. ASSUME NEW b \in Brokers, Binds(b) PROVE Progress'
  BY <1>8 DEF Progress, Binds
<1>9. ASSUME NEW b \in Brokers, Exits(b) PROVE Progress'
  BY <1>9 DEF Progress, Exits
<1>10. ASSUME NEW binds \in BOOLEAN, KillScript(binds) PROVE Progress'
  BY <1>10 DEF Progress, KillScript
<1>11. CASE UNCHANGED vars
  BY <1>11 DEF Progress, vars
<1> QED
  BY Steps, <1>1, <1>2, <1>3, <1>4, <1>5, <1>6, <1>7, <1>8, <1>9, <1>10, <1>11

-----------------------------------------------------------------------------
(***************************************************************************)
(* The theorems.                                                           *)
(***************************************************************************)

LEMMA InitIInv == Init => IInv
<1> SUFFICES ASSUME Init PROVE IInv
  OBVIOUS
<1>1. TypeOK
  BY PolyglotAssumption DEF Init, TypeOK, Brokers
<1> QED
  BY <1>1
  DEF Init, IInv, TypeInv, ReceiptInv, BrokerInv, Brokers, Runs, Patient, Counted,
      NoneOfTheFuture, ReceiptNeedsEveryCase, Trapped, Unstarted, CleanEnd, OnPort,
      KilledHasNone, Sits, Progress, Alive, None

\* Whatever is checked of a state follows from IInv, which every state satisfies.
THEOREM Inductive == Spec => []IInv
<1>1. IInv /\ [Next]_vars => IInv'
  BY TypesKept, ReceiptsKept, BrokersKept, AnswersKept, ProgressKept DEF IInv
<1> QED
  BY <1>1, InitIInv, PTL DEF Spec

\* The variables of the script, the brokers and the evidence keep their types.
THEOREM TypeCorrect == Spec => []TypeOK
  BY Inductive, PTL DEF IInv, TypeInv

\* No receipt without all its cases, in any number of runs over one directory.
THEOREM ReceiptsComplete == Spec => []ReceiptNeedsEveryCase
  BY Inductive, PTL DEF IInv, ReceiptInv

\* A run that passes has its own receipts, and its own brokers alone answered
\* its clients, whatever earlier runs left in the directory and on the ports.
THEOREM PassedIsItsOwn == Spec => []PassedMeansItsOwn
<1>1. IInv => PassedMeansItsOwn
  BY DEF IInv, Progress, PassedMeansItsOwn, Finished, Brokers
<1> QED
  BY <1>1, Inductive, PTL

\* A run that fails or passes leaves none of its brokers.
THEOREM NoneLeft == Spec => []NoBrokerLeft
<1>1. IInv => NoBrokerLeft
  BY DEF IInv, TypeInv, BrokerInv, NoBrokerLeft, CleanEnd, OnPort, Runs, Alive, TypeOK
<1> QED
  BY <1>1, Inductive, PTL
=============================================================================
