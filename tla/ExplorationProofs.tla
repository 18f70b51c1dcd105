------------------------- MODULE ExplorationProofs -------------------------
(***************************************************************************)
(* What explore() prints is true of every graph step() may span, of any    *)
(* number of states and actions, as long as refused calls are stutters.    *)
(*                                                                         *)
(* IInv: the queue lists what was seen, once; all of it is reachable; and  *)
(* every call from a state that was taken, but for those still to be tried *)
(* from the last one, leads to something seen and throws nothing.  When    *)
(* the queue is empty, `seen` is therefore closed, and nothing reachable   *)
(* is outside of a closed set.                                             *)
(***************************************************************************)
EXTENDS Exploration, TLAPS

QueueListsSeen ==
    /\ \A i \in 1..Len(queue) : queue[i] \in seen
    /\ \A s \in seen : \E i \in 1..Len(queue) : queue[i] = s
    /\ \A i, j \in 1..Len(queue) : queue[i] = queue[j] => i = j

SeenIsReachable == Start \in seen /\ seen \subseteq Reachable

\* The call a from s leads to something seen, and no assertion fails.
Explored(s, a) == edge[s][a].to \in seen /\ ~StepThrows(s, a)

TakenIsExplored ==
    verdict \in {"running", "printed"} =>
        \A i \in 1..cursor :
            /\ queue[i] \notin bad
            /\ \A a \in Actions : Explored(queue[i], a) \/ (i = cursor /\ a \in todo)

Phases ==
    /\ verdict = "witnesses" => cursor = 0 /\ todo = {}
    /\ verdict = "running" /\ todo # {} => cursor > 0
    /\ verdict = "printed" => todo = {} /\ cursor = Len(queue)

IInv ==
    /\ TypeOK
    /\ RefusalsStutter
    /\ QueueListsSeen
    /\ SeenIsReachable
    /\ TakenIsExplored
    /\ Phases

-----------------------------------------------------------------------------
\* Whatever a reachable state's call leads to is reachable.
LEMMA ReachableIsClosed ==
    ASSUME NEW s \in Reachable, NEW a \in Actions, edge[s][a].to \in States
    PROVE  edge[s][a].to \in Reachable
BY DEF Reachable, Closed

\* Nothing reachable is outside of a closed set.
LEMMA ReachableInClosed ==
    ASSUME NEW C \in SUBSET States, Closed(C)
    PROVE  Reachable \subseteq C
BY DEF Reachable

\* The initial state is reachable.
LEMMA StartReachable == Start \in Reachable
BY ExplorationAssumption DEF Reachable, Closed

\* The exploration starts with nothing taken, and Start seen.
LEMMA InitIInv == Init => IInv
<1> SUFFICES ASSUME Init PROVE IInv
  OBVIOUS
<1> USE ExplorationAssumption DEF Init
<1>1. /\ queue = <<Start>> /\ Len(queue) = 1 /\ queue[1] = Start
  OBVIOUS
<1>2. TypeOK
  <2>1. queue \in Seq(States)
    BY <1>1
  <2> QED
    BY <2>1, <1>1 DEF TypeOK
<1>3. RefusalsStutter
  OBVIOUS
<1>4. QueueListsSeen
  BY <1>1 DEF QueueListsSeen
<1>5. SeenIsReachable
  BY StartReachable DEF SeenIsReachable
<1>6. TakenIsExplored /\ Phases
  BY DEF TakenIsExplored, Phases
<1> QED
  BY <1>2, <1>3, <1>4, <1>5, <1>6 DEF IInv

\* A reachable state that is new goes to the end of the queue, once.
LEMMA NewStateSeen ==
    ASSUME IInv, NEW s \in States, s \notin seen,
           seen' = seen \cup {s}, queue' = Append(queue, s), s \in Reachable,
           UNCHANGED graph
    PROVE  QueueListsSeen' /\ SeenIsReachable' /\ queue' \in Seq(States)
               /\ Len(queue') = Len(queue) + 1
               /\ \A i \in 1..Len(queue) : queue'[i] = queue[i]
<1> USE DEF IInv, TypeOK
<1>1. /\ queue' \in Seq(States) /\ Len(queue') = Len(queue) + 1
      /\ queue'[Len(queue) + 1] = s
      /\ \A i \in 1..Len(queue) : queue'[i] = queue[i]
  OBVIOUS
<1>2. Len(queue) \in Nat
  OBVIOUS
<1>3. \A i \in 1..Len(queue') : queue'[i] \in seen'
  BY <1>1, <1>2 DEF QueueListsSeen
<1>4. \A x \in seen' : \E i \in 1..Len(queue') : queue'[i] = x
  <2> SUFFICES ASSUME NEW x \in seen' PROVE \E i \in 1..Len(queue') : queue'[i] = x
    OBVIOUS
  <2>1. CASE x = s
    BY <2>1, <1>1, <1>2
  <2>2. CASE x \in seen
    <3>1. PICK i \in 1..Len(queue) : queue[i] = x
      BY <2>2 DEF QueueListsSeen
    <3> QED
      BY <3>1, <1>1, <1>2
  <2> QED
    BY <2>1, <2>2
<1>5. \A i, j \in 1..Len(queue') : queue'[i] = queue'[j] => i = j
  <2> SUFFICES ASSUME NEW i \in 1..Len(queue'), NEW j \in 1..Len(queue'), queue'[i] = queue'[j]
               PROVE  i = j
    OBVIOUS
  <2>1. \A k \in 1..Len(queue) : queue'[k] # s
    BY <1>1 DEF QueueListsSeen
  <2> QED
    BY <2>1, <1>1, <1>2 DEF QueueListsSeen
<1>6. Reachable' = Reachable
  BY DEF graph, Reachable, Closed
<1>7. SeenIsReachable'
  BY <1>6 DEF SeenIsReachable
<1> QED
  BY <1>1, <1>3, <1>4, <1>5, <1>7 DEF QueueListsSeen

-----------------------------------------------------------------------------
\* The witnesses touch nothing the exploration uses.
LEMMA WitnessesStep == IInv /\ Witnesses => IInv'
<1> SUFFICES ASSUME IInv, Witnesses PROVE IInv'
  OBVIOUS
<1> USE DEF IInv, Witnesses, graph
<1>1. TypeOK' /\ RefusalsStutter'
  BY DEF TypeOK, RefusalsStutter
<1>2. QueueListsSeen'
  BY DEF QueueListsSeen
<1>3. SeenIsReachable'
  BY DEF SeenIsReachable, Reachable, Closed
<1>4. cursor' = 0 /\ todo' = {}
  BY DEF Phases, Witnesses
<1> QED
  BY <1>1, <1>2, <1>3, <1>4 DEF TakenIsExplored, Phases, TypeOK

\* The state taken is not bad, or the exploration throws; all its calls are
\* to be tried.
LEMMA TakeStep == IInv /\ Take => IInv'
<1> SUFFICES ASSUME IInv, Take PROVE IInv'
  OBVIOUS
<1> USE DEF IInv, Take, graph
<1>1. TypeOK' /\ RefusalsStutter'
  BY DEF TypeOK, RefusalsStutter
<1>2. QueueListsSeen'
  BY DEF QueueListsSeen
<1>3. SeenIsReachable'
  BY DEF SeenIsReachable, Reachable, Closed
<1>4. TakenIsExplored'
  <2> SUFFICES ASSUME verdict' \in {"running", "printed"}, NEW i \in 1..cursor'
               PROVE  /\ queue[i] \notin bad
                      /\ \A a \in Actions : Explored(queue[i], a)' \/ (i = cursor' /\ a \in todo')
    BY DEF TakenIsExplored
  <2>1. queue[cursor + 1] \notin bad /\ todo' = Actions
    OBVIOUS
  <2>2. CASE i = cursor + 1
    BY <2>1, <2>2
  <2>3. CASE i \in 1..cursor
    BY <2>3, <2>1 DEF TakenIsExplored, Explored, StepThrows
  <2> QED
    BY <2>2, <2>3 DEF TypeOK
<1>5. Phases'
  BY DEF Phases, TypeOK
<1> QED
  BY <1>1, <1>2, <1>3, <1>4, <1>5

\* A call that is tried leads to something seen, before or now.
LEMMA TryStep == ASSUME NEW a \in Actions PROVE IInv /\ Try(a) => IInv'
<1> SUFFICES ASSUME IInv, Try(a) PROVE IInv'
  OBVIOUS
<1> DEFINE s == queue[cursor]
           t == edge[s][a].to
<1> USE DEF IInv, graph
<1>1. cursor \in 1..Len(queue) /\ s \in seen /\ s \in States
  BY DEF Try, Phases, TypeOK, QueueListsSeen
<1>2. t \in States \cup {Error}
  BY <1>1 DEF TypeOK, Edges
<1>3. /\ verdict = "running" /\ a \in todo /\ todo' = todo \ {a}
      /\ UNCHANGED <<edge, bad, cursor>>
  BY DEF Try
<1>4. RefusalsStutter'
  BY <1>3 DEF RefusalsStutter
<1>5. CASE StepThrows(s, a)
  <2>1. verdict' = "thrown" /\ UNCHANGED <<seen, queue>>
    BY <1>5 DEF Try
  <2>2. TypeOK'
    BY <2>1, <1>3 DEF TypeOK
  <2>3. QueueListsSeen' /\ TakenIsExplored' /\ Phases'
    BY <2>1 DEF QueueListsSeen, TakenIsExplored, Phases
  <2>4. SeenIsReachable'
    BY <2>1, <1>3 DEF SeenIsReachable, Reachable, Closed
  <2> QED
    BY <1>4, <2>2, <2>3, <2>4
<1>6. CASE ~StepThrows(s, a)
  <2>1. t \in States /\ t \notin bad /\ verdict' = "running"
    BY <1>2, <1>3, <1>6 DEF Try, StepThrows
  <2>2. t \in Reachable
    BY <1>1, <2>1, ReachableIsClosed DEF SeenIsReachable
  <2>3. /\ QueueListsSeen' /\ SeenIsReachable' /\ t \in seen'
        /\ queue' \in Seq(States) /\ Len(queue') >= Len(queue)
        /\ seen \subseteq seen'
        /\ \A i \in 1..Len(queue) : queue'[i] = queue[i]
    <3>1. CASE edge[s][a].accepted /\ t \notin seen
      <4>1. seen' = seen \cup {t} /\ queue' = Append(queue, t)
        BY <1>6, <3>1 DEF Try, New
      <4>2. Len(queue) \in Nat
        BY DEF TypeOK
      <4> QED
        BY <4>1, <4>2, <3>1, <2>1, <2>2, <1>3, NewStateSeen
    <3>2. CASE ~(edge[s][a].accepted /\ t \notin seen)
      <4>1. UNCHANGED <<seen, queue>>
        BY <1>6, <3>2 DEF Try, New
      <4>2. t \in seen
        BY <3>2, <1>1 DEF RefusalsStutter
      <4>3. SeenIsReachable'
        BY <4>1, <1>3 DEF SeenIsReachable, Reachable, Closed
      <4> QED
        BY <4>1, <4>2, <4>3 DEF QueueListsSeen, TypeOK
    <3> QED
      BY <3>1, <3>2
  <2>4. TypeOK'
    BY <2>1, <2>3, <1>3 DEF TypeOK, SeenIsReachable, Reachable
  <2>5. TakenIsExplored'
    <3> SUFFICES ASSUME NEW i \in 1..cursor, NEW b \in Actions
                 PROVE  /\ queue'[i] \notin bad
                        /\ Explored(queue[i], b)' \/ (i = cursor /\ b \in todo')
      BY <1>3 DEF TakenIsExplored
    <3>1. queue'[i] = queue[i] /\ queue[i] \notin bad
      BY <2>3, <1>1, <1>3 DEF TakenIsExplored
    <3>2. CASE i = cursor /\ b = a
      BY <3>1, <3>2, <2>3, <1>3, <1>6 DEF Explored, StepThrows
    <3>3. CASE ~(i = cursor /\ b = a)
      BY <3>1, <3>3, <2>3, <1>3 DEF Explored, StepThrows, TakenIsExplored
    <3> QED
      BY <3>1, <3>2, <3>3
  <2>6. Phases'
    BY <2>1, <1>1, <1>3 DEF Phases, TypeOK
  <2> QED
    BY <1>4, <2>3, <2>4, <2>5, <2>6
<1> QED
  BY <1>5, <1>6

\* The verdict is printed when the queue is empty.
LEMMA PrintStep == IInv /\ PrintVerdict => IInv'
<1> SUFFICES ASSUME IInv, PrintVerdict PROVE IInv'
  OBVIOUS
<1> USE DEF IInv, PrintVerdict, graph
<1>1. TypeOK' /\ RefusalsStutter'
  BY DEF TypeOK, RefusalsStutter
<1>2. QueueListsSeen' /\ Phases'
  BY DEF QueueListsSeen, Phases, Empty
<1>3. SeenIsReachable'
  BY DEF SeenIsReachable, Reachable, Closed
<1>4. TakenIsExplored'
  BY DEF TakenIsExplored, Explored, StepThrows
<1> QED
  BY <1>1, <1>2, <1>3, <1>4

\* The exploration's inductive invariant: the queue lists what was seen, all
\* of it reachable, and what was taken is explored.
THEOREM Inductive == Spec => []IInv
<1>1. IInv /\ UNCHANGED vars => IInv'
  <2> SUFFICES ASSUME IInv, UNCHANGED vars PROVE IInv'
    OBVIOUS
  <2> USE DEF IInv, vars
  <2>1. TypeOK' /\ RefusalsStutter' /\ QueueListsSeen' /\ Phases'
    BY DEF TypeOK, RefusalsStutter, QueueListsSeen, Phases
  <2>2. SeenIsReachable'
    BY DEF SeenIsReachable, Reachable, Closed
  <2>3. TakenIsExplored'
    BY DEF TakenIsExplored, Explored, StepThrows
  <2> QED
    BY <2>1, <2>2, <2>3
<1>2. IInv /\ [Next]_vars => IInv'
  BY <1>1, WitnessesStep, TakeStep, TryStep, PrintStep DEF Next
<1> QED
  BY InitIInv, <1>2, PTL DEF Spec

\* explore()'s variables have their types; nothing but states is ever queued.
THEOREM TypeCorrect == Spec => []TypeOK
<1>1. IInv => TypeOK
  BY DEF IInv
<1> QED
  BY Inductive, <1>1, PTL

\* A verdict that is printed is about every reachable state: "seen" is all
\* there is to reach, and nothing reachable violates an assertion.
THEOREM PrintedIsExhaustive == Spec => []Exhaustive
<1>1. IInv => Exhaustive
  <2> SUFFICES ASSUME IInv, verdict = "printed"
               PROVE  /\ seen = Reachable
                      /\ \A i, j \in 1..Len(queue) : queue[i] = queue[j] => i = j
                      /\ \A s \in Reachable : s \notin bad /\ \A a \in Actions : ~StepThrows(s, a)
    BY DEF Exhaustive
  <2> USE DEF IInv
  <2>1. \A s \in seen : s \notin bad /\ \A a \in Actions : Explored(s, a)
    <3> SUFFICES ASSUME NEW s \in seen
                 PROVE  s \notin bad /\ \A a \in Actions : Explored(s, a)
      OBVIOUS
    <3>1. PICK i \in 1..Len(queue) : queue[i] = s
      BY DEF QueueListsSeen
    <3> QED
      BY <3>1 DEF Phases, TakenIsExplored
  <2>2. Closed(seen)
    BY <2>1 DEF Closed, Explored, SeenIsReachable
  <2>3. seen = Reachable
    BY <2>2, ReachableInClosed DEF SeenIsReachable, TypeOK
  <2> QED
    BY <2>1, <2>3 DEF QueueListsSeen, Explored
<1> QED
  BY Inductive, <1>1, PTL
=============================================================================
