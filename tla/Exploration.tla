---------------------------- MODULE Exploration ----------------------------
(***************************************************************************)
(* explore() of formal/model.mjs: the breadth-first search that claims     *)
(* "finite-exhaustive-abstraction".  It is modelled over any graph that    *)
(* step() may span, with states that assertState() refuses and calls that  *)
(* assertTransition() refuses, so that what it prints can be compared with *)
(* what there is to reach.                                                 *)
(*                                                                         *)
(* step() returns a successor for a refused call, too, and explore() drops *)
(* it.  That a refused call leaves the state as it was (RefusalsStutter)   *)
(* is what LockManyProofs shows of step() (RefusalsAreStutters).           *)
(***************************************************************************)
EXTENDS Integers, Sequences

CONSTANTS
    States,     \* the states step() may return, up to key()
    Actions,    \* actions()
    Start,      \* initialState()
    Error       \* not a state: a call whose transition an assertion refuses

ASSUME ExplorationAssumption == Start \in States /\ Error \notin States

VARIABLES
    edge,       \* step(): where each call leads, and whether it is accepted
    bad,        \* the states that assertState() refuses
    seen,       \* the keys of `seen`
    queue,      \* the states in the order they were seen
    cursor,     \* how many of them were taken from the queue
    todo,       \* the actions not yet tried in the state taken last
    verdict     \* "witnesses", "running", "printed" or "thrown"

graph == <<edge, bad>>
vars == <<edge, bad, seen, queue, cursor, todo, verdict>>

Edges == [to : States \cup {Error}, accepted : BOOLEAN]

RefusalsStutter ==
    \A s \in States, a \in Actions : edge[s][a].accepted \/ edge[s][a].to = s

\* Variant: step() asserts the next state only.
StepThrowsByState(s, a) == edge[s][a].to \in bad

\* step() asserts the next state and the transition before it returns.
StepThrows(s, a) == edge[s][a].to \in bad \cup {Error}

\* The witness traces are replayed first; one that fails throws.
Witnesses ==
    /\ verdict = "witnesses"
    /\ verdict' \in {"running", "thrown"}
    /\ UNCHANGED <<graph, seen, queue, cursor, todo>>

\* The next state of the queue is taken and asserted.
Take ==
    /\ verdict = "running" /\ todo = {} /\ cursor < Len(queue)
    /\ cursor' = cursor + 1
    /\ IF queue[cursor + 1] \in bad
       THEN verdict' = "thrown" /\ UNCHANGED todo
       ELSE todo' = Actions /\ UNCHANGED verdict
    /\ UNCHANGED <<graph, seen, queue>>

New(s) == s \notin seen

Try(a) ==
    LET call == edge[queue[cursor]][a]
    IN  /\ verdict = "running" /\ a \in todo
        /\ todo' = todo \ {a}
        /\ IF StepThrows(queue[cursor], a)
           THEN verdict' = "thrown" /\ UNCHANGED <<seen, queue>>
           ELSE /\ IF call.accepted /\ New(call.to)
                   THEN seen' = seen \cup {call.to} /\ queue' = Append(queue, call.to)
                   ELSE UNCHANGED <<seen, queue>>
                /\ UNCHANGED verdict
        /\ UNCHANGED <<graph, cursor>>

\* Variant: the loop stops one state short.
EmptyOneShort == cursor + 1 >= Len(queue)

\* The loop's condition is looked at again.
Empty == cursor = Len(queue)

\* The verdict is printed, with the number of states seen.
PrintVerdict ==
    /\ verdict = "running" /\ todo = {} /\ Empty
    /\ verdict' = "printed"
    /\ UNCHANGED <<graph, seen, queue, cursor, todo>>

Init ==
    /\ edge \in [States -> [Actions -> Edges]] /\ RefusalsStutter
    /\ bad \in SUBSET States
    /\ seen = {Start} /\ queue = <<Start>> /\ cursor = 0
    /\ todo = {} /\ verdict = "witnesses"

Next == Witnesses \/ Take \/ (\E a \in Actions : Try(a)) \/ PrintVerdict

Spec == Init /\ [][Next]_vars

-----------------------------------------------------------------------------
TypeOK ==
    /\ edge \in [States -> [Actions -> Edges]]
    /\ bad \in SUBSET States
    /\ seen \in SUBSET States
    /\ queue \in Seq(States)
    /\ cursor \in 0..Len(queue)
    /\ todo \in SUBSET Actions
    /\ verdict \in {"witnesses", "running", "printed", "thrown"}

\* Start and everything that calls lead to, refused ones included.
Closed(C) ==
    /\ Start \in C
    /\ \A s \in C, a \in Actions : edge[s][a].to \in States => edge[s][a].to \in C

Reachable == {s \in States : \A C \in SUBSET States : Closed(C) => s \in C}

\* What explore() claims when it prints: it has seen every reachable state,
\* once and no other, and no assertion fails in any of them or in any call
\* made there.
Exhaustive ==
    verdict = "printed" =>
        /\ seen = Reachable
        /\ \A i, j \in 1..Len(queue) : queue[i] = queue[j] => i = j
        /\ \A s \in Reachable : s \notin bad /\ \A a \in Actions : ~StepThrows(s, a)
=============================================================================
