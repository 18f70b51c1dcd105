---------------------------- MODULE LockService ----------------------------
(***************************************************************************)
(* The fiducia cluster as scripts/stale-fencing-e2e.mjs sees it.  The      *)
(* cluster is not part of this repository: the module says what the        *)
(* harness relies on, and nothing of how the members agree.                *)
(*                                                                         *)
(* A lock is held with a token; a union of keys is held with one token,    *)
(* newer than all before.  A request is executed by the leader, which      *)
(* exists only while most members run; the locks survive crashes and       *)
(* restarts.  A service that is not Honest may answer anything at all.     *)
(***************************************************************************)
EXTENDS Naturals, FiniteSets

CONSTANTS
    Members,    \* how many members the cluster has
    Keys,       \* lock keys
    Holders,    \* lock holders
    Nobody,     \* the holder of a free key
    MaxToken,   \* bound on the tokens minted
    Honest      \* whether the service behaves

ASSUME LockServiceAssumption ==
    /\ Members \in Nat
    /\ Nobody \notin Holders
    /\ MaxToken \in Nat
    /\ Honest \in BOOLEAN

VARIABLES
    running,    \* the members whose process runs
    leader,     \* the member that executes requests, or 0
    locks,      \* per key, [holder, token]
    newest      \* the newest token minted

Nodes == 1..Members

Free == [holder |-> Nobody, token |-> 0]

Majority(nodes) == 2 * Cardinality(nodes) > Members

(***************************************************************************)
(* What executing a request leaves behind and answers.  A request is       *)
(* [kind, keys, holder, token]; an answer is [yes, holder, token].         *)
(***************************************************************************)

No == [yes |-> FALSE, holder |-> Nobody, token |-> 0]

Yes(holder, token) == [yes |-> TRUE, holder |-> holder, token |-> token]

Saying(answer) == [locks |-> locks, newest |-> newest, answer |-> answer]

With(keys, grant) == [k \in Keys |-> IF k \in keys THEN grant ELSE locks[k]]

HeldAs(keys, holder, token) ==
    \A k \in keys : locks[k] = [holder |-> holder, token |-> token]

\* All keys or none; a holder that asks again may be told what it holds.
Acquired(req) ==
    LET next == newest + 1
        grant == [holder |-> req.holder, token |-> next]
    IN  IF \A k \in req.keys : locks[k] = Free
        THEN {[locks |-> With(req.keys, grant), newest |-> next,
               answer |-> Yes(req.holder, next)]}
        ELSE {Saying(No)} \cup
             {Saying(Yes(req.holder, t)) : t \in {u \in 1..newest : HeldAs(req.keys, req.holder, u)}}

Renewed(req) ==
    {Saying(IF HeldAs(req.keys, req.holder, req.token) THEN Yes(req.holder, req.token) ELSE No)}

Released(req) ==
    IF HeldAs(req.keys, req.holder, req.token)
    THEN {[locks |-> With(req.keys, Free), newest |-> newest, answer |-> Yes(Nobody, 0)]}
    ELSE {Saying(No)}

Inspected(req) == {Saying(Yes(locks[k].holder, locks[k].token)) : k \in req.keys}

Anything ==
    {Saying(a) : a \in [yes : BOOLEAN, holder : Holders \cup {Nobody}, token : 0..MaxToken]}

Executed(req) ==
    CASE ~Honest -> Anything
      [] Honest /\ req.kind = "acquire" -> Acquired(req)
      [] Honest /\ req.kind = "renew" -> Renewed(req)
      [] Honest /\ req.kind = "release" -> Released(req)
      [] Honest /\ req.kind = "inspect" -> Inspected(req)

(***************************************************************************)
(* What becomes of the members and of a lease.                             *)
(***************************************************************************)

ServiceInit ==
    /\ running = {}
    /\ leader = 0
    /\ locks = [k \in Keys |-> Free]
    /\ newest = 0

\* A leader is elected or replaced.
Elected(n) ==
    /\ Majority(running)
    /\ n \in running \ {leader}
    /\ leader' = n
    /\ UNCHANGED <<running, locks, newest>>

\* A member starts.
Joins(n) == running' = running \cup {n} /\ UNCHANGED leader

\* Members stop; a leader leads on only if it runs and has a majority.
Leave(nodes) ==
    /\ running' = running \ nodes
    /\ leader' = IF leader \in nodes \/ ~Majority(running') THEN 0 ELSE leader

\* The locks once the lease under which key k is held has run out.
Lapsed(k) == [j \in Keys |-> IF locks[j] = locks[k] THEN Free ELSE locks[j]]
=============================================================================
