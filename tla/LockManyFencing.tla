-------------------------- MODULE LockManyFencing --------------------------
(***************************************************************************)
(* The lock-many model of formal/model.mjs: a group of locks acquired,     *)
(* renewed and released together under one lease, and a group of           *)
(* resources, one per lock, written together under the locks' fences.      *)
(*                                                                         *)
(* One action is one call of step(input, action).  Every call first runs   *)
(* expire(input); `Before` is the grant it leaves.  A refused call returns *)
(* the expired state and a reason, so an action is "the guard holds and    *)
(* the call takes effect" or "the guard fails and the call is refused".    *)
(*                                                                         *)
(* owner, connected, expiresAt and grantFences, which are only ever set    *)
(* and cleared together, are the fields of one record, `grant`.  `outcome` *)
(* is what step() reports of the last call; no guard reads it.             *)
(***************************************************************************)
EXTENDS Naturals

CONSTANTS
    Clients,    \* the clients the model knows (CLIENTS)
    Callers,    \* names an action may carry; a replayed document may name a stranger
    Values,     \* payloads a write may carry (VALUES)
    Payloads,   \* payloads an action may carry
    Locks,      \* the locks of the group, and the resources they protect
    None,       \* no client (null)
    MaxTime,    \* bound on the clock (MAX_TIME)
    MaxFence,   \* bound on the fences (MAX_FENCE)
    TTL         \* lease duration in ticks

ASSUME LockManyAssumption ==
    /\ Clients \subseteq Callers
    /\ None \notin Callers
    /\ Values \subseteq Payloads
    /\ Payloads \subseteq Nat
    /\ 0 \notin Values
    /\ Locks # {}
    /\ MaxTime \in Nat
    /\ MaxFence \in Nat
    /\ TTL \in Nat \ {0}

VARIABLES
    now,             \* the clock
    grant,           \* [owner, connected, expiresAt, fences] of the group
    lastFences,      \* newest fence minted per lock
    tokens,          \* fences each client received at its last grant
    resourceFences,  \* fence of the last committed write per resource
    resourceValues,  \* value of the last committed write per resource, 0 before it
    outcome          \* [kind, client, accepted, reason] of the last call

vars == <<now, grant, lastFences, tokens, resourceFences, resourceValues, outcome>>

Kinds == {"none", "tick", "acquire-many", "renew-many", "release-many",
          "partition", "write-many", "unknown"}

AcceptReasons == {"advanced", "granted-atomically", "renewed", "released-atomically",
                  "partitioned", "replayed", "committed-atomically"}

RefusalReasons == {"none", "precondition", "stale-fence", "ambiguous-token-reuse",
                   "unknown-action"}

NoFences == [l \in Locks |-> 0]

FreeGrant == [owner |-> None, connected |-> FALSE, expiresAt |-> 0, fences |-> NoFences]

Earlier(s, t) == IF s <= t THEN s ELSE t

(***************************************************************************)
(* Expiry and the predicates of a call.                                    *)
(***************************************************************************)

\* Variant: a lease survives the instant at which it ends.
ExpireLate(g, t) == IF g.owner # None /\ t > g.expiresAt THEN FreeGrant ELSE g

\* expire(): a lease that has run out leaves a free grant.
Expire(g, t) == IF g.owner # None /\ t >= g.expiresAt THEN FreeGrant ELSE g

\* The grant every call starts from.
Before == Expire(grant, now)

\* Variant: the partition is forgotten.
ActiveIgnoringPartition(g) == g.owner # None /\ now < g.expiresAt

\* active(): somebody holds the group, is connected, and the lease runs.
Active(g) == g.owner # None /\ g.connected /\ now < g.expiresAt

CarriesGrant(c) == \A l \in Locks : tokens[c][l] = Before.fences[l]

\* Variant: a write is not checked against the owner of the grant.
OwnsByActivity(c) == Active(Before)

\* The lease is running, it is c's, and c's tokens are the grant's fences.
Owns(c) == Active(Before) /\ Before.owner = c /\ CarriesGrant(c)

\* Variant: a token already used for a write counts as fresh.
FreshOrEqual(c) == \A l \in Locks : tokens[c][l] >= resourceFences[l]

Fresh(c) == \A l \in Locks : tokens[c][l] > resourceFences[l]

ExactReplay(c, v) ==
    \A l \in Locks : tokens[c][l] = resourceFences[l] /\ v = resourceValues[l]

\* Variant: the first lock of a group is minted, the others keep their fence.
MintedFirstOnly(fences) ==
    LET first == CHOOSE l \in Locks : TRUE
    IN  [l \in Locks |-> IF l = first THEN fences[l] + 1 ELSE fences[l]]

\* Variant: a grant reuses the fence of the previous one.
MintedReusing(fences) == [l \in Locks |-> IF fences[l] = 0 THEN 1 ELSE fences[l]]

\* The fences of the next grant: every lock's fence advances together.
Minted(fences) == [l \in Locks |-> fences[l] + 1]

(***************************************************************************)
(* Outcomes.                                                               *)
(***************************************************************************)

Accepted(k, c, r) == outcome' = [kind |-> k, client |-> c, accepted |-> TRUE, reason |-> r]

\* A refused call returns the expired state and changes nothing else.
Refused(k, c, r) ==
    /\ outcome' = [kind |-> k, client |-> c, accepted |-> FALSE, reason |-> r]
    /\ grant' = Before
    /\ UNCHANGED <<now, lastFences, tokens, resourceFences, resourceValues>>

(***************************************************************************)
(* The actions: one per case of step().                                    *)
(***************************************************************************)

\* Variant: the clock moves and the lease is left for the next call to expire.
GrantAfterTickLazy == Before

\* A tick expires the lease at the time it reaches.
GrantAfterTick == Expire(Before, now + 1)

Tick ==
    \/ /\ now < MaxTime
       /\ now' = now + 1
       /\ grant' = GrantAfterTick
       /\ Accepted("tick", None, "advanced")
       /\ UNCHANGED <<lastFences, tokens, resourceFences, resourceValues>>
    \/ /\ now >= MaxTime
       /\ Refused("tick", None, "precondition")

\* Variant: fences are minted past the bound.
MayAcquireUnbounded(c) == c \in Clients /\ Before.owner = None

MayAcquire(c) ==
    /\ c \in Clients
    /\ Before.owner = None
    /\ \A l \in Locks : lastFences[l] < MaxFence

AcquireMany(c) ==
    \/ /\ MayAcquire(c)
       /\ lastFences' = Minted(lastFences)
       /\ tokens' = [tokens EXCEPT ![c] = lastFences']
       /\ grant' = [owner |-> c, connected |-> TRUE, fences |-> lastFences',
                    expiresAt |-> Earlier(MaxTime + TTL, now + TTL)]
       /\ Accepted("acquire-many", c, "granted-atomically")
       /\ UNCHANGED <<now, resourceFences, resourceValues>>
    \/ /\ ~MayAcquire(c)
       /\ Refused("acquire-many", c, "precondition")

MayRenew(c) == c \in Clients /\ Active(Before) /\ Before.owner = c

RenewMany(c) ==
    \/ /\ MayRenew(c)
       /\ grant' = [Before EXCEPT !.expiresAt = Earlier(MaxTime + TTL, @ + 1)]
       /\ Accepted("renew-many", c, "renewed")
       /\ UNCHANGED <<now, lastFences, tokens, resourceFences, resourceValues>>
    \/ /\ ~MayRenew(c)
       /\ Refused("renew-many", c, "precondition")

\* A release leaves a free grant.
Released == FreeGrant

MayRelease(c) == c \in Clients /\ Owns(c)

ReleaseMany(c) ==
    \/ /\ MayRelease(c)
       /\ grant' = Released
       /\ Accepted("release-many", c, "released-atomically")
       /\ UNCHANGED <<now, lastFences, tokens, resourceFences, resourceValues>>
    \/ /\ ~MayRelease(c)
       /\ Refused("release-many", c, "precondition")

MayPartition(c) == c \in Clients /\ Before.owner = c /\ Before.connected

Partition(c) ==
    \/ /\ MayPartition(c)
       /\ grant' = [Before EXCEPT !.connected = FALSE]
       /\ Accepted("partition", c, "partitioned")
       /\ UNCHANGED <<now, lastFences, tokens, resourceFences, resourceValues>>
    \/ /\ ~MayPartition(c)
       /\ Refused("partition", c, "precondition")

MayWrite(c, v) ==
    /\ c \in Clients
    /\ v \in Values
    /\ Owns(c)
    /\ Fresh(c) \/ ExactReplay(c, v)

\* Variant: a token equal to the committed fence is reported as stale.
WriteRefusalStaleOnEqual(c, v) ==
    IF c \in Clients /\ \E l \in Locks : tokens[c][l] <= resourceFences[l]
    THEN "stale-fence" ELSE "precondition"

\* Why a write was refused.
WriteRefusal(c, v) ==
    LET known == c \in Clients /\ v \in Values
        stale == \E l \in Locks : tokens[c][l] < resourceFences[l]
        ambiguous == \E l \in Locks :
                        tokens[c][l] = resourceFences[l] /\ v # resourceValues[l]
    IN  IF known /\ stale THEN "stale-fence"
        ELSE IF known /\ ambiguous THEN "ambiguous-token-reuse"
        ELSE "precondition"

WriteMany(c, v) ==
    \/ /\ MayWrite(c, v)
       /\ resourceFences' = tokens[c]
       /\ resourceValues' = [l \in Locks |-> v]
       /\ grant' = Before
       /\ Accepted("write-many", c,
                   IF ExactReplay(c, v) THEN "replayed" ELSE "committed-atomically")
       /\ UNCHANGED <<now, lastFences, tokens>>
    \/ /\ ~MayWrite(c, v)
       /\ Refused("write-many", c, WriteRefusal(c, v))

\* An action whose kind step() does not know.
UnknownAction == Refused("unknown", None, "unknown-action")

(***************************************************************************)
(* What step() asserts of every call before it returns; a violation throws *)
(* and fails the exploration, or the replayed document.                    *)
(***************************************************************************)

Uniform(f) == \A l, m \in Locks : f[l] = f[m]

AssertState ==
    /\ now <= MaxTime
    /\ \A l \in Locks : lastFences[l] <= MaxFence /\ resourceFences[l] <= lastFences[l]
    /\ Uniform(resourceFences) /\ Uniform(resourceValues)
    /\ grant.owner = None => grant = FreeGrant
    /\ grant.owner # None =>
            /\ grant.owner \in Clients
            /\ \A l \in Locks : grant.fences[l] = lastFences[l] /\ grant.fences[l] > 0
            /\ tokens[grant.owner] = grant.fences

Took(k) == outcome'.accepted /\ outcome'.kind = k

AssertTransition ==
    /\ \A l \in Locks : /\ lastFences'[l] >= lastFences[l]
                        /\ resourceFences'[l] >= resourceFences[l]
    /\ Took("acquire-many") => \A l \in Locks : lastFences'[l] = lastFences[l] + 1
    /\ Took("renew-many") => grant'.fences = Before.fences
    /\ Took("partition") => /\ grant'.owner = Before.owner
                            /\ grant'.expiresAt = Before.expiresAt
    /\ outcome'.kind = "write-many" /\ ~outcome'.accepted
            => UNCHANGED <<resourceFences, resourceValues>>

Init ==
    /\ now = 0
    /\ grant = FreeGrant
    /\ lastFences = NoFences
    /\ tokens = [c \in Clients |-> NoFences]
    /\ resourceFences = NoFences
    /\ resourceValues = NoFences
    /\ outcome = [kind |-> "none", client |-> None, accepted |-> FALSE, reason |-> "none"]

Next ==
    \/ Tick
    \/ \E c \in Callers : AcquireMany(c)
    \/ \E c \in Callers : RenewMany(c)
    \/ \E c \in Callers : ReleaseMany(c)
    \/ \E c \in Callers : Partition(c)
    \/ \E c \in Callers, v \in Payloads : WriteMany(c, v)
    \/ UnknownAction

Spec == Init /\ [][Next]_vars

\* Time passes: the model's environment keeps ticking while the clock has room.
Fairness == WF_vars(Tick /\ now < MaxTime)

FairSpec == Spec /\ Fairness

-----------------------------------------------------------------------------
(***************************************************************************)
(* Properties.                                                             *)
(***************************************************************************)

Fences == 0..MaxFence

Grants ==
    [owner : Clients \cup {None}, connected : BOOLEAN,
     expiresAt : 0..(MaxTime + TTL), fences : [Locks -> Fences]]

Outcomes ==
    [kind : Kinds, client : Callers \cup {None}, accepted : BOOLEAN,
     reason : AcceptReasons \cup RefusalReasons]

\* The variables have their types, inside the bounds of fm.toml's [limits].
TypeOK ==
    /\ now \in 0..MaxTime
    /\ grant \in Grants
    /\ lastFences \in [Locks -> Fences]
    /\ tokens \in [Clients -> [Locks -> Fences]]
    /\ resourceFences \in [Locks -> Fences]
    /\ resourceValues \in [Locks -> Values \cup {0}]
    /\ outcome \in Outcomes

\* Nothing is ever done to a part of the group: the locks' fences, every
\* client's tokens, and the resources' fences and values stay in lockstep
\* (atomic-lock-many-acquire and atomic-fenced-write of fm.toml).
GroupAtomic ==
    /\ Uniform(lastFences)
    /\ Uniform(grant.fences)
    /\ \A c \in Clients : Uniform(tokens[c])
    /\ Uniform(resourceFences)
    /\ Uniform(resourceValues)

\* The group is either entirely free or held with the newest fence of every
\* lock, which are the fences its owner was given (atomic-lock-many-release,
\* and the grant checks of assertState).
GrantIsWhole ==
    \/ grant = FreeGrant
    \/ /\ grant.owner \in Clients
       /\ grant.fences = lastFences
       /\ tokens[grant.owner] = lastFences
       /\ \A l \in Locks : lastFences[l] > 0

\* No call ever leaves a lease that has run out: the state explore() stores
\* is already expired, so the expire() at the start of step() finds nothing.
NoExpiredGrant == grant.owner # None => now < grant.expiresAt

\* A fence is minted for one client only: two clients never hold the same
\* one, and nobody holds or wrote a fence that was never minted.
FenceHasOneHolder ==
    \A l \in Locks :
        /\ resourceFences[l] <= lastFences[l]
        /\ \A c \in Clients : tokens[c][l] <= lastFences[l]
        /\ \A c, d \in Clients : c # d /\ tokens[c][l] = tokens[d][l] => tokens[c][l] = 0

\* Neither a lock's fence nor a resource's persisted fence ever goes back, and
\* whenever the group changes from free to held every lock's fence is newer
\* than any it had, whoever held it before (monotonic-per-lock-fences, and the
\* acquire-many check of assertTransition).
FencesMonotonic ==
    [][\A l \in Locks :
            /\ lastFences'[l] >= lastFences[l]
            /\ resourceFences'[l] >= resourceFences[l]
            /\ grant.owner = None /\ grant'.owner # None
                   => lastFences'[l] > lastFences[l]]_vars

\* A partitioned holder keeps the whole grant until the lease runs out: no
\* release, renewal, reconnection or other client's acquisition changes it
\* earlier (partition-retains-grant-until-expiry).
PartitionRetainsGrant ==
    [][grant.owner # None /\ ~grant.connected
        => \/ grant' = grant
           \/ grant' = FreeGrant /\ now' >= grant.expiresAt]_vars

\* A write that changes a resource carries the newest fences minted, and
\* comes from the client whose grant they are: a partitioned or superseded
\* holder changes nothing (stale-leader-rejected).
CommitCarriesNewestFence ==
    [][<<resourceFences, resourceValues>>' # <<resourceFences, resourceValues>>
        => /\ resourceFences' = lastFences
           /\ outcome'.client = grant.owner
           /\ grant.connected]_vars

\* A value committed under a fence is never replaced under the same fence:
\* a retry repeats the write or is refused as ambiguous reuse.
OneValuePerFence ==
    [][\A l \in Locks :
            resourceFences'[l] = resourceFences[l]
                => resourceValues'[l] = resourceValues[l]]_vars

\* A refused call leaves the whole state as it was: explore() may drop the
\* successors of refused calls, and a refused grouped write has no partial
\* effect.
RefusalChangesNothing ==
    [][~outcome'.accepted
        => UNCHANGED <<now, grant, lastFences, tokens, resourceFences, resourceValues>>]_vars

\* Whoever renews, releases or writes with success is the connected owner
\* and has not been superseded, although renew-many compares no token.
AuthorityIsCurrent ==
    [][outcome'.accepted /\ outcome'.kind \in {"renew-many", "release-many", "write-many"}
        => /\ outcome'.client = grant.owner
           /\ grant.connected
           /\ tokens[outcome'.client] = lastFences]_vars

\* "stale-fence" is said only to a client that another client has superseded.
StaleMeansSuperseded ==
    [][outcome'.reason = "stale-fence"
        => \E d \in Clients \ {outcome'.client} : \A l \in Locks :
                tokens[d][l] > tokens[outcome'.client][l]]_vars

\* step() never throws: the assertions it makes of the next state and of the
\* transition hold of every call, also of a replayed document's calls by
\* strangers, with unknown payloads and out of any order.
AssertionsHold == [][AssertState' /\ AssertTransition]_vars

\* A partitioned holder's lease does run out, if the clock reaches its end.
PartitionEnds ==
    \A c \in Clients :
        (grant.owner = c /\ ~grant.connected /\ grant.expiresAt <= MaxTime)
            ~> (grant.owner # c)

(***************************************************************************)
(* The group implements one fenced lease.                                  *)
(***************************************************************************)

AnyLock == CHOOSE l \in Locks : TRUE

Lease == INSTANCE FencedLease WITH
            holder <- grant.owner,
            fence <- lastFences[AnyLock],
            committed <- resourceFences[AnyLock],
            value <- resourceValues[AnyLock]

\* Lock-many is one fenced lease: acquisition is one Grant, release and
\* expiry one Free, an accepted write one Commit or a replay of it.
ImplementsFencedLease == Lease!Spec
=============================================================================
