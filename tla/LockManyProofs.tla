--------------------------- MODULE LockManyProofs ---------------------------
(***************************************************************************)
(* Proofs about LockManyFencing, for every set of clients, locks and       *)
(* values and every bound.                                                 *)
(*                                                                         *)
(* The argument: IInv is inductive.  It joins the invariants that TLC      *)
(* checks with NewestIsHeld.  NoExpiredGrant makes the expire() at the     *)
(* start of every call the identity (BeforeIsGrant), so that a refused     *)
(* call is a stutter of everything but its outcome (RefusedIsStutter) and  *)
(* only the accepted half of each action is left to look at.               *)
(***************************************************************************)
EXTENDS LockManyFencing, TLAPS

\* Once a fence has been minted, some client holds the newest ones.
NewestIsHeld ==
    lastFences = NoFences \/ \E d \in Clients : tokens[d] = lastFences

IInv ==
    /\ TypeOK
    /\ NoExpiredGrant
    /\ GrantIsWhole
    /\ GroupAtomic
    /\ FenceHasOneHolder
    /\ NewestIsHeld

\* Everything but the outcome.
stateVars == <<now, grant, lastFences, tokens, resourceFences, resourceValues>>

-----------------------------------------------------------------------------
(***************************************************************************)
(* Expiry.                                                                 *)
(***************************************************************************)

LEMMA FreeGrantType == FreeGrant \in Grants
  BY LockManyAssumption DEF FreeGrant, Grants, NoFences, Fences

\* An expiry leaves a grant.
LEMMA ExpireType ==
    ASSUME NEW g \in Grants, NEW t \in Nat
    PROVE  Expire(g, t) \in Grants
  BY FreeGrantType DEF Expire

\* In a reachable state expire() changes nothing.
LEMMA BeforeIsGrant ==
    ASSUME TypeOK, NoExpiredGrant
    PROVE  Before = grant
  BY LockManyAssumption DEF Before, Expire, NoExpiredGrant, TypeOK, Grants

\* In a reachable state a refused call changes nothing but the outcome.
LEMMA RefusedIsStutter ==
    ASSUME TypeOK, NoExpiredGrant, NEW k, NEW c, NEW r, Refused(k, c, r)
    PROVE  UNCHANGED stateVars
  BY BeforeIsGrant DEF Refused, stateVars

\* What a step can be, once refusals are known to be stutters: the accepted
\* half of one action, or no change.
LEMMA StepCases ==
    ASSUME TypeOK, NoExpiredGrant, [Next]_vars
    PROVE  \/ UNCHANGED stateVars
           \/ Tick /\ now < MaxTime
           \/ \E c \in Clients : AcquireMany(c) /\ MayAcquire(c)
           \/ \E c \in Clients : RenewMany(c) /\ MayRenew(c)
           \/ \E c \in Clients : ReleaseMany(c) /\ MayRelease(c)
           \/ \E c \in Clients : Partition(c) /\ MayPartition(c)
           \/ \E c \in Clients, v \in Values : WriteMany(c, v) /\ MayWrite(c, v)
<1>1. CASE Tick
  BY <1>1, RefusedIsStutter, LockManyAssumption DEF Tick, TypeOK
<1>2. ASSUME NEW c \in Callers, AcquireMany(c)
      PROVE  UNCHANGED stateVars \/ (c \in Clients /\ MayAcquire(c))
  BY <1>2, RefusedIsStutter DEF AcquireMany, MayAcquire
<1>3. ASSUME NEW c \in Callers, RenewMany(c)
      PROVE  UNCHANGED stateVars \/ (c \in Clients /\ MayRenew(c))
  BY <1>3, RefusedIsStutter DEF RenewMany, MayRenew
<1>4. ASSUME NEW c \in Callers, ReleaseMany(c)
      PROVE  UNCHANGED stateVars \/ (c \in Clients /\ MayRelease(c))
  BY <1>4, RefusedIsStutter DEF ReleaseMany, MayRelease
<1>5. ASSUME NEW c \in Callers, Partition(c)
      PROVE  UNCHANGED stateVars \/ (c \in Clients /\ MayPartition(c))
  BY <1>5, RefusedIsStutter DEF Partition, MayPartition
<1>6. ASSUME NEW c \in Callers, NEW v \in Payloads, WriteMany(c, v)
      PROVE  UNCHANGED stateVars \/ (c \in Clients /\ v \in Values /\ MayWrite(c, v))
  BY <1>6, RefusedIsStutter DEF WriteMany, MayWrite
<1>7. CASE UnknownAction
  BY <1>7, RefusedIsStutter DEF UnknownAction
<1>8. CASE UNCHANGED vars
  BY <1>8 DEF vars, stateVars
<1> QED
  BY <1>1, <1>2, <1>3, <1>4, <1>5, <1>6, <1>7, <1>8 DEF Next

-----------------------------------------------------------------------------
(***************************************************************************)
(* What an accepted call does to a reachable state.                        *)
(***************************************************************************)

LEMMA TickEffect ==
    ASSUME TypeOK, NoExpiredGrant, Tick, now < MaxTime
    PROVE  /\ now' = now + 1
           /\ grant' = Expire(grant, now + 1)
           /\ UNCHANGED <<lastFences, tokens, resourceFences, resourceValues>>
  BY BeforeIsGrant, LockManyAssumption DEF Tick, GrantAfterTick, Refused, TypeOK

LEMMA AcquireEffect ==
    ASSUME TypeOK, NoExpiredGrant, NEW c \in Clients, AcquireMany(c), MayAcquire(c)
    PROVE  /\ grant.owner = None
           /\ \A l \in Locks : lastFences[l] < MaxFence
           /\ lastFences' = [l \in Locks |-> lastFences[l] + 1]
           /\ tokens' = [tokens EXCEPT ![c] = lastFences']
           /\ grant' = [owner |-> c, connected |-> TRUE, fences |-> lastFences',
                        expiresAt |-> Earlier(MaxTime + TTL, now + TTL)]
           /\ UNCHANGED <<now, resourceFences, resourceValues>>
  BY BeforeIsGrant DEF AcquireMany, MayAcquire, Minted

LEMMA RenewEffect ==
    ASSUME TypeOK, NoExpiredGrant, NEW c \in Clients, RenewMany(c), MayRenew(c)
    PROVE  /\ grant.owner = c /\ grant.connected
           /\ grant'.owner = c
           /\ grant'.connected
           /\ grant'.fences = grant.fences
           /\ grant'.expiresAt = Earlier(MaxTime + TTL, grant.expiresAt + 1)
           /\ grant' \in Grants
           /\ UNCHANGED <<now, lastFences, tokens, resourceFences, resourceValues>>
<1> DEFINE t == Earlier(MaxTime + TTL, grant.expiresAt + 1)
<1>1. /\ grant.owner = c /\ grant.connected
      /\ grant' = [grant EXCEPT !.expiresAt = t]
      /\ UNCHANGED <<now, lastFences, tokens, resourceFences, resourceValues>>
  BY BeforeIsGrant DEF RenewMany, MayRenew, Active
<1>2. t \in 0..(MaxTime + TTL)
  BY LockManyAssumption DEF TypeOK, Grants, Earlier
<1> HIDE DEF t
<1>3. ASSUME NEW g \in Grants
      PROVE  /\ [g EXCEPT !.expiresAt = t] \in Grants
             /\ [g EXCEPT !.expiresAt = t].owner = g.owner
             /\ [g EXCEPT !.expiresAt = t].connected = g.connected
             /\ [g EXCEPT !.expiresAt = t].fences = g.fences
             /\ [g EXCEPT !.expiresAt = t].expiresAt = t
  BY <1>2 DEF Grants
<1>4. /\ grant' \in Grants
      /\ grant'.owner = grant.owner /\ grant'.connected = grant.connected
      /\ grant'.fences = grant.fences /\ grant'.expiresAt = t
  BY <1>1, <1>3 DEF TypeOK
<1> QED
  BY <1>1, <1>4 DEF t

LEMMA ReleaseEffect ==
    ASSUME TypeOK, NoExpiredGrant, NEW c \in Clients, ReleaseMany(c), MayRelease(c)
    PROVE  /\ grant.owner = c /\ grant.connected
           /\ \A l \in Locks : tokens[c][l] = grant.fences[l]
           /\ grant' = FreeGrant
           /\ UNCHANGED <<now, lastFences, tokens, resourceFences, resourceValues>>
  BY BeforeIsGrant DEF ReleaseMany, Released, MayRelease, Owns, CarriesGrant, Active

LEMMA PartitionEffect ==
    ASSUME TypeOK, NoExpiredGrant, NEW c \in Clients, Partition(c), MayPartition(c)
    PROVE  /\ grant.owner = c /\ grant.connected
           /\ grant'.owner = c
           /\ grant'.expiresAt = grant.expiresAt
           /\ grant'.fences = grant.fences
           /\ grant' \in Grants
           /\ UNCHANGED <<now, lastFences, tokens, resourceFences, resourceValues>>
<1>1. /\ grant.owner = c /\ grant.connected
      /\ grant' = [grant EXCEPT !.connected = FALSE]
      /\ UNCHANGED <<now, lastFences, tokens, resourceFences, resourceValues>>
  BY BeforeIsGrant DEF Partition, MayPartition
<1> QED
  BY <1>1 DEF TypeOK, Grants

LEMMA WriteEffect ==
    ASSUME TypeOK, NoExpiredGrant, NEW c \in Clients, NEW v \in Values,
           WriteMany(c, v), MayWrite(c, v)
    PROVE  /\ grant.owner = c /\ grant.connected
           /\ \A l \in Locks : tokens[c][l] = grant.fences[l]
           /\ Fresh(c) \/ ExactReplay(c, v)
           /\ resourceFences' = tokens[c]
           /\ resourceValues' = [l \in Locks |-> v]
           /\ UNCHANGED <<now, grant, lastFences, tokens>>
  BY BeforeIsGrant DEF WriteMany, MayWrite, Owns, CarriesGrant, Active

-----------------------------------------------------------------------------
(***************************************************************************)
(* IInv is inductive: one lemma per conjunct.                              *)
(***************************************************************************)

LEMMA InitIInv == Init => IInv
  BY LockManyAssumption
     DEF Init, IInv, TypeOK, NoExpiredGrant, GrantIsWhole, GroupAtomic, FenceHasOneHolder,
         NewestIsHeld, Uniform, NoFences, FreeGrant, Grants, Fences, Outcomes, Kinds,
         AcceptReasons, RefusalReasons

LEMMA ReportType ==
    ASSUME NEW k \in Kinds, NEW c \in Callers \cup {None},
           NEW r \in AcceptReasons \cup RefusalReasons,
           Accepted(k, c, r) \/ Refused(k, c, r)
    PROVE  outcome' \in Outcomes
<1>1. PICK b \in BOOLEAN :
        outcome' = [kind |-> k, client |-> c, accepted |-> b, reason |-> r]
  BY Zenon DEF Accepted, Refused
<1> QED
  BY <1>1 DEF Outcomes

\* Every call reports an outcome of the right type.
LEMMA OutcomeType ==
    ASSUME outcome \in Outcomes, [Next]_vars
    PROVE  outcome' \in Outcomes
<1>0. /\ Kinds = {"none", "tick", "acquire-many", "renew-many", "release-many",
                  "partition", "write-many", "unknown"}
      /\ {"advanced", "granted-atomically", "renewed", "released-atomically",
            "partitioned", "replayed", "committed-atomically"} \subseteq AcceptReasons
      /\ {"precondition", "stale-fence", "ambiguous-token-reuse", "unknown-action"}
            \subseteq RefusalReasons
  BY DEF Kinds, AcceptReasons, RefusalReasons
<1>1. CASE Tick
  BY <1>0, <1>1, ReportType DEF Tick
<1>2. ASSUME NEW c \in Callers, AcquireMany(c)
      PROVE  outcome' \in Outcomes
  BY <1>0, <1>2, ReportType DEF AcquireMany
<1>3. ASSUME NEW c \in Callers, RenewMany(c)
      PROVE  outcome' \in Outcomes
  BY <1>0, <1>3, ReportType DEF RenewMany
<1>4. ASSUME NEW c \in Callers, ReleaseMany(c)
      PROVE  outcome' \in Outcomes
  BY <1>0, <1>4, ReportType DEF ReleaseMany
<1>5. ASSUME NEW c \in Callers, Partition(c)
      PROVE  outcome' \in Outcomes
  BY <1>0, <1>5, ReportType DEF Partition
<1>6. ASSUME NEW c \in Callers, NEW v \in Payloads, WriteMany(c, v)
      PROVE  outcome' \in Outcomes
  <2>1. WriteRefusal(c, v) \in {"stale-fence", "ambiguous-token-reuse", "precondition"}
    BY DEF WriteRefusal
  <2>2. CASE Refused("write-many", c, WriteRefusal(c, v))
    BY <1>0, <2>1, <2>2, ReportType
  <2>3. ASSUME NEW r \in {"replayed", "committed-atomically"}, Accepted("write-many", c, r)
        PROVE  outcome' \in Outcomes
    BY <1>0, <2>3, ReportType
  <2>4. (IF ExactReplay(c, v) THEN "replayed" ELSE "committed-atomically")
            \in {"replayed", "committed-atomically"}
    OBVIOUS
  <2> QED
    BY <1>6, <2>2, <2>3, <2>4 DEF WriteMany
<1>7. CASE UnknownAction
  BY <1>0, <1>7, ReportType DEF UnknownAction
<1>8. CASE UNCHANGED vars
  BY <1>8 DEF vars
<1> QED
  BY <1>1, <1>2, <1>3, <1>4, <1>5, <1>6, <1>7, <1>8 DEF Next

LEMMA TypeStep ==
    ASSUME TypeOK, NoExpiredGrant, [Next]_vars
    PROVE  TypeOK'
<1>1. outcome' \in Outcomes
  BY OutcomeType DEF TypeOK
<1>2. CASE UNCHANGED stateVars
  BY <1>1, <1>2 DEF stateVars, TypeOK
<1>3. CASE Tick /\ now < MaxTime
  BY <1>1, <1>3, TickEffect, ExpireType, LockManyAssumption DEF TypeOK
<1>4. ASSUME NEW c \in Clients, AcquireMany(c), MayAcquire(c)
      PROVE  TypeOK'
  <2>1. lastFences' \in [Locks -> Fences]
    BY <1>4, AcquireEffect, LockManyAssumption DEF TypeOK, Fences
  <2>2. grant' \in Grants
    <3>1. Earlier(MaxTime + TTL, now + TTL) \in 0..(MaxTime + TTL)
      BY LockManyAssumption DEF Earlier, TypeOK
    <3>2. ASSUME NEW t \in 0..(MaxTime + TTL), NEW f \in [Locks -> Fences]
          PROVE  [owner |-> c, connected |-> TRUE, expiresAt |-> t, fences |-> f] \in Grants
      BY DEF Grants
    <3> QED
      BY <1>4, <2>1, <3>1, <3>2, AcquireEffect
  <2> QED
    BY <1>1, <1>4, <2>1, <2>2, AcquireEffect DEF TypeOK
<1>5. ASSUME NEW c \in Clients, RenewMany(c), MayRenew(c)
      PROVE  TypeOK'
  BY <1>1, <1>5, RenewEffect DEF TypeOK
<1>6. ASSUME NEW c \in Clients, ReleaseMany(c), MayRelease(c)
      PROVE  TypeOK'
  BY <1>1, <1>6, ReleaseEffect, FreeGrantType DEF TypeOK
<1>7. ASSUME NEW c \in Clients, Partition(c), MayPartition(c)
      PROVE  TypeOK'
  BY <1>1, <1>7, PartitionEffect DEF TypeOK
<1>8. ASSUME NEW c \in Clients, NEW v \in Values, WriteMany(c, v), MayWrite(c, v)
      PROVE  TypeOK'
  <2>1. tokens[c] \in [Locks -> Fences] /\ [l \in Locks |-> v] \in [Locks -> Values \cup {0}]
    BY DEF TypeOK
  <2> QED
    <3>1. resourceFences' \in [Locks -> Fences]
      BY <1>8, <2>1, WriteEffect
    <3>2. resourceValues' \in [Locks -> Values \cup {0}]
      BY <1>8, <2>1, WriteEffect
    <3> QED
      BY <1>1, <1>8, <3>1, <3>2, WriteEffect DEF TypeOK
<1> QED
  BY StepCases, <1>2, <1>3, <1>4, <1>5, <1>6, <1>7, <1>8

LEMMA NoExpiredStep ==
    ASSUME TypeOK, NoExpiredGrant, [Next]_vars
    PROVE  NoExpiredGrant'
<1>1. CASE UNCHANGED stateVars
  BY <1>1 DEF stateVars, NoExpiredGrant
<1>2. CASE Tick /\ now < MaxTime
  BY <1>2, TickEffect, LockManyAssumption
     DEF Expire, FreeGrant, NoExpiredGrant, TypeOK, Grants
<1>3. ASSUME NEW c \in Clients, AcquireMany(c), MayAcquire(c)
      PROVE  NoExpiredGrant'
  BY <1>3, AcquireEffect, LockManyAssumption DEF NoExpiredGrant, Earlier, TypeOK
<1>4. ASSUME NEW c \in Clients, RenewMany(c), MayRenew(c)
      PROVE  NoExpiredGrant'
  BY <1>4, RenewEffect, LockManyAssumption DEF NoExpiredGrant, Earlier, TypeOK, Grants
<1>5. ASSUME NEW c \in Clients, ReleaseMany(c), MayRelease(c)
      PROVE  NoExpiredGrant'
  BY <1>5, ReleaseEffect DEF FreeGrant, NoExpiredGrant
<1>6. ASSUME NEW c \in Clients, Partition(c), MayPartition(c)
      PROVE  NoExpiredGrant'
  BY <1>6, PartitionEffect DEF NoExpiredGrant
<1>7. ASSUME NEW c \in Clients, NEW v \in Values, WriteMany(c, v), MayWrite(c, v)
      PROVE  NoExpiredGrant'
  BY <1>7, WriteEffect DEF NoExpiredGrant
<1> QED
  BY StepCases, <1>1, <1>2, <1>3, <1>4, <1>5, <1>6, <1>7

LEMMA WholeStep ==
    ASSUME TypeOK, NoExpiredGrant, GrantIsWhole, [Next]_vars
    PROVE  GrantIsWhole'
<1>1. CASE UNCHANGED stateVars
  BY <1>1 DEF stateVars, GrantIsWhole
<1>2. CASE Tick /\ now < MaxTime
  <2>1. grant' = grant \/ grant' = FreeGrant
    BY <1>2, TickEffect DEF Expire
  <2> QED
    BY <1>2, <2>1, TickEffect DEF GrantIsWhole
<1>3. ASSUME NEW c \in Clients, AcquireMany(c), MayAcquire(c)
      PROVE  GrantIsWhole'
  <2>1. grant'.owner = c /\ grant'.fences = lastFences' /\ tokens'[c] = lastFences'
    BY <1>3, AcquireEffect DEF TypeOK
  <2>2. \A l \in Locks : lastFences'[l] > 0
    BY <1>3, AcquireEffect, LockManyAssumption DEF TypeOK, Fences
  <2> QED
    BY <2>1, <2>2 DEF GrantIsWhole
<1>4. ASSUME NEW c \in Clients, RenewMany(c), MayRenew(c)
      PROVE  GrantIsWhole'
  <2>1. grant # FreeGrant
    BY <1>4, RenewEffect, LockManyAssumption DEF FreeGrant
  <2> QED
    BY <1>4, <2>1, RenewEffect DEF GrantIsWhole
<1>5. ASSUME NEW c \in Clients, ReleaseMany(c), MayRelease(c)
      PROVE  GrantIsWhole'
  BY <1>5, ReleaseEffect DEF GrantIsWhole
<1>6. ASSUME NEW c \in Clients, Partition(c), MayPartition(c)
      PROVE  GrantIsWhole'
  <2>1. grant # FreeGrant
    BY <1>6, PartitionEffect, LockManyAssumption DEF FreeGrant
  <2> QED
    BY <1>6, <2>1, PartitionEffect DEF GrantIsWhole
<1>7. ASSUME NEW c \in Clients, NEW v \in Values, WriteMany(c, v), MayWrite(c, v)
      PROVE  GrantIsWhole'
  BY <1>7, WriteEffect DEF GrantIsWhole
<1> QED
  BY StepCases, <1>1, <1>2, <1>3, <1>4, <1>5, <1>6, <1>7

LEMMA AtomicStep ==
    ASSUME TypeOK, NoExpiredGrant, GroupAtomic, [Next]_vars
    PROVE  GroupAtomic'
<1>1. CASE UNCHANGED stateVars
  BY <1>1 DEF stateVars, GroupAtomic, Uniform
<1>2. CASE Tick /\ now < MaxTime
  <2>1. Uniform(FreeGrant.fences)
    BY DEF Uniform, FreeGrant, NoFences
  <2>2. grant' = grant \/ grant' = FreeGrant
    BY <1>2, TickEffect DEF Expire
  <2> QED
    BY <1>2, <2>1, <2>2, TickEffect DEF GroupAtomic, Uniform
<1>3. ASSUME NEW c \in Clients, AcquireMany(c), MayAcquire(c)
      PROVE  GroupAtomic'
  <2>1. Uniform(lastFences')
    BY <1>3, AcquireEffect DEF GroupAtomic, Uniform
  <2>2. \A d \in Clients : tokens'[d] = (IF d = c THEN lastFences' ELSE tokens[d])
    BY <1>3, AcquireEffect DEF TypeOK
  <2>3. \A d \in Clients : Uniform(tokens'[d])
    BY <2>1, <2>2 DEF GroupAtomic, Uniform
  <2>4. grant'.fences = lastFences'
    BY <1>3, AcquireEffect
  <2> QED
    BY <1>3, <2>1, <2>3, <2>4, AcquireEffect DEF GroupAtomic, Uniform
<1>4. ASSUME NEW c \in Clients, RenewMany(c), MayRenew(c)
      PROVE  GroupAtomic'
  BY <1>4, RenewEffect DEF GroupAtomic, Uniform
<1>5. ASSUME NEW c \in Clients, ReleaseMany(c), MayRelease(c)
      PROVE  GroupAtomic'
  BY <1>5, ReleaseEffect DEF GroupAtomic, Uniform, FreeGrant, NoFences
<1>6. ASSUME NEW c \in Clients, Partition(c), MayPartition(c)
      PROVE  GroupAtomic'
  BY <1>6, PartitionEffect DEF GroupAtomic, Uniform
<1>7. ASSUME NEW c \in Clients, NEW v \in Values, WriteMany(c, v), MayWrite(c, v)
      PROVE  GroupAtomic'
  BY <1>7, WriteEffect DEF GroupAtomic, Uniform
<1> QED
  BY StepCases, <1>1, <1>2, <1>3, <1>4, <1>5, <1>6, <1>7

LEMMA OneHolderStep ==
    ASSUME TypeOK, NoExpiredGrant, FenceHasOneHolder, [Next]_vars
    PROVE  FenceHasOneHolder'
<1>1. CASE UNCHANGED <<lastFences, tokens, resourceFences>>
  BY <1>1 DEF FenceHasOneHolder
<1>2. ASSUME NEW c \in Clients, AcquireMany(c), MayAcquire(c)
      PROVE  FenceHasOneHolder'
  <2> SUFFICES ASSUME NEW l \in Locks
               PROVE  /\ resourceFences'[l] <= lastFences'[l]
                      /\ \A d \in Clients : tokens'[d][l] <= lastFences'[l]
                      /\ \A d, e \in Clients :
                            d # e /\ tokens'[d][l] = tokens'[e][l] => tokens'[d][l] = 0
    BY DEF FenceHasOneHolder
  <2>1. /\ lastFences[l] \in Nat /\ resourceFences[l] \in Nat
        /\ \A d \in Clients : tokens[d][l] \in Nat
    BY LockManyAssumption DEF TypeOK, Fences
  <2>2. lastFences'[l] = lastFences[l] + 1 /\ resourceFences' = resourceFences
    BY <1>2, AcquireEffect
  <2>3. \A d \in Clients : tokens'[d][l] = (IF d = c THEN lastFences'[l] ELSE tokens[d][l])
    BY <1>2, AcquireEffect DEF TypeOK
  <2> QED
    BY <2>1, <2>2, <2>3 DEF FenceHasOneHolder
<1>3. ASSUME NEW c \in Clients, NEW v \in Values, WriteMany(c, v), MayWrite(c, v)
      PROVE  FenceHasOneHolder'
  BY <1>3, WriteEffect DEF FenceHasOneHolder
<1> QED
  BY StepCases, <1>1, <1>2, <1>3, TickEffect, RenewEffect, ReleaseEffect, PartitionEffect
     DEF stateVars

LEMMA NewestIsHeldStep ==
    ASSUME TypeOK, NoExpiredGrant, NewestIsHeld, [Next]_vars
    PROVE  NewestIsHeld'
<1>1. CASE UNCHANGED <<lastFences, tokens>>
  BY <1>1 DEF NewestIsHeld
<1>2. ASSUME NEW c \in Clients, AcquireMany(c), MayAcquire(c)
      PROVE  NewestIsHeld'
  <2>1. tokens'[c] = lastFences'
    BY <1>2, AcquireEffect DEF TypeOK
  <2> QED
    BY <2>1 DEF NewestIsHeld
<1> QED
  BY StepCases, <1>1, <1>2, TickEffect, RenewEffect, ReleaseEffect, PartitionEffect, WriteEffect
     DEF stateVars

LEMMA IInvStep == IInv /\ [Next]_vars => IInv'
  BY TypeStep, NoExpiredStep, WholeStep, AtomicStep, OneHolderStep, NewestIsHeldStep DEF IInv

\* The inductive invariant holds in every reachable state of lock-many.
THEOREM Inductive == Spec => []IInv
  BY InitIInv, IInvStep, PTL DEF Spec

-----------------------------------------------------------------------------
(***************************************************************************)
(* The invariants.                                                         *)
(***************************************************************************)

\* Every variable of lock-many keeps its type and stays inside the limits.
THEOREM TypeCorrect == Spec => []TypeOK
  BY Inductive, PTL DEF IInv

\* acquire-many, renew-many, release-many and write-many never leave a part
\* of the group behind, however many locks it has.
THEOREM Atomic == Spec => []GroupAtomic
  BY Inductive, PTL DEF IInv

\* The group is entirely free, or entirely held with the newest fences.
THEOREM Whole == Spec => []GrantIsWhole
  BY Inductive, PTL DEF IInv

\* expire() never finds anything to do: no stored state holds a dead lease.
THEOREM NeverStoredExpired == Spec => []NoExpiredGrant
  BY Inductive, PTL DEF IInv

\* However acquisition, expiry and partition interleave, no fence is ever
\* given to two clients.
THEOREM FenceUnique == Spec => []FenceHasOneHolder
  BY Inductive, PTL DEF IInv

-----------------------------------------------------------------------------
(***************************************************************************)
(* The action properties.                                                  *)
(***************************************************************************)

FencesGoUp ==
    \A l \in Locks :
        /\ lastFences'[l] >= lastFences[l]
        /\ resourceFences'[l] >= resourceFences[l]
        /\ grant.owner = None /\ grant'.owner # None => lastFences'[l] > lastFences[l]

LEMMA FencesGoUpStep ==
    ASSUME IInv, [Next]_vars
    PROVE  FencesGoUp
<1> USE DEF FencesGoUp
<1>0. /\ TypeOK /\ NoExpiredGrant /\ GrantIsWhole
      /\ \A l \in Locks : lastFences[l] \in Nat /\ resourceFences[l] \in Nat
  BY LockManyAssumption DEF IInv, TypeOK, Fences
<1>1. CASE UNCHANGED stateVars
  BY <1>0, <1>1 DEF stateVars
<1>2. CASE Tick /\ now < MaxTime
  <2>1. grant.owner = None => grant'.owner = None
    BY <1>0, <1>2, TickEffect DEF Expire
  <2> QED
    BY <1>0, <1>2, <2>1, TickEffect
<1>3. ASSUME NEW c \in Clients, AcquireMany(c), MayAcquire(c)
      PROVE  FencesGoUp
  BY <1>0, <1>3, AcquireEffect
<1>4. ASSUME NEW c \in Clients, RenewMany(c), MayRenew(c)
      PROVE  FencesGoUp
  BY <1>0, <1>4, RenewEffect, LockManyAssumption
<1>5. ASSUME NEW c \in Clients, ReleaseMany(c), MayRelease(c)
      PROVE  FencesGoUp
  BY <1>0, <1>5, ReleaseEffect DEF FreeGrant
<1>6. ASSUME NEW c \in Clients, Partition(c), MayPartition(c)
      PROVE  FencesGoUp
  BY <1>0, <1>6, PartitionEffect, LockManyAssumption
<1>7. ASSUME NEW c \in Clients, NEW v \in Values, WriteMany(c, v), MayWrite(c, v)
      PROVE  FencesGoUp
  <2>1. \A l \in Locks : tokens[c][l] \in Nat /\ tokens[c][l] >= resourceFences[l]
    BY <1>0, <1>7, WriteEffect, LockManyAssumption DEF Fresh, ExactReplay, TypeOK, Fences
  <2> QED
    BY <1>0, <1>7, <2>1, WriteEffect
<1> QED
  BY <1>0, <1>1, <1>2, <1>3, <1>4, <1>5, <1>6, <1>7, StepCases

\* Fences never regress, and each grant's fences are new.
THEOREM Monotonic == Spec => FencesMonotonic
<1>1. IInv /\ [Next]_vars => [FencesGoUp]_vars
  BY FencesGoUpStep
<1> QED
  BY <1>1, Inductive, PTL DEF Spec, FencesMonotonic, FencesGoUp

\* Only an accepted write touches the resources, and what it finds and leaves.
LEMMA CommitCases ==
    ASSUME IInv, [Next]_vars
    PROVE  \/ UNCHANGED <<resourceFences, resourceValues>>
           \/ \E c \in Clients, v \in Values :
                /\ WriteMany(c, v) /\ MayWrite(c, v)
                /\ grant.owner = c /\ grant.connected
                /\ tokens[c] = lastFences
                /\ resourceFences' = lastFences
<1>1. TypeOK /\ NoExpiredGrant /\ GrantIsWhole
  BY DEF IInv
<1>2. ASSUME NEW c \in Clients, NEW v \in Values, WriteMany(c, v), MayWrite(c, v)
      PROVE  /\ grant.owner = c /\ grant.connected
             /\ tokens[c] = lastFences
             /\ resourceFences' = lastFences
  BY <1>1, <1>2, WriteEffect, LockManyAssumption DEF GrantIsWhole, FreeGrant
<1> QED
  BY <1>1, <1>2, StepCases, TickEffect, AcquireEffect, RenewEffect, ReleaseEffect,
     PartitionEffect DEF stateVars

\* A write that changes a resource is the connected owner's, under the newest
\* fences: a partitioned or superseded holder commits nothing.
THEOREM CommitsAreCurrent == Spec => CommitCarriesNewestFence
<1> DEFINE A == <<resourceFences, resourceValues>>' # <<resourceFences, resourceValues>>
                    => /\ resourceFences' = lastFences
                       /\ outcome'.client = grant.owner
                       /\ grant.connected
<1>1. IInv /\ [Next]_vars => [A]_vars
  <2> SUFFICES ASSUME IInv, [Next]_vars PROVE A
    OBVIOUS
  <2>1. ASSUME NEW c \in Clients, NEW v \in Values, WriteMany(c, v)
        PROVE  outcome'.client = c
    BY <2>1 DEF WriteMany, Accepted, Refused
  <2> QED
    BY <2>1, CommitCases
<1> QED
  BY <1>1, Inductive, PTL DEF Spec, CommitCarriesNewestFence

\* What was committed under a fence is never replaced under the same fence.
THEOREM OneValue == Spec => OneValuePerFence
<1> DEFINE A == \A l \in Locks :
                    resourceFences'[l] = resourceFences[l]
                        => resourceValues'[l] = resourceValues[l]
<1>1. IInv /\ [Next]_vars => [A]_vars
  <2> SUFFICES ASSUME IInv, [Next]_vars, NEW l \in Locks,
                      resourceFences'[l] = resourceFences[l]
               PROVE  resourceValues'[l] = resourceValues[l]
    OBVIOUS
  <2>1. TypeOK /\ NoExpiredGrant
    BY DEF IInv
  <2>2. ASSUME NEW c \in Clients, NEW v \in Values, WriteMany(c, v), MayWrite(c, v)
        PROVE  resourceValues'[l] = resourceValues[l]
    <3>1. ~Fresh(c)
      <4>1. tokens[c][l] = resourceFences[l] /\ resourceFences[l] \in Nat
        BY <2>1, <2>2, WriteEffect, LockManyAssumption DEF TypeOK, Fences
      <4> QED
        BY <4>1 DEF Fresh
    <3> QED
      BY <2>1, <2>2, <3>1, WriteEffect DEF ExactReplay
  <2> QED
    BY <2>2, CommitCases
<1> QED
  BY <1>1, Inductive, PTL DEF Spec, OneValuePerFence

\* A partition neither shortens nor lengthens the lease, and nobody but the
\* clock ends it.
THEOREM PartitionRetains == Spec => PartitionRetainsGrant
<1> DEFINE A == grant.owner # None /\ ~grant.connected
                    => \/ grant' = grant
                       \/ grant' = FreeGrant /\ now' >= grant.expiresAt
<1>1. IInv /\ [Next]_vars => [A]_vars
  <2> SUFFICES ASSUME IInv, [Next]_vars, grant.owner # None, ~grant.connected
               PROVE  \/ grant' = grant
                      \/ grant' = FreeGrant /\ now' >= grant.expiresAt
    OBVIOUS
  <2>1. TypeOK /\ NoExpiredGrant
    BY DEF IInv
  <2>2. CASE Tick /\ now < MaxTime
    BY <2>1, <2>2, TickEffect, LockManyAssumption DEF Expire, TypeOK, Grants
  <2> QED
    BY <2>1, <2>2, StepCases, AcquireEffect, RenewEffect, ReleaseEffect, PartitionEffect,
       WriteEffect DEF stateVars
<1> QED
  BY <1>1, Inductive, PTL DEF Spec, PartitionRetainsGrant

LEMMA RefusalStep ==
    ASSUME IInv, Next, ~outcome'.accepted
    PROVE  UNCHANGED stateVars
<1>1. TypeOK /\ NoExpiredGrant
  BY DEF IInv
<1>2. ASSUME NEW k, NEW c, NEW r, Accepted(k, c, r)
      PROVE  FALSE
  BY <1>2 DEF Accepted
<1>3. CASE Tick
  BY <1>1, <1>2, <1>3, RefusedIsStutter DEF Tick
<1>4. ASSUME NEW c \in Callers,
             AcquireMany(c) \/ RenewMany(c) \/ ReleaseMany(c) \/ Partition(c)
      PROVE  UNCHANGED stateVars
  BY <1>1, <1>2, <1>4, RefusedIsStutter DEF AcquireMany, RenewMany, ReleaseMany, Partition
<1>5. ASSUME NEW c \in Callers, NEW v \in Payloads, WriteMany(c, v)
      PROVE  UNCHANGED stateVars
  BY <1>1, <1>2, <1>5, RefusedIsStutter DEF WriteMany
<1>6. CASE UnknownAction
  BY <1>1, <1>6, RefusedIsStutter DEF UnknownAction
<1> QED
  BY <1>3, <1>4, <1>5, <1>6 DEF Next

\* A refused call is a stutter of the protocol: explore() may drop what it
\* returns.
THEOREM RefusalsAreStutters == Spec => RefusalChangesNothing
<1>1. IInv /\ [Next]_vars
        => [~outcome'.accepted => UNCHANGED stateVars]_vars
  BY RefusalStep
<1> QED
  BY <1>1, Inductive, PTL DEF Spec, RefusalChangesNothing, stateVars

\* Success in a renewal, a release or a write is the connected and not
\* superseded owner's, although renew-many compares no token.
THEOREM AuthorityCurrent == Spec => AuthorityIsCurrent
<1> DEFINE A == outcome'.accepted /\ outcome'.kind \in {"renew-many", "release-many", "write-many"}
                    => /\ outcome'.client = grant.owner
                       /\ grant.connected
                       /\ tokens[outcome'.client] = lastFences
<1>1. IInv /\ [Next]_vars => [A]_vars
  <2> SUFFICES ASSUME IInv, Next, outcome'.accepted,
                      outcome'.kind \in {"renew-many", "release-many", "write-many"}
               PROVE  /\ outcome'.client = grant.owner
                      /\ grant.connected
                      /\ tokens[outcome'.client] = lastFences
    OBVIOUS
  <2>1. TypeOK /\ NoExpiredGrant /\ GrantIsWhole
    BY DEF IInv
  <2>2. ASSUME NEW k, NEW c, NEW r, Refused(k, c, r)
        PROVE  FALSE
    BY <2>2 DEF Refused
  <2>3. ASSUME NEW k, NEW c, NEW r, Accepted(k, c, r)
        PROVE  outcome'.client = c /\ k \in {"renew-many", "release-many", "write-many"}
    BY <2>3 DEF Accepted
  <2>4. ASSUME NEW c \in Clients, outcome'.client = c, grant.owner = c, grant.connected
        PROVE  /\ outcome'.client = grant.owner
               /\ grant.connected
               /\ tokens[outcome'.client] = lastFences
    BY <2>1, <2>4, LockManyAssumption DEF GrantIsWhole, FreeGrant
  <2>5. ~Tick /\ ~UnknownAction
    BY <2>2, <2>3 DEF Tick, UnknownAction
  <2>6. \A c \in Callers : ~AcquireMany(c) /\ ~Partition(c)
    BY <2>2, <2>3 DEF AcquireMany, Partition
  <2>7. ASSUME NEW c \in Callers, RenewMany(c)
        PROVE  c \in Clients /\ outcome'.client = c /\ grant.owner = c /\ grant.connected
    BY <2>1, <2>2, <2>3, <2>7, RenewEffect DEF RenewMany, MayRenew
  <2>8. ASSUME NEW c \in Callers, ReleaseMany(c)
        PROVE  c \in Clients /\ outcome'.client = c /\ grant.owner = c /\ grant.connected
    BY <2>1, <2>2, <2>3, <2>8, ReleaseEffect DEF ReleaseMany, MayRelease
  <2>9. ASSUME NEW c \in Callers, NEW v \in Payloads, WriteMany(c, v)
        PROVE  c \in Clients /\ outcome'.client = c /\ grant.owner = c /\ grant.connected
    BY <2>1, <2>2, <2>3, <2>9, WriteEffect DEF WriteMany, MayWrite
  <2> QED
    BY <2>4, <2>5, <2>6, <2>7, <2>8, <2>9 DEF Next
<1> QED
  BY <1>1, Inductive, PTL DEF Spec, AuthorityIsCurrent

\* "stale-fence" is true when it is said: another client was granted newer
\* fences for the whole group.  This is what NewestIsHeld is for.
THEOREM StaleIsSuperseded == Spec => StaleMeansSuperseded
<1> DEFINE A == outcome'.reason = "stale-fence"
                    => \E d \in Clients \ {outcome'.client} : \A l \in Locks :
                            tokens[d][l] > tokens[outcome'.client][l]
<1>1. IInv /\ [Next]_vars => [A]_vars
  <2> SUFFICES ASSUME IInv, Next, outcome'.reason = "stale-fence"
               PROVE  \E d \in Clients \ {outcome'.client} : \A l \in Locks :
                            tokens[d][l] > tokens[outcome'.client][l]
    OBVIOUS
  <2>1. ASSUME NEW k, NEW c, NEW r, Accepted(k, c, r) \/ Refused(k, c, r)
        PROVE  outcome'.client = c /\ r = "stale-fence"
    BY <2>1 DEF Accepted, Refused
  <2>2. ~Tick /\ ~UnknownAction
    BY <2>1 DEF Tick, UnknownAction
  <2>3. \A c \in Callers : /\ ~AcquireMany(c) /\ ~RenewMany(c)
                           /\ ~ReleaseMany(c) /\ ~Partition(c)
    BY <2>1 DEF AcquireMany, RenewMany, ReleaseMany, Partition
  <2>4. PICK c \in Callers, v \in Payloads : WriteMany(c, v)
    BY <2>2, <2>3 DEF Next
  <2>5. /\ outcome'.client = c
        /\ Refused("write-many", c, WriteRefusal(c, v))
        /\ WriteRefusal(c, v) = "stale-fence"
    BY <2>1, <2>4 DEF WriteMany
  <2>6. c \in Clients /\ \E l \in Locks : tokens[c][l] < resourceFences[l]
    BY <2>5 DEF WriteRefusal
  <2>7. PICK m \in Locks : tokens[c][m] < resourceFences[m]
    BY <2>6
  <2>8. /\ lastFences \in [Locks -> Nat] /\ resourceFences \in [Locks -> Nat]
        /\ tokens \in [Clients -> [Locks -> Nat]]
    BY LockManyAssumption DEF IInv, TypeOK, Fences
  <2>9. tokens[c][m] < lastFences[m] /\ lastFences # NoFences
    BY <2>6, <2>7, <2>8 DEF IInv, FenceHasOneHolder, NoFences
  <2>10. PICK d \in Clients : tokens[d] = lastFences
    BY <2>9 DEF IInv, NewestIsHeld
  <2>11. \A l \in Locks : tokens[d][l] > tokens[c][l]
    <3> SUFFICES ASSUME NEW l \in Locks PROVE tokens[d][l] > tokens[c][l]
      OBVIOUS
    <3>1. lastFences[l] = lastFences[m] /\ tokens[c][l] = tokens[c][m]
      BY <2>6 DEF IInv, GroupAtomic, Uniform
    <3> QED
      BY <2>6, <2>8, <2>9, <2>10, <3>1
  <2>12. d # c
    BY <2>7, <2>8, <2>9, <2>10
  <2> QED
    BY <2>5, <2>10, <2>11, <2>12
<1> QED
  BY <1>1, Inductive, PTL DEF Spec, StaleMeansSuperseded

-----------------------------------------------------------------------------
(***************************************************************************)
(* The assertions of step().                                               *)
(***************************************************************************)

LEMMA InvariantAsserts == IInv => AssertState
<1> SUFFICES ASSUME IInv PROVE AssertState
  OBVIOUS
<1>1. /\ now <= MaxTime
      /\ lastFences \in [Locks -> Fences] /\ grant \in Grants
      /\ \A l \in Locks : lastFences[l] <= MaxFence /\ resourceFences[l] <= lastFences[l]
  BY LockManyAssumption DEF IInv, TypeOK, Fences, FenceHasOneHolder
<1>2. Uniform(resourceFences) /\ Uniform(resourceValues)
  BY DEF IInv, GroupAtomic
<1>3. grant.owner = None => grant = FreeGrant
  BY LockManyAssumption DEF IInv, GrantIsWhole
<1>4. grant.owner # None =>
            /\ grant.owner \in Clients
            /\ \A l \in Locks : grant.fences[l] = lastFences[l] /\ grant.fences[l] > 0
            /\ tokens[grant.owner] = grant.fences
  BY DEF IInv, GrantIsWhole, FreeGrant
<1> QED
  BY <1>1, <1>2, <1>3, <1>4 DEF AssertState

\* What an accepted call of each kind asserts.
LEMMA AcceptedAsserts ==
    ASSUME IInv, Next
    PROVE  /\ Took("acquire-many") => \A l \in Locks : lastFences'[l] = lastFences[l] + 1
           /\ Took("renew-many") => grant'.fences = Before.fences
           /\ Took("partition") => /\ grant'.owner = Before.owner
                                   /\ grant'.expiresAt = Before.expiresAt
<1>1. TypeOK /\ NoExpiredGrant /\ Before = grant
  BY BeforeIsGrant DEF IInv
<1>2. ASSUME NEW k, NEW c, NEW r, NEW q, Accepted(k, c, r), Took(q)
      PROVE  k = q
  BY <1>2 DEF Accepted, Took
<1>3. ASSUME NEW k, NEW c, NEW r, NEW q, Refused(k, c, r), Took(q)
      PROVE  FALSE
  BY <1>3 DEF Refused, Took
<1>4. ASSUME Took("acquire-many")
      PROVE  \A l \in Locks : lastFences'[l] = lastFences[l] + 1
  <2>1. PICK c \in Callers : AcquireMany(c)
    BY <1>2, <1>3, <1>4 DEF Next, Tick, RenewMany, ReleaseMany, Partition, WriteMany, UnknownAction
  <2>2. MayAcquire(c) /\ c \in Clients
    BY <1>3, <1>4, <2>1 DEF AcquireMany, MayAcquire
  <2> QED
    BY <1>1, <2>1, <2>2, AcquireEffect
<1>5. ASSUME Took("renew-many")
      PROVE  grant'.fences = Before.fences
  <2>1. PICK c \in Callers : RenewMany(c)
    BY <1>2, <1>3, <1>5 DEF Next, Tick, AcquireMany, ReleaseMany, Partition, WriteMany, UnknownAction
  <2>2. MayRenew(c) /\ c \in Clients
    BY <1>3, <1>5, <2>1 DEF RenewMany, MayRenew
  <2> QED
    BY <1>1, <2>1, <2>2, RenewEffect
<1>6. ASSUME Took("partition")
      PROVE  grant'.owner = Before.owner /\ grant'.expiresAt = Before.expiresAt
  <2>1. PICK c \in Callers : Partition(c)
    BY <1>2, <1>3, <1>6 DEF Next, Tick, AcquireMany, RenewMany, ReleaseMany, WriteMany, UnknownAction
  <2>2. MayPartition(c) /\ c \in Clients
    BY <1>3, <1>6, <2>1 DEF Partition, MayPartition
  <2> QED
    BY <1>1, <2>1, <2>2, PartitionEffect
<1> QED
  BY <1>4, <1>5, <1>6

\* No call makes step() throw: neither the exploration nor the replay of any
\* document can fail on an assertion, whatever the bounds.
THEOREM NeverThrows == Spec => AssertionsHold
<1>1. IInv /\ [Next]_vars => [AssertState' /\ AssertTransition]_vars
  <2> SUFFICES ASSUME IInv, Next PROVE AssertState' /\ AssertTransition
    OBVIOUS
  <2>1. AssertState'
    <3>1. IInv'
      BY IInvStep
    <3> QED
      BY <3>1, InvariantAsserts, PTL
  <2>2. \A l \in Locks : /\ lastFences'[l] >= lastFences[l]
                        /\ resourceFences'[l] >= resourceFences[l]
    BY FencesGoUpStep DEF FencesGoUp
  <2>3. outcome'.kind = "write-many" /\ ~outcome'.accepted
            => UNCHANGED <<resourceFences, resourceValues>>
    BY RefusalStep DEF stateVars
  <2> QED
    BY <2>1, <2>2, <2>3, AcceptedAsserts DEF AssertTransition
<1> QED
  BY <1>1, Inductive, PTL DEF Spec, AssertionsHold

-----------------------------------------------------------------------------
(***************************************************************************)
(* Refinement.                                                             *)
(***************************************************************************)

LEMMA AnyLockIsLock == AnyLock \in Locks
  BY LockManyAssumption DEF AnyLock

\* Every step of lock-many is a step of the fenced lease, or a stutter of it.
LEMMA LeaseStep == IInv /\ [Next]_vars => [Lease!Next]_Lease!leaseVars
<1> SUFFICES ASSUME IInv, [Next]_vars
             PROVE  [Lease!Next]_Lease!leaseVars
  OBVIOUS
<1> USE AnyLockIsLock
<1>1. TypeOK /\ NoExpiredGrant
  BY DEF IInv
<1>2. CASE UNCHANGED <<grant, lastFences, resourceFences, resourceValues>>
  BY <1>2 DEF Lease!leaseVars
<1>3. CASE Tick /\ now < MaxTime
  <2>1. CASE grant' = grant
    BY <1>1, <1>2, <1>3, <2>1, TickEffect
  <2>2. CASE grant.owner # None /\ grant' = FreeGrant
    <3>1. Lease!Free
      BY <1>1, <1>3, <2>2, TickEffect DEF Lease!Free, FreeGrant
    <3> QED
      BY <3>1 DEF Lease!Next
  <2> QED
    BY <1>1, <1>3, <2>1, <2>2, TickEffect DEF Expire
<1>4. ASSUME NEW c \in Clients, AcquireMany(c), MayAcquire(c)
      PROVE  Lease!Next
  <2>1. Lease!Grant(c)
    BY <1>1, <1>4, AcquireEffect DEF Lease!Grant
  <2> QED
    BY <2>1 DEF Lease!Next
<1>5. ASSUME NEW c \in Clients, RenewMany(c), MayRenew(c)
      PROVE  UNCHANGED Lease!leaseVars
  BY <1>1, <1>5, RenewEffect DEF Lease!leaseVars
<1>6. ASSUME NEW c \in Clients, ReleaseMany(c), MayRelease(c)
      PROVE  Lease!Next
  <2>1. Lease!Free
    BY <1>1, <1>6, ReleaseEffect, LockManyAssumption DEF Lease!Free, FreeGrant
  <2> QED
    BY <2>1 DEF Lease!Next
<1>7. ASSUME NEW c \in Clients, Partition(c), MayPartition(c)
      PROVE  UNCHANGED Lease!leaseVars
  BY <1>1, <1>7, PartitionEffect DEF Lease!leaseVars
<1>8. ASSUME NEW c \in Clients, NEW v \in Values, WriteMany(c, v), MayWrite(c, v)
      PROVE  [Lease!Next]_Lease!leaseVars
  <2>1. /\ grant.owner = c /\ grant' = grant /\ lastFences' = lastFences
        /\ tokens[c] = lastFences /\ resourceFences' = lastFences
        /\ resourceValues'[AnyLock] = v
    BY <1>1, <1>8, WriteEffect, LockManyAssumption DEF IInv, GrantIsWhole, FreeGrant
  <2>2. CASE Fresh(c)
    <3>1. resourceFences[AnyLock] < lastFences[AnyLock]
      BY <1>1, <2>1, <2>2, LockManyAssumption DEF Fresh, TypeOK, Fences
    <3>2. Lease!Commit(v)
      BY <2>1, <3>1, LockManyAssumption DEF Lease!Commit
    <3> QED
      BY <3>2 DEF Lease!Next
  <2>3. CASE ExactReplay(c, v)
    BY <2>1, <2>3 DEF ExactReplay, Lease!leaseVars
  <2> QED
    BY <1>1, <1>8, <2>2, <2>3, WriteEffect
<1> QED
  BY <1>1, <1>2, <1>3, <1>4, <1>5, <1>6, <1>7, <1>8, StepCases DEF stateVars

\* A group of any number of locks and resources behaves as one lock with one
\* resource: lock-many is atomic.
THEOREM Refinement == Spec => ImplementsFencedLease
<1>1. Init => Lease!Init
  BY AnyLockIsLock DEF Init, Lease!Init, FreeGrant, NoFences
<1> QED
  BY <1>1, LeaseStep, Inductive, PTL DEF Spec, ImplementsFencedLease, Lease!Spec
=============================================================================
