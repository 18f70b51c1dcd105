---------------------------- MODULE FencedLease ----------------------------
(***************************************************************************)
(* What a fenced lease promises, for ONE lock and ONE protected resource.  *)
(*                                                                         *)
(* At most one client holds the lease.  Every grant mints the next fence.  *)
(* The resource is written only while the lease is held, with the newest   *)
(* fence, at most once per fence; what was written under a fence is never  *)
(* replaced under the same fence.                                          *)
(*                                                                         *)
(* LockManyFencing implements this specification for a whole GROUP of      *)
(* locks and resources: that is what "lock-many is atomic" means.          *)
(***************************************************************************)
EXTENDS Naturals

CONSTANTS
    Clients,    \* clients that can hold the lease
    Values,     \* values a holder can commit
    None        \* "no holder"

VARIABLES
    holder,     \* the client that holds the lease, or None
    fence,      \* the newest fence minted
    committed,  \* the fence of the last committed write, 0 before the first
    value       \* the value of the last committed write, 0 before the first

leaseVars == <<holder, fence, committed, value>>

Init ==
    /\ holder = None
    /\ fence = 0
    /\ committed = 0
    /\ value = 0

\* The lease is granted with the next fence.
Grant(c) ==
    /\ holder = None
    /\ holder' = c
    /\ fence' = fence + 1
    /\ UNCHANGED <<committed, value>>

\* The lease ends, by release or by expiry.
Free ==
    /\ holder # None
    /\ holder' = None
    /\ UNCHANGED <<fence, committed, value>>

\* The holder's only write under its fence.
Commit(v) ==
    /\ holder # None
    /\ committed < fence
    /\ committed' = fence
    /\ value' = v
    /\ UNCHANGED <<holder, fence>>

Next ==
    \/ \E c \in Clients : Grant(c)
    \/ Free
    \/ \E v \in Values : Commit(v)

Spec == Init /\ [][Next]_leaseVars
=============================================================================
