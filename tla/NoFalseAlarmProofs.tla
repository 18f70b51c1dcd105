------------------------- MODULE NoFalseAlarmProofs -------------------------
(***************************************************************************)
(* Proof that an Honest cluster never makes the scenario of                *)
(* StaleFencingRun fail an assertion, unless there was trouble: an answer  *)
(* was lost, a request delayed, a lease ran out too early, or the search   *)
(* for a leader was in vain.                                               *)
(*                                                                         *)
(* While there is no trouble, what the cluster holds is a function of      *)
(* main()'s place in the script (Quiet), whoever leads, whatever crashes   *)
(* and however often a call is tried.  Every answer is then the one the    *)
(* script expects.                                                         *)
(***************************************************************************)
EXTENDS StaleFencingProofs

Grant(h) == [holder |-> h, token |-> token[h]]

\* Who holds "orders", by the place in the script; holder-a's lease may lapse.
OrdersLock ==
    /\ step <= 4 => locks["orders"] = Free
    /\ step \in 5..6 => locks["orders"] \in {Free, Grant("a")}
    /\ step = 7 => locks["orders"] = Free
    /\ step \in 8..19 => locks["orders"] = Grant("b")
    /\ step = 20 => locks["orders"] = Free
    /\ step \in 21..29 => locks["orders"] = Grant("c")
    /\ step = 30 => locks["orders"] = Free

UnionLocks ==
    /\ step <= 33 => \A k \in Union : locks[k] = Free
    /\ step \in 34..35 => \A k \in Union : locks[k] = Grant("union")
    /\ step = 36 => \A k \in Union : locks[k] = Free

\* Whose token the downstream has seen last.
Highest ==
    /\ step <= 5 => highestToken = 0
    /\ step \in 6..8 => highestToken = token["a"]
    /\ step \in 9..21 => highestToken = token["b"]
    /\ step \in 22..31 => highestToken = token["c"]
    /\ step = 32 => highestToken = token["d"]

\* No token is newer than the newest, and holder-a's is one.
Minted ==
    /\ \A h \in Holders \cup {Nobody} : token[h] <= newest
    /\ step > 4 => token["a"] > 0

Quiet == delayed = {} /\ OrdersLock /\ UnionLocks /\ Highest /\ Minted

Calm ==
    /\ phase = "run" /\ ~trouble => Quiet
    /\ FailsOnlyInTrouble

-----------------------------------------------------------------------------
(***************************************************************************)
(* What an honest cluster answers.                                         *)
(***************************************************************************)

LEMMA Granted ==
    ASSUME Honest, Types, Minted, NEW keys, NEW h \in Holders, NEW over,
           Now = Acquire(keys, h, over), over \subseteq Holders \cup {Nobody},
           \A k \in keys : locks[k] = Free, NEW o \in Executed(Request)
    PROVE  /\ Expected(Now, o.answer)
           /\ o.locks = With(keys, [holder |-> h, token |-> newest + 1])
           /\ o.newest = newest + 1 /\ o.answer.token = newest + 1
<1>1. /\ Now.do = "acquire" /\ Now.keys = keys /\ Now.holder = h /\ Now.yes /\ Now.over = over
      /\ Request.kind = "acquire" /\ Request.keys = keys /\ Request.holder = h
  BY DEF Acquire, Request
<1>2. o = [locks |-> With(keys, [holder |-> h, token |-> newest + 1]), newest |-> newest + 1,
           answer |-> Yes(h, newest + 1)]
  BY <1>1 DEF Executed, Acquired
<1>3. \A g \in over : newest + 1 > token[g]
  BY DEF Types, Minted
<1> QED
  BY <1>1, <1>2, <1>3 DEF Yes, Expected, Acquire

LEMMA Refused ==
    ASSUME Honest, NEW keys, NEW h,
           \/ Now = Conflict(keys, h) /\ \A t : ~HeldAs(keys, h, t)
              /\ \E k \in keys : locks[k] # Free
           \/ /\ Now = Renew(keys, h, FALSE) \/ Now = Release(keys, h, FALSE)
              /\ ~HeldAs(keys, h, token[h]),
           NEW o \in Executed(Request)
    PROVE  Expected(Now, o.answer) /\ o.locks = locks /\ o.newest = newest
<1>1. CASE Now = Conflict(keys, h) /\ (\A t : ~HeldAs(keys, h, t)) /\ \E k \in keys : locks[k] # Free
  <2>1. Request.kind = "acquire" /\ Request.keys = keys /\ Request.holder = h
    BY <1>1 DEF Conflict, Request
  <2>2. o = Saying(No)
    BY <1>1, <2>1 DEF Executed, Acquired
  <2> QED
    BY <1>1, <2>2 DEF Saying, No, Expected, Conflict
<1>2. CASE Now = Renew(keys, h, FALSE) /\ ~HeldAs(keys, h, token[h])
  <2>1. Request.kind = "renew" /\ Request.keys = keys /\ Request.holder = h /\ Request.token = token[h]
    BY <1>2 DEF Renew, Request
  <2>2. o = Saying(No)
    BY <1>2, <2>1 DEF Executed, Renewed
  <2> QED
    BY <1>2, <2>2 DEF Saying, No, Expected, Renew
<1>3. CASE Now = Release(keys, h, FALSE) /\ ~HeldAs(keys, h, token[h])
  <2>1. Request.kind = "release" /\ Request.keys = keys /\ Request.holder = h /\ Request.token = token[h]
    BY <1>3 DEF Release, Request
  <2>2. o = Saying(No)
    BY <1>3, <2>1 DEF Executed, Released
  <2> QED
    BY <1>3, <2>2 DEF Saying, No, Expected, Release
<1> QED
  BY <1>1, <1>2, <1>3

LEMMA Confirmed ==
    ASSUME Honest, NEW keys, NEW h, HeldAs(keys, h, token[h]),
           Now = Renew(keys, h, TRUE) \/ (Now = Inspect(h) /\ keys = Orders),
           NEW o \in Executed(Request)
    PROVE  Expected(Now, o.answer) /\ o.locks = locks /\ o.newest = newest
<1>1. CASE Now = Renew(keys, h, TRUE)
  <2>1. Request.kind = "renew" /\ Request.keys = keys /\ Request.holder = h /\ Request.token = token[h]
    BY <1>1 DEF Renew, Request
  <2>2. o = Saying(Yes(h, token[h]))
    BY <1>1, <2>1 DEF Executed, Renewed
  <2> QED
    BY <1>1, <2>2 DEF Saying, Yes, Expected, Renew
<1>2. CASE Now = Inspect(h) /\ keys = Orders
  <2>1. Request.kind = "inspect" /\ Request.keys = keys
    BY <1>2 DEF Inspect, Request
  <2>2. PICK k \in keys : o = Saying(Yes(locks[k].holder, locks[k].token))
    BY <2>1 DEF Executed, Inspected
  <2>3. locks[k].holder = h /\ locks[k].token = token[h]
    BY DEF HeldAs
  <2> QED
    BY <1>2, <2>2, <2>3 DEF Saying, Yes, Expected, Inspect
<1> QED
  BY <1>1, <1>2

LEMMA GivenBack ==
    ASSUME Honest, NEW keys, NEW h, HeldAs(keys, h, token[h]), Now = Release(keys, h, TRUE),
           NEW o \in Executed(Request)
    PROVE  Expected(Now, o.answer) /\ o.locks = With(keys, Free) /\ o.newest = newest
<1>1. Request.kind = "release" /\ Request.keys = keys /\ Request.holder = h /\ Request.token = token[h]
  BY DEF Release, Request
<1>2. o = [locks |-> With(keys, Free), newest |-> newest, answer |-> Yes(Nobody, 0)]
  BY <1>1 DEF Executed, Released
<1> QED
  BY <1>2 DEF Yes, Expected, Release

-----------------------------------------------------------------------------
(***************************************************************************)
(* Calls and writes.                                                       *)
(***************************************************************************)

\* The steps after which somebody else holds a lock or has written.
Turning == {4, 5, 6, 7, 8, 19, 20, 21, 29, 30, 31, 33, 35}

LEMMA QuietStays ==
    ASSUME Types, Quiet, UNCHANGED <<delayed, token, newest, highestToken>>,
           \A k \in Orders \cup Union : locks'[k] = locks[k],
           step' = step \/ (step' = step + 1 /\ step \notin Turning)
    PROVE  Quiet'
<1>1. step \in 1..37
  BY DEF Types
<1>2. OrdersLock'
  BY <1>1 DEF Quiet, OrdersLock, Grant, Turning, Orders
<1>3. UnionLocks'
  BY <1>1 DEF Quiet, UnionLocks, Grant, Turning
<1>4. Highest' /\ Minted'
  BY <1>1 DEF Quiet, Highest, Minted, Turning
<1> QED
  BY <1>2, <1>3, <1>4 DEF Quiet

\* What is answered is what the script expects, and becomes what it relies on.
LEMMA AnsweredQuietly ==
    ASSUME Honest, Types, Quiet, NEW n \in Nodes, AttemptAnswered(n)
    PROVE  Succeeds /\ Quiet'
<1> USE RunAssumption, LockServiceAssumption
<1>1. /\ Calling /\ UNCHANGED <<delayed, highestToken>>
      /\ step \in {4, 7, 10, 11, 12, 15, 16, 18, 19, 20, 27, 28, 29, 30, 33, 34, 35, 36}
  BY Steps DEF AttemptAnswered, Attempting, mainVars, Types
<1>2. PICK o \in Executed(Request) :
          /\ Executes(Request, o)
          /\ IF Expected(Now, o.answer)
             THEN /\ Succeeds
                  /\ token' = IF Now.do = "acquire" /\ Now.yes
                              THEN [token EXCEPT ![Now.holder] = o.answer.token] ELSE token
             ELSE Fails("assertion") /\ UNCHANGED token
  BY DEF AttemptAnswered
<1>3. ASSUME Expected(Now, o.answer)
      PROVE  /\ Succeeds /\ step' = step + 1 /\ locks' = o.locks /\ newest' = o.newest
             /\ token' = IF Now.do = "acquire" /\ Now.yes
                         THEN [token EXCEPT ![Now.holder] = o.answer.token] ELSE token
  BY <1>2, <1>3 DEF Executes, Succeeds
<1>4. OrdersLock /\ UnionLocks /\ Highest /\ Minted /\ delayed = {}
  BY DEF Quiet
<1>5. ASSUME NEW keys, keys \subseteq Keys, NEW h \in Holders, NEW over,
             over \subseteq Holders \cup {Nobody},
             Now = Acquire(keys, h, over), \A k \in keys : locks[k] = Free
      PROVE  /\ Succeeds /\ step' = step + 1
             /\ \A k \in keys : locks'[k] = [holder |-> h, token |-> token'[h]]
             /\ \A k \in Keys \ keys : locks'[k] = locks[k]
             /\ \A g \in Holders : g # h => token'[g] = token[g]
             /\ token'[h] > 0
             /\ \A g \in Holders \cup {Nobody} : token'[g] <= newest'
  <2>1. /\ Expected(Now, o.answer)
        /\ o.locks = With(keys, [holder |-> h, token |-> newest + 1])
        /\ o.newest = newest + 1 /\ o.answer.token = newest + 1
    BY <1>4, <1>5, Granted
  <2>2. Now.do = "acquire" /\ Now.yes /\ Now.holder = h
    BY <1>5 DEF Acquire
  <2>3. token' = [token EXCEPT ![h] = newest + 1] /\ newest' = newest + 1 /\ newest \in Nat
    BY <1>3, <2>1, <2>2 DEF Types
  <2>4. token'[h] = newest + 1 /\ \A g \in Holders \cup {Nobody} : g # h => token'[g] = token[g]
    BY <2>3 DEF Types
  <2>5. \A g \in Holders \cup {Nobody} : token'[g] <= newest'
    BY <1>4, <2>3, <2>4 DEF Minted, Types
  <2> QED
    BY <1>3, <1>5, <2>1, <2>3, <2>4, <2>5 DEF With
<1>6. ASSUME NEW keys, NEW h,
             HeldAs(keys, h, token[h]),
             Now = Renew(keys, h, TRUE) \/ (Now = Inspect(h) /\ keys = Orders),
             step \notin Turning
      PROVE  Succeeds /\ Quiet'
  <2>1. ~(Now.do = "acquire" /\ Now.yes)
    BY <1>6 DEF Renew, Inspect
  <2>2. Expected(Now, o.answer) /\ o.locks = locks /\ o.newest = newest
    BY <1>6, Confirmed
  <2> QED
    BY <1>1, <1>3, <1>6, <2>1, <2>2, QuietStays
<1>7. ASSUME NEW keys, NEW h, step \notin Turning,
             \/ Now = Conflict(keys, h) /\ \A t : ~HeldAs(keys, h, t)
                /\ \E k \in keys : locks[k] # Free
             \/ /\ Now = Renew(keys, h, FALSE) \/ Now = Release(keys, h, FALSE)
                /\ ~HeldAs(keys, h, token[h])
      PROVE  Succeeds /\ Quiet'
  <2>1. ~(Now.do = "acquire" /\ Now.yes)
    BY <1>7 DEF Renew, Release, Conflict
  <2>2. Expected(Now, o.answer) /\ o.locks = locks /\ o.newest = newest
    BY <1>7, Refused
  <2> QED
    BY <1>1, <1>3, <1>7, <2>1, <2>2, QuietStays
<1>8. ASSUME NEW keys, keys \subseteq Keys, NEW h,
             HeldAs(keys, h, token[h]), Now = Release(keys, h, TRUE)
      PROVE  /\ Succeeds /\ step' = step + 1 /\ UNCHANGED <<token, newest>>
             /\ \A k \in keys : locks'[k] = Free
             /\ \A k \in Keys \ keys : locks'[k] = locks[k]
  <2>1. Now.do # "acquire"
    BY <1>8 DEF Release
  <2>2. Expected(Now, o.answer) /\ o.locks = With(keys, Free) /\ o.newest = newest
    BY <1>8, GivenBack
  <2> QED
    BY <1>3, <1>8, <2>1, <2>2 DEF With
<1>9. CASE step = 4
  <2>1. Now = Acquire(Orders, "a", {Nobody})
    BY <1>9, HandoverSteps DEF Now
  <2>2. \A k \in Orders : locks[k] = Free
    BY <1>4, <1>9 DEF OrdersLock, UnionLocks, Orders, Union
  <2>3. Orders \subseteq Keys /\ "a" \in Holders /\ {Nobody} \subseteq Holders \cup {Nobody}
    BY DEF Orders, Union
  <2>4. /\ Succeeds /\ step' = step + 1
        /\ \A k \in Orders : locks'[k] = [holder |-> "a", token |-> token'["a"]]
        /\ \A k \in Keys \ Orders : locks'[k] = locks[k]
        /\ \A g \in Holders : g # "a" => token'[g] = token[g]
        /\ token'["a"] > 0
        /\ \A g \in Holders \cup {Nobody} : token'[g] <= newest'
    BY <1>5, <2>1, <2>2, <2>3
  <2>5. OrdersLock' /\ UnionLocks'
    BY <1>4, <1>9, <2>4 DEF OrdersLock, UnionLocks, Grant, Orders, Union
  <2>6. Highest' /\ Minted'
    BY <1>1, <1>4, <1>9, <2>4 DEF Highest, Minted
  <2> QED
    BY <1>1, <1>4, <2>4, <2>5, <2>6 DEF Quiet
<1>10. CASE step = 7
  <2>1. Now = Acquire(Orders, "b", {"a"})
    BY <1>10, HandoverSteps DEF Now
  <2>2. \A k \in Orders : locks[k] = Free
    BY <1>4, <1>10 DEF OrdersLock, UnionLocks, Orders, Union
  <2>3. Orders \subseteq Keys /\ "b" \in Holders /\ {"a"} \subseteq Holders \cup {Nobody}
    BY DEF Orders, Union
  <2>4. /\ Succeeds /\ step' = step + 1
        /\ \A k \in Orders : locks'[k] = [holder |-> "b", token |-> token'["b"]]
        /\ \A k \in Keys \ Orders : locks'[k] = locks[k]
        /\ \A g \in Holders : g # "b" => token'[g] = token[g]
        /\ token'["b"] > 0
        /\ \A g \in Holders \cup {Nobody} : token'[g] <= newest'
    BY <1>5, <2>1, <2>2, <2>3
  <2>5. OrdersLock' /\ UnionLocks'
    BY <1>4, <1>10, <2>4 DEF OrdersLock, UnionLocks, Grant, Orders, Union
  <2>6. Highest' /\ Minted'
    BY <1>1, <1>4, <1>10, <2>4 DEF Highest, Minted
  <2> QED
    BY <1>1, <1>4, <2>4, <2>5, <2>6 DEF Quiet
<1>11. CASE step = 20
  <2>1. Now = Acquire(Orders, "c", {"b"})
    BY <1>11, LeaderCrashSteps DEF Now
  <2>2. \A k \in Orders : locks[k] = Free
    BY <1>4, <1>11 DEF OrdersLock, UnionLocks, Orders, Union
  <2>3. Orders \subseteq Keys /\ "c" \in Holders /\ {"b"} \subseteq Holders \cup {Nobody}
    BY DEF Orders, Union
  <2>4. /\ Succeeds /\ step' = step + 1
        /\ \A k \in Orders : locks'[k] = [holder |-> "c", token |-> token'["c"]]
        /\ \A k \in Keys \ Orders : locks'[k] = locks[k]
        /\ \A g \in Holders : g # "c" => token'[g] = token[g]
        /\ token'["c"] > 0
        /\ \A g \in Holders \cup {Nobody} : token'[g] <= newest'
    BY <1>5, <2>1, <2>2, <2>3
  <2>5. OrdersLock' /\ UnionLocks'
    BY <1>4, <1>11, <2>4 DEF OrdersLock, UnionLocks, Grant, Orders, Union
  <2>6. Highest' /\ Minted'
    BY <1>1, <1>4, <1>11, <2>4 DEF Highest, Minted
  <2> QED
    BY <1>1, <1>4, <2>4, <2>5, <2>6 DEF Quiet
<1>12. CASE step = 30
  <2>1. Now = Acquire(Orders, "d", {"c"})
    BY <1>12, FullRestartSteps DEF Now
  <2>2. \A k \in Orders : locks[k] = Free
    BY <1>4, <1>12 DEF OrdersLock, UnionLocks, Orders, Union
  <2>3. Orders \subseteq Keys /\ "d" \in Holders /\ {"c"} \subseteq Holders \cup {Nobody}
    BY DEF Orders, Union
  <2>4. /\ Succeeds /\ step' = step + 1
        /\ \A k \in Orders : locks'[k] = [holder |-> "d", token |-> token'["d"]]
        /\ \A k \in Keys \ Orders : locks'[k] = locks[k]
        /\ \A g \in Holders : g # "d" => token'[g] = token[g]
        /\ token'["d"] > 0
        /\ \A g \in Holders \cup {Nobody} : token'[g] <= newest'
    BY <1>5, <2>1, <2>2, <2>3
  <2>5. OrdersLock' /\ UnionLocks'
    BY <1>4, <1>12, <2>4 DEF OrdersLock, UnionLocks, Grant, Orders, Union
  <2>6. Highest' /\ Minted'
    BY <1>1, <1>4, <1>12, <2>4 DEF Highest, Minted
  <2> QED
    BY <1>1, <1>4, <2>4, <2>5, <2>6 DEF Quiet
<1>13. CASE step = 33
  <2>1. Now = Acquire(Union, "union", {})
    BY <1>13, LockUnionSteps DEF Now
  <2>2. \A k \in Union : locks[k] = Free
    BY <1>4, <1>13 DEF OrdersLock, UnionLocks, Orders, Union
  <2>3. Union \subseteq Keys /\ "union" \in Holders /\ {} \subseteq Holders \cup {Nobody}
    BY DEF Orders, Union
  <2>4. /\ Succeeds /\ step' = step + 1
        /\ \A k \in Union : locks'[k] = [holder |-> "union", token |-> token'["union"]]
        /\ \A k \in Keys \ Union : locks'[k] = locks[k]
        /\ \A g \in Holders : g # "union" => token'[g] = token[g]
        /\ token'["union"] > 0
        /\ \A g \in Holders \cup {Nobody} : token'[g] <= newest'
    BY <1>5, <2>1, <2>2, <2>3
  <2>5. OrdersLock' /\ UnionLocks'
    BY <1>4, <1>13, <2>4 DEF OrdersLock, UnionLocks, Grant, Orders, Union
  <2>6. Highest' /\ Minted'
    BY <1>1, <1>4, <1>13, <2>4 DEF Highest, Minted
  <2> QED
    BY <1>1, <1>4, <2>4, <2>5, <2>6 DEF Quiet
<1>14. CASE step = 36
  <2>1. Now = Acquire({"union/b"}, "conflict", {"union"})
    BY <1>14, LockUnionSteps DEF Now
  <2>2. \A k \in {"union/b"} : locks[k] = Free
    BY <1>4, <1>14 DEF OrdersLock, UnionLocks, Orders, Union
  <2>3. {"union/b"} \subseteq Keys /\ "conflict" \in Holders /\ {"union"} \subseteq Holders \cup {Nobody}
    BY DEF Orders, Union
  <2>4. /\ Succeeds /\ step' = step + 1
        /\ \A k \in {"union/b"} : locks'[k] = [holder |-> "conflict", token |-> token'["conflict"]]
        /\ \A k \in Keys \ {"union/b"} : locks'[k] = locks[k]
        /\ \A g \in Holders : g # "conflict" => token'[g] = token[g]
        /\ token'["conflict"] > 0
        /\ \A g \in Holders \cup {Nobody} : token'[g] <= newest'
    BY <1>5, <2>1, <2>2, <2>3
  <2>5. OrdersLock' /\ UnionLocks'
    BY <1>4, <1>14, <2>4 DEF OrdersLock, UnionLocks, Grant, Orders, Union
  <2>6. Highest' /\ Minted'
    BY <1>1, <1>4, <1>14, <2>4 DEF Highest, Minted
  <2> QED
    BY <1>1, <1>4, <2>4, <2>5, <2>6 DEF Quiet
<1>15. CASE step = 19
  <2>1. Now = Release(Orders, "b", TRUE)
    BY <1>15, LeaderCrashSteps DEF Now
  <2>2. HeldAs(Orders, "b", token["b"]) /\ Orders \subseteq Keys
    BY <1>4, <1>15 DEF OrdersLock, UnionLocks, HeldAs, Grant, Orders, Union
  <2>3. /\ Succeeds /\ step' = step + 1 /\ UNCHANGED <<token, newest>>
        /\ \A k \in Orders : locks'[k] = Free
        /\ \A k \in Keys \ Orders : locks'[k] = locks[k]
    BY <1>8, <2>1, <2>2
  <2>4. OrdersLock' /\ UnionLocks'
    BY <1>4, <1>15, <2>3 DEF OrdersLock, UnionLocks, Grant, Orders, Union
  <2>5. Highest' /\ Minted'
    BY <1>1, <1>4, <1>15, <2>3 DEF Highest, Minted
  <2> QED
    BY <1>1, <1>4, <2>3, <2>4, <2>5 DEF Quiet
<1>16. CASE step = 29
  <2>1. Now = Release(Orders, "c", TRUE)
    BY <1>16, FullRestartSteps DEF Now
  <2>2. HeldAs(Orders, "c", token["c"]) /\ Orders \subseteq Keys
    BY <1>4, <1>16 DEF OrdersLock, UnionLocks, HeldAs, Grant, Orders, Union
  <2>3. /\ Succeeds /\ step' = step + 1 /\ UNCHANGED <<token, newest>>
        /\ \A k \in Orders : locks'[k] = Free
        /\ \A k \in Keys \ Orders : locks'[k] = locks[k]
    BY <1>8, <2>1, <2>2
  <2>4. OrdersLock' /\ UnionLocks'
    BY <1>4, <1>16, <2>3 DEF OrdersLock, UnionLocks, Grant, Orders, Union
  <2>5. Highest' /\ Minted'
    BY <1>1, <1>4, <1>16, <2>3 DEF Highest, Minted
  <2> QED
    BY <1>1, <1>4, <2>3, <2>4, <2>5 DEF Quiet
<1>17. CASE step = 35
  <2>1. Now = Release(Union, "union", TRUE)
    BY <1>17, LockUnionSteps DEF Now
  <2>2. HeldAs(Union, "union", token["union"]) /\ Union \subseteq Keys
    BY <1>4, <1>17 DEF OrdersLock, UnionLocks, HeldAs, Grant, Orders, Union
  <2>3. /\ Succeeds /\ step' = step + 1 /\ UNCHANGED <<token, newest>>
        /\ \A k \in Union : locks'[k] = Free
        /\ \A k \in Keys \ Union : locks'[k] = locks[k]
    BY <1>8, <2>1, <2>2
  <2>4. OrdersLock' /\ UnionLocks'
    BY <1>4, <1>17, <2>3 DEF OrdersLock, UnionLocks, Grant, Orders, Union
  <2>5. Highest' /\ Minted'
    BY <1>1, <1>4, <1>17, <2>3 DEF Highest, Minted
  <2> QED
    BY <1>1, <1>4, <2>3, <2>4, <2>5 DEF Quiet
<1>18. CASE step \in {12, 15, 16, 18}
  <2>1. Now = Renew(Orders, "b", TRUE) \/ Now = Inspect("b")
    BY <1>18, HandoverSteps, LeaderCrashSteps DEF Now
  <2>2. HeldAs(Orders, "b", token["b"]) /\ step \notin Turning
    BY <1>4, <1>18 DEF OrdersLock, HeldAs, Grant, Orders, Turning
  <2> QED
    BY <1>6, <2>1, <2>2
<1>19. CASE step \in {27, 28}
  <2>1. Now = Renew(Orders, "c", TRUE) \/ Now = Inspect("c")
    BY <1>19, FullRestartSteps DEF Now
  <2>2. HeldAs(Orders, "c", token["c"]) /\ step \notin Turning
    BY <1>4, <1>19 DEF OrdersLock, HeldAs, Grant, Orders, Turning
  <2> QED
    BY <1>6, <2>1, <2>2
<1>20. CASE step \in {10, 11}
  <2>1. Now = Renew(Orders, "a", FALSE) \/ Now = Release(Orders, "a", FALSE)
    BY <1>20, HandoverSteps DEF Now
  <2>2. ~HeldAs(Orders, "a", token["a"]) /\ step \notin Turning
    BY <1>4, <1>20 DEF OrdersLock, HeldAs, Grant, Orders, Turning
  <2> QED
    BY <1>7, <2>1, <2>2
<1>21. CASE step = 34
  <2>1. Now = Conflict({"union/b"}, "conflict") /\ step \notin Turning
    BY <1>21, LockUnionSteps DEF Now, Turning
  <2>2. locks["union/b"] = Grant("union")
    BY <1>4, <1>21 DEF UnionLocks, Union
  <2>3. (\A t : ~HeldAs({"union/b"}, "conflict", t)) /\ locks["union/b"] # Free
    BY <2>2 DEF HeldAs, Grant, Free
  <2> QED
    BY <1>7, <2>1, <2>3
<1> QED
  BY <1>1, <1>9, <1>10, <1>11, <1>12, <1>13, <1>14, <1>15, <1>16, <1>17, <1>18, <1>19, <1>20, <1>21

\* The downstream accepts the newest holder and rejects the one before.
LEMMA WrittenQuietly ==
    ASSUME Types, Story, Quiet, WriteAnswered
    PROVE  Succeeds /\ Quiet'
<1> DEFINE t == token[Now.holder]
<1>1. /\ step \in {5, 8, 9, 21, 22, 31, 32} /\ ServerHandles(Now.holder, t)
      /\ IF WriteExpected(Now) THEN Succeeds ELSE Fails("assertion")
      /\ UNCHANGED <<locks, newest, delayed, token>>
  BY Kinds DEF WriteAnswered, serviceVars, Types
<1>2. OrdersLock /\ UnionLocks /\ Highest /\ Minted /\ delayed = {} /\ highestToken \in Nat
  BY DEF Quiet, Types
<1>3. \A h \in {"a", "b", "c", "d"} : token[h] \in Nat
  BY RunAssumption DEF Types
<1>4. /\ step \in 5..37 => token["a"] > 0
      /\ step \in 8..37 => token["b"] > token["a"]
      /\ step \in 21..37 => token["c"] > token["b"]
      /\ step \in 31..37 => token["d"] > token["c"]
  BY <1>2 DEF Minted, Story, Newer
<1>5. /\ step = 5 => Now = Write("a", TRUE) /\ highestToken = 0
      /\ step = 8 => Now = Write("b", TRUE) /\ highestToken = token["a"]
      /\ step = 9 => Now = Write("a", FALSE) /\ highestToken = token["b"]
      /\ step = 21 => Now = Write("c", TRUE) /\ highestToken = token["b"]
      /\ step = 22 => Now = Write("b", FALSE) /\ highestToken = token["c"]
      /\ step = 31 => Now = Write("d", TRUE) /\ highestToken = token["c"]
      /\ step = 32 => Now = Write("c", FALSE) /\ highestToken = token["d"]
  <2>1. /\ step = 5 => Now = Write("a", TRUE)
        /\ step = 8 => Now = Write("b", TRUE)
        /\ step = 9 => Now = Write("a", FALSE)
        /\ step = 21 => Now = Write("c", TRUE)
        /\ step = 22 => Now = Write("b", FALSE)
        /\ step = 31 => Now = Write("d", TRUE)
        /\ step = 32 => Now = Write("c", FALSE)
    BY HandoverSteps, LeaderCrashSteps, FullRestartSteps DEF Now
  <2>2. /\ step = 5 => highestToken = 0
        /\ step = 8 => highestToken = token["a"]
        /\ step \in {9, 21} => highestToken = token["b"]
        /\ step \in {22, 31} => highestToken = token["c"]
        /\ step = 32 => highestToken = token["d"]
    BY <1>2 DEF Highest
  <2> QED
    BY <2>1, <2>2
<1>6. /\ t # 0
      /\ step \in {5, 8, 21, 31} => Now.accepted /\ t >= highestToken
      /\ step \in {9, 22, 32} => ~Now.accepted /\ ~(t >= highestToken)
  BY <1>1, <1>3, <1>4, <1>5 DEF Write
<1>7. WriteExpected(Now)
  BY <1>1, <1>6 DEF WriteExpected, Accepts
<1>8. Succeeds /\ step' = step + 1
  BY <1>1, <1>7 DEF Succeeds
<1>9. highestToken' = IF step \in {5, 8, 21, 31} THEN t ELSE highestToken
  BY <1>1, <1>6 DEF ServerHandles, Accepts
<1>10. Highest'
  BY <1>1, <1>5, <1>8, <1>9 DEF Highest, Write
<1>11. OrdersLock'
  BY <1>1, <1>2, <1>8 DEF OrdersLock, Grant
<1>12. UnionLocks'
  BY <1>1, <1>2, <1>8 DEF UnionLocks, Grant
<1>13. Minted'
  BY <1>1, <1>2, <1>8 DEF Minted
<1> QED
  BY <1>1, <1>2, <1>8, <1>10, <1>11, <1>12, <1>13 DEF Quiet

\* After the pause holder-a's lease is over.
LEMMA PausedQuietly ==
    ASSUME Honest, Types, Quiet, Pause
    PROVE  Quiet'
<1>1. /\ step = 6 /\ step' = 7 /\ locks' = LocksAfterPause
      /\ UNCHANGED <<delayed, token, newest, highestToken>>
  BY Kinds DEF Pause, Succeeds, mainVars, Types
<1>2. locks'["orders"] = Free
  BY <1>1, RunAssumption DEF Quiet, OrdersLock, LocksAfterPause, Grant
<1>3. \A k \in Union : locks'[k] = Free
  BY <1>1, RunAssumption DEF Quiet, UnionLocks, LocksAfterPause, Union
<1>4. OrdersLock' /\ UnionLocks'
  BY <1>1, <1>2, <1>3 DEF OrdersLock, UnionLocks
<1>5. Highest' /\ Minted'
  BY <1>1 DEF Quiet, Highest, Minted
<1> QED
  BY <1>1, <1>4, <1>5 DEF Quiet

\* Only holder-a's lease runs out, at a place where it may.
LEMMA LapsedQuietly ==
    ASSUME Types, Quiet, NEW k \in Keys, Lapse(k), ~trouble'
    PROVE  Quiet'
<1>1. /\ locks[k].holder = "a" /\ locks' = Lapsed(k)
      /\ UNCHANGED <<delayed, token, newest, highestToken, step>>
  BY DEF Lapse, mainVars, Types
<1>2. /\ \A j \in Keys : locks'[j] = IF locks[j] = locks[k] THEN Free ELSE locks[j]
      /\ Orders \cup Union \subseteq Keys /\ Nobody # "a"
  BY <1>1, RunAssumption, LockServiceAssumption DEF Lapsed, Orders, Union
<1>3. \A j \in Union : step <= 36 => locks[j].holder # "a"
  <2>1. \A j \in Union : step <= 36 => locks[j] = Free \/ locks[j] = Grant("union")
    <3>1. step <= 33 \/ step \in 34..35 \/ step = 36 \/ step = 37
      BY DEF Types
    <3> QED
      BY <3>1 DEF Quiet, UnionLocks
  <2> QED
    BY <1>2, <2>1 DEF Grant, Free
<1>4. UnionLocks'
  BY <1>1, <1>2, <1>3 DEF Quiet, UnionLocks, Grant, Types
<1>5. OrdersLock'
  <2>1. CASE locks["orders"] = locks[k]
    <3>a. locks["orders"].holder = "a"
      BY <1>1, <2>1
    <3>b. /\ ~(step <= 4) /\ step # 7 /\ ~(step \in 8..19)
          /\ step # 20 /\ ~(step \in 21..29) /\ step # 30
      BY <1>2, <3>a DEF Quiet, OrdersLock, Grant, Free
    <3>1. step \in 5..6 \/ step > 30
      BY <3>b DEF Types
    <3>2. locks'["orders"] = Free
      BY <1>2, <2>1 DEF Orders
    <3> QED
      BY <1>1, <3>1, <3>2 DEF OrdersLock, Types
  <2>2. CASE locks["orders"] # locks[k]
    <3>1. locks'["orders"] = locks["orders"]
      BY <1>2, <2>2 DEF Orders
    <3> QED
      BY <1>1, <3>1 DEF Quiet, OrdersLock, Grant
  <2> QED
    BY <2>1, <2>2
<1>6. Highest' /\ Minted'
  BY <1>1 DEF Quiet, Highest, Minted
<1> QED
  BY <1>1, <1>4, <1>5, <1>6 DEF Quiet

\* Steps of main() that touch neither the locks nor the tokens.
LEMMA OtherwiseQuiet ==
    ASSUME Types, Quiet,
           \/ NodeStarts \/ LeaderFound \/ Crash \/ StopAll \/ NextRound
           \/ \E n \in Nodes : AttemptFails(n) \/ Elect(n)
           \/ UNCHANGED vars
    PROVE  Quiet'
<1>1. CASE NodeStarts \/ LeaderFound \/ Crash \/ StopAll
  <2>1. step \in {1, 2, 3, 13, 14, 17, 23, 24, 25, 26} /\ step' = step + 1
    BY <1>1, Kinds DEF NodeStarts, Starting, LeaderFound, Crash, StopAll, Succeeds, Types
  <2>2. UNCHANGED <<locks, delayed, token, newest, highestToken>>
    BY <1>1 DEF NodeStarts, LeaderFound, Crash, StopAll, serviceVars, mainVars
  <2> QED
    BY <2>1, <2>2, QuietStays DEF Turning
<1>2. ASSUME NEW n \in Nodes, NextRound \/ AttemptFails(n) \/ Elect(n) PROVE Quiet'
  <2>1. UNCHANGED <<locks, delayed, token, newest, highestToken, step>>
    BY <1>2 DEF NextRound, AttemptFails, Elect, Elected, serviceVars, mainVars
  <2> QED
    BY <2>1, QuietStays
<1>3. CASE NextRound \/ UNCHANGED vars
  <2>1. UNCHANGED <<locks, delayed, token, newest, highestToken, step>>
    BY <1>3 DEF NextRound, serviceVars, mainVars, vars
  <2> QED
    BY <2>1, QuietStays
<1> QED
  BY <1>1, <1>2, <1>3

-----------------------------------------------------------------------------
(***************************************************************************)
(* The theorem.                                                            *)
(***************************************************************************)

\* Trouble is not forgotten.
LEMMA TroubleStays == ASSUME Types, [Next]_vars, trouble PROVE trouble'
  BY DEF Next, Main, Environment, SetupFails, NodeStarts, NodeFails, Pause, LeaderFound,
         NoLeaderFound, Crash, StopAll, AttemptAnswered, AttemptFails, AnswerLost, AttemptDelayed,
         NextRound, GiveUp, WriteAnswered, WriteTimesOut, Finish, Catch, Finally, Elect, Lapse,
         DelayedArrives, vars

LEMMA CalmKept == ASSUME Honest, IInv, Calm, [Next]_vars PROVE Calm'
<1>1. CASE trouble
  BY <1>1, TroubleStays DEF IInv, Calm, FailsOnlyInTrouble
<1>2. CASE ~trouble /\ phase = "run"
  <2>1. Types /\ Quiet /\ Story /\ failure = "none"
    BY <1>2 DEF IInv, Calm, Verdict
  <2>2. ASSUME NEW n \in Nodes, AttemptAnswered(n) PROVE Calm'
    BY <2>1, <2>2, AnsweredQuietly DEF Succeeds, Calm, FailsOnlyInTrouble
  <2>3. CASE WriteAnswered
    BY <2>1, <2>3, WrittenQuietly DEF Succeeds, Calm, FailsOnlyInTrouble
  <2>4. CASE Pause
    BY <2>1, <2>4, PausedQuietly DEF Pause, Succeeds, Calm, FailsOnlyInTrouble
  <2>5. ASSUME NEW k \in Keys, Lapse(k) PROVE Calm'
    BY <2>1, <2>5, LapsedQuietly DEF Lapse, Calm, FailsOnlyInTrouble
  <2>6. CASE NodeStarts \/ LeaderFound \/ Crash \/ StopAll \/ NextRound \/ UNCHANGED vars
    <3>1. Quiet'
      BY <2>1, <2>6, OtherwiseQuiet
    <3>2. failure' = failure
      BY <2>6 DEF NodeStarts, LeaderFound, Crash, StopAll, NextRound, Succeeds, vars
    <3> QED
      BY <2>1, <3>1, <3>2 DEF Calm, FailsOnlyInTrouble
  <2>7. ASSUME NEW n \in Nodes, AttemptFails(n) \/ Elect(n) PROVE Calm'
    <3>1. Quiet'
      BY <2>1, <2>7, OtherwiseQuiet
    <3>2. failure' = failure
      BY <2>7 DEF AttemptFails, Elect
    <3> QED
      BY <2>1, <3>1, <3>2 DEF Calm, FailsOnlyInTrouble
  <2>8. ASSUME NEW n \in Nodes, AnswerLost(n) \/ AttemptDelayed(n) PROVE Calm'
    BY <2>8 DEF AnswerLost, AttemptDelayed, Calm, FailsOnlyInTrouble
  <2>9. ASSUME NEW req \in delayed PROVE Calm'
    BY <2>1, <2>9 DEF Quiet
  <2>10. CASE NoLeaderFound
    BY <2>10 DEF NoLeaderFound, Calm, FailsOnlyInTrouble
  <2>11. CASE NodeFails \/ GiveUp \/ WriteTimesOut \/ SetupFails \/ Finish
    BY <2>1, <2>11 DEF NodeFails, GiveUp, WriteTimesOut, SetupFails, Finish, Fails,
                       Calm, FailsOnlyInTrouble
  <2>12. CASE Catch \/ Finally
    BY <1>2, <2>12 DEF Catch, Finally
  <2> QED
    BY <2>2, <2>3, <2>4, <2>5, <2>6, <2>7, <2>8, <2>9, <2>10, <2>11, <2>12 DEF Next, Main, Environment
<1>3. CASE ~trouble /\ phase # "run"
  <2>1. SetupFails \/ Finish \/ Catch \/ Finally \/ UNCHANGED vars
    BY <1>3, ScenarioMoves, EnvironmentMoves, MainSteps
  <2>2. phase' # "run" /\ failure' \in {failure, "exception"} /\ trouble' = trouble
    BY <1>3, <2>1 DEF SetupFails, Finish, Catch, Finally, vars
  <2> QED
    BY <1>3, <2>2 DEF Calm, FailsOnlyInTrouble
<1> QED
  BY <1>1, <1>2, <1>3

LEMMA InitCalm == Init => Calm
<1> SUFFICES ASSUME Init PROVE Calm
  OBVIOUS
<1>1. OrdersLock /\ UnionLocks
  BY RunAssumption DEF Init, ServiceInit, OrdersLock, UnionLocks, Union
<1>2. Highest /\ Minted
  BY DEF Init, ServiceInit, Highest, Minted
<1> QED
  BY <1>1, <1>2 DEF Init, Quiet, Calm, FailsOnlyInTrouble

\* FailsOnlyInTrouble: with an honest cluster, an assertion of the scenario
\* fails only after an answer was lost, a request was delayed or a lease ran
\* out too early; elections, the crash, the restarts and the attempts that were
\* not executed are absorbed.
THEOREM NoFalseAlarm == Honest => (Spec => []FailsOnlyInTrouble)
<1> SUFFICES ASSUME Honest PROVE Spec => []FailsOnlyInTrouble
  OBVIOUS
<1>1. Spec => []IInv
  BY Inductive
<1>2. IInv /\ Calm /\ [Next]_vars => Calm'
  BY CalmKept
<1>3. Calm => FailsOnlyInTrouble
  BY DEF Calm
<1> QED
  BY <1>1, <1>2, <1>3, InitCalm, PTL DEF Spec
=============================================================================
