-------------------------- MODULE DownstreamProofs --------------------------
(***************************************************************************)
(* Proofs about DownstreamReference, for every number of writers, tokens   *)
(* and calls: whatever the order in which requests are handled, and        *)
(* whichever of them are handled long after their callers gave up, the     *)
(* history is the history of a fenced resource.                            *)
(*                                                                         *)
(* Only Handle touches the server, and it only appends to the history.     *)
(* IInv adds to the checked invariants that highestToken bounds what was   *)
(* accepted, that what is logged was granted, and that a call which has an *)
(* answer points at its own entry before its caller knows.                 *)
(***************************************************************************)
EXTENDS DownstreamReference, TLAPS

HighestBounds ==
    \A i \in DOMAIN history : history[i].accepted => history[i].token <= highestToken

LoggedWasGranted ==
    \A i \in DOMAIN history : history[i].token \in Given(history[i].writer)

\* Call c's answer is what entry c.event of history h says, if it is logged.
Explained(c, h) ==
    /\ c.answer \in {"none", "invalid"} => c.event = 0
    /\ c.answer \in {"accepted", "rejected"}
          => /\ c.event \in 1..Len(h)
             /\ h[c.event].writer = c.writer
             /\ h[c.event].token = c.token
             /\ h[c.event].accepted <=> c.answer = "accepted"
    /\ c.result \in {"accepted", "rejected"} => c.result = c.answer

AnswersExplained == \A i \in DOMAIN calls : Explained(calls[i], history)

EntriesApart ==
    \A i, j \in DOMAIN calls :
        calls[i].event = calls[j].event /\ calls[i].event # 0 => i = j

ServerInv ==
    /\ HighestBounds
    /\ LoggedWasGranted
    /\ AcceptedInTokenOrder
    /\ HistoryExplains
    /\ RejectionIsDeserved

ClientInv == AnswersExplained /\ EntriesApart

IInv == TypeOK /\ ServerInv /\ ClientInv

-----------------------------------------------------------------------------
(***************************************************************************)
(* What handling a request does.                                           *)
(***************************************************************************)

\* The entry that handling a request with token t appends.
Entry(i) ==
    [writer |-> calls[i].writer, token |-> calls[i].token,
     accepted |-> Accepts(calls[i].token), highest |-> HighestAfter(calls[i].token)]

LEMMA CallsAreCalls == TypeOK => \A i \in DOMAIN calls : calls[i] \in Calls
  BY DEF TypeOK

\* A usable token is granted, and so inside the bound.
LEMMA UsableIsGranted ==
    ASSUME TypeOK, NEW i \in DOMAIN calls, Usable(calls[i].token)
    PROVE  /\ calls[i].token \in Given(calls[i].writer)
           /\ calls[i].token \in 1..MaxToken
<1>1. calls[i].token \in Given(calls[i].writer)
  BY DEF TypeOK, Usable
<1>2. DOMAIN grantee = 1..Len(grantee) /\ Len(grantee) \in Nat
  BY DEF TypeOK
<1> QED
  BY <1>1, <1>2, DownstreamAssumption DEF Given, TypeOK

LEMMA EntryType ==
    ASSUME TypeOK, NEW i \in DOMAIN calls, Usable(calls[i].token)
    PROVE  Entry(i) \in Events /\ HighestAfter(calls[i].token) \in 1..MaxToken
<1>1. calls[i] \in Calls /\ calls[i].token \in 1..MaxToken
  BY CallsAreCalls, UsableIsGranted
<1>2. HighestAfter(calls[i].token) \in 1..MaxToken
  BY <1>1, DownstreamAssumption DEF HighestAfter, Accepts, TypeOK, Tokens
<1>3. Accepts(calls[i].token) \in BOOLEAN
  BY DEF Accepts
<1> QED
  BY <1>1, <1>2, <1>3 DEF Entry, Events, Calls, Tokens

\* The call with a new answer and the place of its entry.
Answered(i) ==
    [writer |-> calls[i].writer, token |-> calls[i].token, result |-> calls[i].result,
     answer |-> Answer(calls[i].token),
     event |-> IF Usable(calls[i].token) THEN Len(history) + 1 ELSE calls[i].event]

LEMMA AnsweredFields ==
    ASSUME TypeOK, NEW i \in DOMAIN calls
    PROVE  /\ Answered(i) \in Calls
           /\ Answered(i).writer = calls[i].writer
           /\ Answered(i).token = calls[i].token
           /\ Answered(i).result = calls[i].result
           /\ Answered(i).answer = Answer(calls[i].token)
           /\ Answered(i).event = IF Usable(calls[i].token) THEN Len(history) + 1
                                  ELSE calls[i].event
<1>1. calls[i] \in Calls /\ Len(history) \in Nat
  BY CallsAreCalls DEF TypeOK
<1>2. Answer(calls[i].token) \in {"accepted", "rejected", "invalid"}
  BY DEF Answer
<1> QED
  BY <1>1, <1>2 DEF Answered, Calls

LEMMA HandleEffect ==
    ASSUME TypeOK, NEW i \in DOMAIN calls, Handle(i)
    PROVE  /\ calls[i].answer = "none"
           /\ calls' = [calls EXCEPT ![i] = Answered(i)]
           /\ grantee' = grantee
           /\ Usable(calls[i].token)
                 => /\ history' = Append(history, Entry(i))
                    /\ highestToken' = HighestAfter(calls[i].token)
           /\ ~Usable(calls[i].token)
                 => UNCHANGED <<history, highestToken>>
<1>1. calls[i] \in Calls
  BY CallsAreCalls
<1>2. CASE Usable(calls[i].token)
  <2>1. ASSUME NEW c \in Calls, NEW a, NEW n
        PROVE  [c EXCEPT !.answer = a, !.event = n]
                  = [writer |-> c.writer, token |-> c.token, result |-> c.result,
                     answer |-> a, event |-> n]
    <3> DEFINE d == [c EXCEPT !.answer = a]
    <3>1. d = [writer |-> c.writer, token |-> c.token, result |-> c.result,
               answer |-> a, event |-> c.event]
      BY DEF Calls
    <3> HIDE DEF d
    <3>2. [d EXCEPT !.event = n]
              = [writer |-> c.writer, token |-> c.token, result |-> c.result,
                 answer |-> a, event |-> n]
      BY <3>1
    <3> QED
      BY <3>2 DEF d
  <2>2. [calls[i] EXCEPT !.answer = Answer(calls[i].token), !.event = Len(history) + 1]
            = Answered(i)
    BY <1>1, <1>2, <2>1 DEF Answered
  <2> QED
    BY <1>2, <2>2 DEF Handle, Pending, Entry
<1>3. CASE ~Usable(calls[i].token)
  <2>1. [calls[i] EXCEPT !.answer = Answer(calls[i].token)] = Answered(i)
    BY <1>1, <1>3 DEF Answered, Calls
  <2> QED
    BY <1>3, <2>1 DEF Handle, Pending
<1> QED
  BY <1>2, <1>3

\* An entry appended leaves the older ones where they are.
LEMMA AppendedHistory ==
    ASSUME TypeOK, NEW e \in Events
    PROVE  /\ Append(history, e) \in Seq(Events)
           /\ DOMAIN Append(history, e) = 1..(Len(history) + 1)
           /\ Len(Append(history, e)) = Len(history) + 1
           /\ DOMAIN history = 1..Len(history)
           /\ Len(history) \in Nat
           /\ \A k \in DOMAIN history : Append(history, e)[k] = history[k]
           /\ Append(history, e)[Len(history) + 1] = e
  BY DEF TypeOK

-----------------------------------------------------------------------------
(***************************************************************************)
(* Types.                                                                  *)
(***************************************************************************)

LEMMA TypeStep == TypeOK /\ [Next]_vars => TypeOK'
<1> SUFFICES ASSUME TypeOK, [Next]_vars PROVE TypeOK'
  OBVIOUS
<1>1. ASSUME NEW w \in Writers, Grant(w)
      PROVE  TypeOK'
  <2>1. grantee' \in Seq(Writers) /\ Len(grantee') <= MaxToken
    BY <1>1, DownstreamAssumption DEF TypeOK, Grant
  <2>2. \A v \in Writers : Given(v) \subseteq Given(v)'
    BY <1>1 DEF TypeOK, Grant, Given
  <2>3. \A i \in DOMAIN calls : calls[i].writer \in Writers
    BY CallsAreCalls DEF Calls
  <2> QED
    BY <1>1, <2>1, <2>2, <2>3 DEF TypeOK, Grant
<1>2. ASSUME NEW w \in Writers, NEW t \in Given(w) \cup {NoToken}, Mutate(w, t)
      PROVE  TypeOK'
  <2> DEFINE c == [writer |-> w, token |-> t, answer |-> "none",
                   result |-> "waiting", event |-> 0]
  <2>1. c \in Calls
    <3>1. t \in Tokens \cup {NoToken}
      <4>1. DOMAIN grantee = 1..Len(grantee) /\ Len(grantee) \in Nat
        BY DEF TypeOK
      <4> QED
        BY <4>1, DownstreamAssumption DEF Given, TypeOK, Tokens
    <3> QED
      BY <3>1 DEF Calls
  <2>2. calls' = Append(calls, c) /\ UNCHANGED <<grantee, highestToken, history>>
    BY <1>2 DEF Mutate
  <2>3. c.token = NoToken \/ c.token \in Given(c.writer)
    BY DEF NoToken
  <2> HIDE DEF c
  <2>4. calls' \in Seq(Calls)
    BY <2>1, <2>2 DEF TypeOK
  <2>5. \A i \in DOMAIN calls' : calls'[i] = c \/ (i \in DOMAIN calls /\ calls'[i] = calls[i])
    BY <2>1, <2>2 DEF TypeOK
  <2> QED
    BY <2>2, <2>3, <2>4, <2>5 DEF TypeOK, Given
<1>3. ASSUME NEW i \in DOMAIN calls, Handle(i)
      PROVE  TypeOK'
  <2>1. calls' = [calls EXCEPT ![i] = Answered(i)] /\ grantee' = grantee
    BY <1>3, HandleEffect
  <2>2. calls' \in Seq(Calls)
    BY <2>1, AnsweredFields DEF TypeOK
  <2>3. \A j \in DOMAIN calls' : /\ j \in DOMAIN calls
                                 /\ calls'[j].token = calls[j].token
                                 /\ calls'[j].writer = calls[j].writer
    BY <2>1, AnsweredFields DEF TypeOK
  <2>4. history' \in Seq(Events) /\ highestToken' \in Tokens \cup {0}
    BY <1>3, HandleEffect, EntryType, AppendedHistory DEF TypeOK, Tokens
  <2> QED
    BY <2>1, <2>2, <2>3, <2>4 DEF TypeOK, Given
<1>4. ASSUME NEW i \in DOMAIN calls, Receive(i) \/ Timeout(i)
      PROVE  TypeOK'
  <2>1. PICK r \in {"timeout", "accepted", "rejected", "invalid"} :
            calls' = [calls EXCEPT ![i] = [calls[i] EXCEPT !.result = r]]
    BY <1>4, CallsAreCalls DEF Receive, Timeout, Pending, Calls
  <2>2. /\ [calls[i] EXCEPT !.result = r] \in Calls
        /\ [calls[i] EXCEPT !.result = r].token = calls[i].token
        /\ [calls[i] EXCEPT !.result = r].writer = calls[i].writer
    BY <2>1, CallsAreCalls DEF Calls
  <2>3. calls' \in Seq(Calls)
    BY <2>1, <2>2 DEF TypeOK
  <2>4. \A j \in DOMAIN calls' : /\ j \in DOMAIN calls
                                 /\ calls'[j].token = calls[j].token
                                 /\ calls'[j].writer = calls[j].writer
    BY <2>1, <2>2 DEF TypeOK
  <2> QED
    BY <1>4, <2>3, <2>4 DEF TypeOK, Receive, Timeout, Given
<1>5. CASE UNCHANGED vars
  BY <1>5 DEF vars, TypeOK, Given
<1> QED
  BY <1>1, <1>2, <1>3, <1>4, <1>5 DEF Next

-----------------------------------------------------------------------------
(***************************************************************************)
(* The server.                                                             *)
(***************************************************************************)

\* The tokens of two writers are different ones.
LEMMA GivenApart ==
    \A v, w \in Writers : \A t \in Given(v) \cap Given(w) : v = w
  BY DEF Given

\* A usable request handled: every part of ServerInv is extended by the entry.
LEMMA LoggedStep ==
    ASSUME TypeOK, ServerInv, NEW i \in DOMAIN calls, Handle(i), Usable(calls[i].token)
    PROVE  ServerInv'
<1> DEFINE n == Len(history)
           t == calls[i].token
           e == Entry(i)
<1>1. /\ history' = Append(history, e) /\ highestToken' = HighestAfter(t)
      /\ grantee' = grantee
  BY HandleEffect
<1>2. e \in Events /\ highestToken' \in 1..MaxToken /\ t \in 1..MaxToken
  BY <1>1, EntryType, UsableIsGranted
<1>3. /\ history' \in Seq(Events) /\ n \in Nat
      /\ DOMAIN history' = 1..(n + 1) /\ DOMAIN history = 1..n
      /\ Len(history') = n + 1 /\ history' # << >>
      /\ \A k \in 1..n : history'[k] = history[k]
      /\ history'[n + 1] = e
  BY <1>1, <1>2, AppendedHistory
<1>4. /\ e.token = t /\ e.writer = calls[i].writer
      /\ e.accepted = Accepts(t) /\ e.highest = highestToken'
  BY <1>1 DEF Entry
<1>5. /\ highestToken \in Nat /\ t \in Nat /\ highestToken' \in Nat
      /\ \A k \in 1..n : history[k] \in Events /\ history[k].token \in Nat
                         /\ history[k].highest \in Nat
  <2>1. \A k \in 1..n : history[k] \in Events
    BY DEF TypeOK
  <2>2. \A f \in Events : f.token \in Nat /\ f.highest \in Nat
    BY DownstreamAssumption DEF Events, Tokens
  <2> QED
    BY <1>2, <2>1, <2>2, DownstreamAssumption DEF TypeOK, Tokens
<1>6. /\ Accepts(t) => highestToken' = t /\ t >= highestToken
      /\ ~Accepts(t) => highestToken' = highestToken /\ t < highestToken
  BY <1>1, <1>5 DEF HighestAfter, Accepts
<1> HIDE DEF e, t, n
<1>7. HighestBounds'
  BY <1>3, <1>4, <1>5, <1>6 DEF ServerInv, HighestBounds
<1>8. LoggedWasGranted'
  <2>1. t \in Given(calls[i].writer)
    BY UsableIsGranted DEF t
  <2> QED
    BY <1>1, <1>3, <1>4, <2>1 DEF ServerInv, LoggedWasGranted, Given
<1>9. AcceptedInTokenOrder'
  <2> SUFFICES ASSUME NEW j \in 1..(n + 1), NEW k \in 1..(n + 1), j < k,
                      history'[j].accepted, history'[k].accepted
               PROVE  /\ history'[j].token <= history'[k].token
                      /\ history'[j].token = history'[k].token
                            => history'[j].writer = history'[k].writer
    BY <1>3 DEF AcceptedInTokenOrder, AcceptedAt
  <2>1. CASE k \in 1..n
    BY <1>3, <2>1 DEF ServerInv, AcceptedInTokenOrder, AcceptedAt
  <2>2. CASE k = n + 1
    <3>1. j \in 1..n /\ history'[j] = history[j]
      BY <1>3, <2>2
    <3>2. history[j].token <= t
      BY <1>3, <1>4, <1>5, <1>6, <2>2, <3>1 DEF ServerInv, HighestBounds
    <3>3. history[j].token \in Given(history[j].writer) /\ history[j].writer \in Writers
      BY <1>3, <1>5, <3>1 DEF ServerInv, LoggedWasGranted, Events
    <3>4. t \in Given(calls[i].writer) /\ calls[i].writer \in Writers
      BY UsableIsGranted, CallsAreCalls DEF t, Calls
    <3>5. history[j].token = t => history[j].writer = calls[i].writer
      BY <3>3, <3>4, GivenApart
    <3> QED
      BY <1>3, <1>4, <2>2, <3>1, <3>2, <3>5
  <2> QED
    BY <1>3, <2>1, <2>2
<1>10. HistoryExplains'
  <2>1. \A k \in 1..(n + 1) : \A j \in 1..k :
            history'[j].accepted => history'[j].token <= history'[k].highest
    <3>1. \A k \in 1..n : \A j \in 1..k :
              history'[j].accepted => history'[j].token <= history'[k].highest
      BY <1>3 DEF ServerInv, HistoryExplains
    <3>2. \A j \in 1..n : history'[j].accepted => history'[j].token <= highestToken'
      BY <1>3, <1>5, <1>6 DEF ServerInv, HighestBounds
    <3>3. e.accepted => e.token <= highestToken'
      BY <1>4, <1>5, <1>6
    <3> QED
      BY <1>3, <1>4, <3>1, <3>2, <3>3
  <2>2. ASSUME NEW k \in 1..n
        PROVE  \E j \in 1..k : history'[j].accepted /\ history'[j].token = history'[k].highest
    BY <1>3 DEF ServerInv, HistoryExplains
  <2>3. \E j \in 1..(n + 1) :
            history'[j].accepted /\ history'[j].token = history'[n + 1].highest
    <3>1. CASE Accepts(t)
      <4>1. e.accepted /\ e.token = e.highest
        BY <1>4, <1>6, <3>1
      <4>2. n + 1 \in 1..(n + 1)
        BY <1>3
      <4> QED
        BY <1>3, <4>1, <4>2
    <3>2. CASE ~Accepts(t)
      <4>1. highestToken > 0 /\ n \in 1..n /\ highestToken = history[n].highest
        <5>1. history # << >>
          BY <1>2, <1>5, <1>6, <3>2 DEF ServerInv, HistoryExplains
        <5> QED
          BY <1>2, <1>3, <1>6, <3>2, <5>1 DEF ServerInv, HistoryExplains, TypeOK, n
      <4>2. PICK j \in 1..n : history'[j].accepted /\ history'[j].token = history'[n].highest
        BY <2>2, <4>1
      <4> QED
        BY <1>3, <1>4, <1>6, <3>2, <4>1, <4>2
    <3> QED
      BY <3>1, <3>2
  <2>4. highestToken' = history'[Len(history')].highest
    BY <1>3, <1>4
  <2> QED
    BY <1>3, <2>1, <2>2, <2>3, <2>4 DEF HistoryExplains
<1>11. RejectionIsDeserved'
  <2> SUFFICES ASSUME NEW k \in 1..(n + 1), ~history'[k].accepted
               PROVE  \E j \in 1..(k - 1) : history'[j].accepted
                                            /\ history'[j].token > history'[k].token
    BY <1>3 DEF RejectionIsDeserved
  <2>1. CASE k \in 1..n
    BY <1>3, <2>1 DEF ServerInv, RejectionIsDeserved
  <2>2. CASE k = n + 1
    <3>1. highestToken > t /\ n \in 1..n /\ highestToken = history[n].highest
      <4>1. highestToken > t
        BY <1>3, <1>4, <1>5, <1>6, <2>2
      <4>2. history # << >>
        BY <1>2, <1>5, <4>1 DEF ServerInv, HistoryExplains
      <4> QED
        BY <4>1, <4>2 DEF ServerInv, HistoryExplains, TypeOK, n
    <3>2. PICK j \in 1..n : history[j].accepted /\ history[j].token = history[n].highest
      BY <1>3, <3>1 DEF ServerInv, HistoryExplains
    <3> QED
      BY <1>3, <1>4, <2>2, <3>1, <3>2
  <2> QED
    BY <1>3, <2>1, <2>2
<1> QED
  BY <1>7, <1>8, <1>9, <1>10, <1>11 DEF ServerInv

LEMMA ServerStep ==
    ASSUME TypeOK, ServerInv, [Next]_vars
    PROVE  ServerInv'
<1>1. ASSUME UNCHANGED <<highestToken, history>>,
             \A w \in Writers : Given(w) \subseteq Given(w)'
      PROVE  ServerInv'
  <2>1. LoggedWasGranted'
    <3>1. \A i \in DOMAIN history : history[i] \in Events
      BY DEF TypeOK
    <3>2. \A i \in DOMAIN history : history[i].writer \in Writers
      BY <3>1 DEF Events
    <3> QED
      BY <1>1, <3>2 DEF ServerInv, LoggedWasGranted
  <2> QED
    BY <1>1, <2>1 DEF ServerInv, HighestBounds, AcceptedInTokenOrder, AcceptedAt,
       HistoryExplains, RejectionIsDeserved
<1>2. ASSUME NEW w \in Writers, Grant(w)
      PROVE  ServerInv'
  <2>1. \A v \in Writers : Given(v) \subseteq Given(v)'
    BY <1>2 DEF TypeOK, Grant, Given
  <2> QED
    BY <1>1, <1>2, <2>1 DEF Grant
<1>3. ASSUME NEW i \in DOMAIN calls, Handle(i)
      PROVE  ServerInv'
  <2>1. CASE ~Usable(calls[i].token)
    BY <1>1, <1>3, <2>1, HandleEffect DEF Given
  <2> QED
    BY <1>3, <2>1, LoggedStep
<1>4. CASE UNCHANGED <<grantee, highestToken, history>>
  BY <1>1, <1>4 DEF Given
<1> QED
  BY <1>2, <1>3, <1>4 DEF Next, Mutate, Receive, Timeout, vars

-----------------------------------------------------------------------------
(***************************************************************************)
(* The client.                                                             *)
(***************************************************************************)

\* What is explained stays explained when the history grows.
LEMMA StaysExplained ==
    ASSUME TypeOK, NEW c \in Calls, Explained(c, history), NEW e \in Events
    PROVE  Explained(c, Append(history, e))
  BY AppendedHistory DEF Explained

LEMMA ClientStep ==
    ASSUME TypeOK, ClientInv, [Next]_vars
    PROVE  ClientInv'
<1> USE DEF ClientInv
<1>0. /\ \A j \in DOMAIN calls : calls[j] \in Calls /\ calls[j].event \in Nat
      /\ Len(history) \in Nat
  BY CallsAreCalls DEF Calls, TypeOK
<1>1. ASSUME NEW w \in Writers, NEW t \in Given(w) \cup {NoToken}, Mutate(w, t)
      PROVE  ClientInv'
  <2> DEFINE c == [writer |-> w, token |-> t, answer |-> "none",
                   result |-> "waiting", event |-> 0]
  <2>1. calls' = Append(calls, c) /\ history' = history
    BY <1>1 DEF Mutate
  <2>2. Explained(c, history) /\ c.event = 0
    BY DEF Explained
  <2> HIDE DEF c
  <2>3. \A j \in DOMAIN calls' : (j \in DOMAIN calls /\ calls'[j] = calls[j]) \/ calls'[j] = c
    BY <2>1 DEF TypeOK
  <2>4. AnswersExplained'
    BY <2>1, <2>2, <2>3 DEF AnswersExplained
  <2>5. EntriesApart'
    BY <2>2, <2>3 DEF EntriesApart
  <2> QED
    BY <2>4, <2>5
<1>2. ASSUME NEW i \in DOMAIN calls, Handle(i)
      PROVE  ClientInv'
  <2>1. /\ DOMAIN calls' = DOMAIN calls
        /\ calls'[i] = Answered(i)
        /\ \A j \in DOMAIN calls : j # i => calls'[j] = calls[j]
    BY <1>2, HandleEffect
  <2>2. calls[i].answer = "none" /\ calls[i].event = 0
        /\ calls[i].result \notin {"accepted", "rejected"}
    BY <1>2, HandleEffect DEF AnswersExplained, Explained
  <2>3. CASE Usable(calls[i].token)
    <3>1. history' = Append(history, Entry(i)) /\ Entry(i) \in Events
      BY <1>2, <2>3, HandleEffect, EntryType
    <3>2. Answered(i).event = Len(history) + 1 /\ Answered(i).result = calls[i].result
      BY <2>3, AnsweredFields
    <3>3. Explained(Answered(i), history')
      <4>1. /\ Answered(i).writer = Entry(i).writer /\ Answered(i).token = Entry(i).token
            /\ Answered(i).answer \in {"accepted", "rejected"}
            /\ Entry(i).accepted <=> Answered(i).answer = "accepted"
        BY <2>3, AnsweredFields DEF Answer, Entry
      <4>2. Len(history') = Len(history) + 1 /\ history'[Len(history) + 1] = Entry(i)
        BY <3>1, AppendedHistory
      <4> QED
        BY <1>0, <2>2, <3>2, <4>1, <4>2 DEF Explained
    <3>4. AnswersExplained'
      BY <1>0, <2>1, <3>1, <3>3, StaysExplained DEF AnswersExplained
    <3>5. \A j \in DOMAIN calls : calls[j].event <= Len(history)
      BY <1>0, CallsAreCalls DEF AnswersExplained, Explained, Calls
    <3>6. EntriesApart'
      BY <1>0, <2>1, <3>2, <3>5 DEF EntriesApart
    <3> QED
      BY <3>4, <3>6
  <2>4. CASE ~Usable(calls[i].token)
    <3>1. Answered(i).event = 0 /\ Answered(i).result = calls[i].result
          /\ Answered(i).answer = "invalid" /\ history' = history
      BY <1>2, <2>2, <2>4, AnsweredFields, HandleEffect DEF Answer
    <3>2. AnswersExplained'
      BY <2>1, <2>2, <3>1 DEF AnswersExplained, Explained
    <3>3. EntriesApart'
      BY <2>1, <3>1 DEF EntriesApart
    <3> QED
      BY <3>2, <3>3
  <2> QED
    BY <2>3, <2>4
<1>3. ASSUME NEW i \in DOMAIN calls, Receive(i) \/ Timeout(i)
      PROVE  ClientInv'
  <2>1. PICK r \in {"timeout", calls[i].answer} :
            calls' = [calls EXCEPT ![i] = [calls[i] EXCEPT !.result = r]]
    BY <1>3 DEF Receive, Timeout
  <2>2. ASSUME NEW c \in Calls
        PROVE  /\ [c EXCEPT !.result = r].writer = c.writer
               /\ [c EXCEPT !.result = r].token = c.token
               /\ [c EXCEPT !.result = r].answer = c.answer
               /\ [c EXCEPT !.result = r].event = c.event
               /\ [c EXCEPT !.result = r].result = r
    BY DEF Calls
  <2>3. /\ DOMAIN calls' = DOMAIN calls /\ history' = history
        /\ \A j \in DOMAIN calls : /\ calls'[j].writer = calls[j].writer
                                   /\ calls'[j].token = calls[j].token
                                   /\ calls'[j].answer = calls[j].answer
                                   /\ calls'[j].event = calls[j].event
                                   /\ calls'[j].result \in {calls[j].result, "timeout",
                                                            calls[j].answer}
    BY <1>0, <1>3, <2>1, <2>2 DEF Receive, Timeout
  <2>4. AnswersExplained'
    BY <2>3 DEF AnswersExplained, Explained
  <2>5. EntriesApart'
    BY <2>3 DEF EntriesApart
  <2> QED
    BY <2>4, <2>5
<1>4. CASE UNCHANGED <<calls, history>>
  BY <1>4 DEF AnswersExplained, EntriesApart
<1> QED
  BY <1>1, <1>2, <1>3, <1>4 DEF Next, Grant, vars

-----------------------------------------------------------------------------
(***************************************************************************)
(* The theorems.                                                           *)
(***************************************************************************)

LEMMA InitIInv == Init => IInv
  BY DownstreamAssumption
     DEF Init, IInv, TypeOK, ServerInv, ClientInv, HighestBounds, LoggedWasGranted,
         AcceptedInTokenOrder, HistoryExplains, RejectionIsDeserved, AnswersExplained,
         EntriesApart

LEMMA IInvStep == IInv /\ [Next]_vars => IInv'
  BY TypeStep, ServerStep, ClientStep DEF IInv

\* The invariant of the server and of its callers holds in every reachable state.
THEOREM Inductive == Spec => []IInv
  BY InitIInv, IInvStep, PTL DEF Spec

\* Types, and only granted tokens are ever used.
THEOREM TypeCorrect == Spec => []TypeOK
  BY Inductive, PTL DEF IInv

\* However requests overtake each other, accepted writes are in token order
\* and one lease's writes are one writer's: hand-over is final.
THEOREM HandOverIsFinal == Spec => []AcceptedInTokenOrder
  BY Inductive, PTL DEF IInv, ServerInv

\* The published history accounts for the highest token at every entry.
THEOREM HistoryIsSound == Spec => []HistoryExplains
  BY Inductive, PTL DEF IInv, ServerInv

\* A rejection is always preceded by the acceptance of a newer token.
THEOREM NoUndeservedRejection == Spec => []RejectionIsDeserved
  BY Inductive, PTL DEF IInv, ServerInv

\* A caller that is answered is told what the history says of its write, and
\* each write has its own entry.
THEOREM AnswersAreTrue == Spec => []AnswerMatchesHistory
<1>1. IInv => AnswerMatchesHistory
  <2> SUFFICES ASSUME IInv PROVE AnswerMatchesHistory
    OBVIOUS
  <2>1. DOMAIN history = 1..Len(history)
    BY DEF IInv, TypeOK
  <2> QED
    BY <2>1 DEF IInv, ClientInv, AnswersExplained, Explained, EntriesApart, AnswerMatchesHistory
<1> QED
  BY <1>1, Inductive, PTL
=============================================================================
