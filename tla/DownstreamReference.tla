------------------------ MODULE DownstreamReference ------------------------
(***************************************************************************)
(* The downstream of scripts/stale-fencing-e2e.mjs: an HTTP server that    *)
(* keeps the highest fencing token it accepted and rejects every lower     *)
(* one, and its client mutate(), which gives up after two seconds.         *)
(*                                                                         *)
(* A call of mutate() is a record of `calls`.  Its request is handled at   *)
(* any time after it was sent, in any order with the others', or never;    *)
(* a client that has given up neither recalls its request nor learns what  *)
(* became of it.  Writers get their tokens from the lock service, which is *)
(* not part of this repository: it mints 1, 2, 3, ..., and a writer may    *)
(* use any token it was ever given, however long ago.                      *)
(***************************************************************************)
EXTENDS Naturals, Sequences

CONSTANTS
    Writers,    \* clients that write to the downstream
    MaxToken,   \* bound on the tokens granted
    MaxCalls    \* bound on the calls of mutate()

ASSUME DownstreamAssumption == MaxToken \in Nat /\ MaxCalls \in Nat

VARIABLES
    grantee,        \* grantee[t] is the writer that was granted token t
    calls,          \* the calls of mutate(), in the order they were made
    highestToken,   \* state.highestToken
    history         \* state.history

vars == <<grantee, calls, highestToken, history>>

\* A body without a usable token: not JSON, not an integer, or not positive.
NoToken == 0

Tokens == 1..MaxToken
Given(w) == {t \in DOMAIN grantee : grantee[t] = w}

Pending(i) == calls[i].answer = "none"
Waiting(i) == calls[i].result = "waiting"

(***************************************************************************)
(* The server.                                                             *)
(***************************************************************************)

\* Variant: the token is not validated.
UsableAlways(t) == TRUE

\* Number.isSafeInteger(token) and token > 0, of a body that is JSON.
Usable(t) == t # NoToken

\* Variant: the token of the last accepted write is stale.
AcceptsOnlyNewer(t) == t > highestToken

\* Variant: every write with a usable token is accepted.
AcceptsAll(t) == TRUE

Accepts(t) == t >= highestToken

\* Variant: the last token logged counts as the highest, accepted or not.
HighestIsLast(t) == t

HighestAfter(t) == IF Accepts(t) THEN t ELSE highestToken

\* Variant: the answer tells whether the token was usable.
AnswerUsable(t) == IF Usable(t) THEN "accepted" ELSE "invalid"

\* The status of the answer: 400, 200 or 409.
Answer(t) ==
    IF ~Usable(t) THEN "invalid" ELSE IF Accepts(t) THEN "accepted" ELSE "rejected"

\* The "end" handler of one request: it runs to its end without giving way.
Handle(i) ==
    /\ Pending(i)
    /\ LET t == calls[i].token
           event == [writer |-> calls[i].writer, token |-> t,
                     accepted |-> Accepts(t), highest |-> HighestAfter(t)]
       IN  IF Usable(t)
           THEN /\ highestToken' = HighestAfter(t)
                /\ history' = Append(history, event)
                /\ calls' = [calls EXCEPT ![i] = [@ EXCEPT !.answer = Answer(t),
                                                          !.event = Len(history) + 1]]
           ELSE /\ calls' = [calls EXCEPT ![i] = [@ EXCEPT !.answer = Answer(t)]]
                /\ UNCHANGED <<highestToken, history>>
    /\ UNCHANGED grantee

(***************************************************************************)
(* The client.                                                             *)
(***************************************************************************)

\* mutate() sends the request; a writer awaits one call at a time.
Mutate(w, t) ==
    /\ Len(calls) < MaxCalls
    /\ \A i \in DOMAIN calls : calls[i].writer = w => ~Waiting(i)
    /\ calls' = Append(calls, [writer |-> w, token |-> t, answer |-> "none",
                               result |-> "waiting", event |-> 0])
    /\ UNCHANGED <<grantee, highestToken, history>>

\* The answer arrives in time.
Receive(i) ==
    /\ Waiting(i)
    /\ ~Pending(i)
    /\ calls' = [calls EXCEPT ![i].result = calls[i].answer]
    /\ UNCHANGED <<grantee, highestToken, history>>

\* Variant: only a call that was answered is ever given up.
GivesUpAnswered(i) == Waiting(i) /\ ~Pending(i)

\* The two seconds run out, whatever has become of the request.
GivesUp(i) == Waiting(i)

Timeout(i) ==
    /\ GivesUp(i)
    /\ calls' = [calls EXCEPT ![i].result = "timeout"]
    /\ UNCHANGED <<grantee, highestToken, history>>

(***************************************************************************)
(* The lock service (external).                                            *)
(***************************************************************************)

Grant(w) ==
    /\ Len(grantee) < MaxToken
    /\ grantee' = Append(grantee, w)
    /\ UNCHANGED <<calls, highestToken, history>>

Init ==
    /\ grantee = << >>
    /\ calls = << >>
    /\ highestToken = 0
    /\ history = << >>

Next ==
    \/ \E w \in Writers : Grant(w)
    \/ \E w \in Writers : \E t \in Given(w) \cup {NoToken} : Mutate(w, t)
    \/ \E i \in DOMAIN calls : Handle(i)
    \/ \E i \in DOMAIN calls : Receive(i)
    \/ \E i \in DOMAIN calls : Timeout(i)

Spec == Init /\ [][Next]_vars

\* AbortSignal.timeout() fires.
Fairness == \A i \in 1..MaxCalls : WF_vars(i \in DOMAIN calls /\ Timeout(i))

FairSpec == Spec /\ Fairness

-----------------------------------------------------------------------------
(***************************************************************************)
(* Properties.                                                             *)
(***************************************************************************)

Calls ==
    [writer : Writers, token : Tokens \cup {NoToken},
     answer : {"none", "accepted", "rejected", "invalid"},
     result : {"waiting", "timeout", "accepted", "rejected", "invalid"},
     event : Nat]

Events == [writer : Writers, token : Tokens, accepted : BOOLEAN, highest : Tokens]

\* The variables have their types, and no token is used that was not granted.
TypeOK ==
    /\ grantee \in Seq(Writers) /\ Len(grantee) <= MaxToken
    /\ calls \in Seq(Calls)
    /\ highestToken \in Tokens \cup {0}
    /\ history \in Seq(Events)
    /\ \A i \in DOMAIN calls :
            calls[i].token = NoToken \/ calls[i].token \in Given(calls[i].writer)

AcceptedAt(i) == i \in DOMAIN history /\ history[i].accepted

\* Hand-over is final: from the first write accepted under a token, no write
\* under an older one is accepted, not even one sent before, and all accepted
\* writes under one token are one writer's.
AcceptedInTokenOrder ==
    \A i, j \in DOMAIN history :
        i < j /\ AcceptedAt(i) /\ AcceptedAt(j)
            => /\ history[i].token <= history[j].token
               /\ history[i].token = history[j].token => history[i].writer = history[j].writer

\* The history the evidence file publishes explains the server's state: each
\* entry shows the highest token accepted up to it, the last one the current.
HistoryExplains ==
    /\ highestToken = IF history = << >> THEN 0 ELSE history[Len(history)].highest
    /\ \A i \in DOMAIN history :
            /\ \A j \in 1..i : history[j].accepted => history[j].token <= history[i].highest
            /\ \E j \in 1..i : history[j].accepted /\ history[j].token = history[i].highest

\* Nobody is rejected but for a newer token already accepted: the newest
\* holder is never shut out, however often it repeats its write.
RejectionIsDeserved ==
    \A i \in DOMAIN history :
        ~history[i].accepted
            => \E j \in 1..(i - 1) : history[j].accepted /\ history[j].token > history[i].token

\* What a writer is told is what the history says of its own write, which is
\* there exactly once; a call that was given up may be there or not.
AnswerMatchesHistory ==
    /\ \A i \in DOMAIN calls :
            calls[i].result \in {"accepted", "rejected"}
                => /\ calls[i].event \in DOMAIN history
                   /\ LET e == history[calls[i].event]
                      IN  /\ e.writer = calls[i].writer
                          /\ e.token = calls[i].token
                          /\ e.accepted <=> calls[i].result = "accepted"
    /\ \A i, j \in DOMAIN calls :
            calls[i].event = calls[j].event /\ calls[i].event # 0 => i = j

\* No writer waits for ever, even if its request is never handled.
CallsEnd ==
    \A i \in 1..MaxCalls :
        (i \in DOMAIN calls /\ Waiting(i)) ~> (i \in DOMAIN calls /\ ~Waiting(i))
=============================================================================
