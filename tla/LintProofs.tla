----------------------------- MODULE LintProofs -----------------------------
(***************************************************************************)
(* Proofs about RequireSend and LintGate, for any set of languages and     *)
(* names and any bounds; no variable is called like the events' type.      *)
(*                                                                         *)
(* What the rule knows of an event is its mark, an entry of one of its     *)
(* maps.  The argument is about marks: an open event that is not reported  *)
(* is marked (Noticed), a mark is of an event that the name did hold, or   *)
(* was taken for its name (MarkedNamed), no event is marked twice (MarkedOnce), and unless there  *)
(* is an excuse, a marked event is open and no frame outlives the mark     *)
(* that could still deliver it (MarkedOpen), nor a reported one            *)
(* (FoundOpen).                                                            *)
(***************************************************************************)
EXTENDS LintGate, FiniteSetTheorems, SequenceTheorems, WellFoundedInduction, TLAPS

-----------------------------------------------------------------------------
(***************************************************************************)
(* The invariant of the rule.                                              *)
(***************************************************************************)

Values == Events \cup {Plain}

Kinds == {"file", "function", "block"}

\* Maps from names and what the rule takes for one.
Maps == UNION {[D -> Nat] : D \in SUBSET Keys}

Frames == [kind : Kinds, holds : Maps]

EventRecords == [open : BOOLEAN, comment : Comments, why : SUBSET Reasons]

Types ==
    /\ lang \in Langs /\ known \in BOOLEAN /\ over \in BOOLEAN
    /\ events \in Seq(EventRecords)
    /\ frames \in Seq(Frames) /\ scopes \in Seq(Maps)
    /\ found \subseteq Events
    /\ named \subseteq Keys \X Values

\* The rule's maps go with the frames; the outermost frame is the file's.
Nesting ==
    /\ Len(scopes) = ScopeOf(Len(frames))
    /\ ~over => Len(frames) >= 1 /\ frames[1].kind = "file"
    /\ over => frames = << >> /\ scopes = << >>

\* What a name holds it is known to have held, but for its first value, if plain.
HeldNamed ==
    \A i \in DOMAIN frames : \A n \in DOMAIN frames[i].holds :
        /\ n \in Names /\ frames[i].holds[n] \in Values
        /\ \/ <<n, frames[i].holds[n]>> \in named
           \/ /\ frames[i].holds[n] = Plain
              /\ \A v \in Values : <<n, v>> \notin named
              /\ \A j \in DOMAIN frames : n \in DOMAIN frames[j].holds => j = i

\* The rule marks a name with an event that the name did hold, or was taken to.
MarkedNamed ==
    \A i \in DOMAIN scopes : \A n \in DOMAIN scopes[i] :
        scopes[i][n] \in Events /\ <<n, scopes[i][n]>> \in named

MarkedOnce ==
    \A i, j \in DOMAIN scopes : \A n \in DOMAIN scopes[i], m \in DOMAIN scopes[j] :
        scopes[i][n] = scopes[j][m] => i = j /\ n = m

(***************************************************************************)
(* Of maps s and events ev, because a return changes both before the frame *)
(* ends.                                                                   *)
(***************************************************************************)

InReach(e, j) == \E n \in DOMAIN frames[j].holds : frames[j].holds[n] = e

MarkedIn(s, e) == \E i \in DOMAIN s : \E n \in DOMAIN s[i] : s[i][n] = e

Missable(e, ev) ==
    e \in found \/ ev[e].comment \in Heeds \/ Namesake(e) \/ "unknown" \in ev[e].why

Excused(e, ev) == Aliased(e) \/ Namesake(e) \/ ev[e].why # {}

\* An event that is open is marked, unless it was reported or may be missed.
Noticed(s, ev) == \A e \in Events : ev[e].open => Missable(e, ev) \/ MarkedIn(s, e)

\* An event that is marked and not excused is open, and is held only where the
\* map it is marked in is still there.
MarkedOpen(s, ev) ==
    \A i \in DOMAIN s : \A n \in DOMAIN s[i] :
        \/ Excused(s[i][n], ev)
        \/ /\ ev[s[i][n]].open
           /\ \A j \in DOMAIN frames : InReach(s[i][n], j) => ScopeOf(j) >= i

\* An event that is reported and not excused is open and out of reach.
FoundOpen(ev) ==
    \A e \in found :
        Excused(e, ev) \/ (ev[e].open /\ \A j \in DOMAIN frames : ~InReach(e, j))

RuleInv ==
    /\ Types /\ Nesting /\ HeldNamed
    /\ MarkedNamed /\ MarkedOnce
    /\ Noticed(scopes, events) /\ MarkedOpen(scopes, events) /\ FoundOpen(events)

-----------------------------------------------------------------------------
(***************************************************************************)
(* The gate.                                                               *)
(***************************************************************************)

GateTypes ==
    /\ runner \in 1..6
    /\ log \subseteq {"across", "count", "clean", "note"}
    /\ examined \in BOOLEAN /\ raised \in BOOLEAN
    /\ strict \in BOOLEAN /\ exit \in {0, 1, 2}

\* Nothing is looked at before the file has ended and the runners' turns come.
InTurn ==
    /\ ~over => runner = 1 /\ exit = 2
    /\ runner = 1 => ~examined

\* What the house rule found in the file it looked at is in the log.
Logged == examined /\ found # {} => Greps

\* A strict run that passes has no finding in its log.
Passed == strict /\ exit = 0 => ~examined \/ ~Greps

GateInv == GateTypes /\ InTurn /\ Logged /\ Passed

IInv == RuleInv /\ GateInv

-----------------------------------------------------------------------------
LEMMA MaxIsIn ==
    ASSUME NEW n \in Nat, NEW S \in SUBSET (1..n), S # {}
    PROVE  Max(S) \in S /\ \A y \in S : y <= Max(S)
<1> DEFINE T == {n - x : x \in S}
           R == OpToRel(<, Nat)
<1>1. IsWellFoundedOn(R, Nat)
  BY NatLessThanWellFounded, Zenon
<1>a. \A x \in S : x \in Nat /\ x <= n
  OBVIOUS
<1>2. T \subseteq Nat /\ T # {}
  <2>1. \A x \in S : n - x \in Nat
    BY <1>a
  <2>2. \E x : x \in S
    OBVIOUS
  <2> HIDE DEF R
  <2> QED
    BY <2>1, <2>2
<1> HIDE DEF R
<1>3. PICK m \in T : \A y \in T : <<y, m>> \notin R
  BY <1>1, <1>2, WFMin
<1>b. \A x, y \in Nat : x < y => <<x, y>> \in R
  BY Zenon DEF OpToRel, R
<1>4. \A y \in T : m <= y
  <2>1. \A y \in T : ~(y < m) /\ y \in Nat /\ m \in Nat
    BY <1>2, <1>3, <1>b, Zenon
  <2> HIDE DEF T
  <2> QED
    BY <2>1
<1>5. PICK x \in S : m = n - x
  BY <1>3
<1>6. \A y \in S : n - y >= n - x
  BY <1>4, <1>5
<1>7. \A y \in S : x >= y
  BY <1>6, <1>a
<1> QED
  BY <1>7 DEF Max


LEMMA FrontIs ==
    ASSUME NEW S, NEW s \in Seq(S), Len(s) >= 1
    PROVE  /\ Front(s) \in Seq(S) /\ Len(Front(s)) = Len(s) - 1
           /\ \A i \in 1..(Len(s) - 1) : Front(s)[i] = s[i]
           /\ Last(s) \in S
<1>0. Len(s) \in Nat
  BY LenProperties
<1>1. \A i \in 1..Len(s) : s[i] \in S
  BY ElementOfSeq
<1>2. /\ SubSeq(s, 1, Len(s) - 1) \in Seq(S)
      /\ Len(SubSeq(s, 1, Len(s) - 1)) = IF 1 <= Len(s) - 1 THEN Len(s) - 1 ELSE 0
      /\ \A i \in 1..(Len(s) - 1) : SubSeq(s, 1, Len(s) - 1)[i] = s[1 + i - 1]
  BY <1>0, <1>1, SubSeqProperties
<1>3. Len(SubSeq(s, 1, Len(s) - 1)) = Len(s) - 1
  <2>1. ASSUME NEW k \in Nat, k >= 1, NEW l, l = IF 1 <= k - 1 THEN k - 1 ELSE 0
        PROVE  l = k - 1
    BY <2>1
  <2> QED
    BY <1>0, <1>2, <2>1
<1>4. \A i \in 1..(Len(s) - 1) : SubSeq(s, 1, Len(s) - 1)[i] = s[i]
  BY <1>0, <1>2
<1> QED
  BY <1>0, <1>1, <1>2, <1>3, <1>4 DEF Front, Last

LEMMA PutIs ==
    ASSUME NEW f \in Maps, NEW n \in Keys, NEW v \in Nat
    PROVE  /\ Put(f, n, v) \in Maps
           /\ DOMAIN Put(f, n, v) = DOMAIN f \cup {n}
           /\ Put(f, n, v)[n] = v
           /\ \A m \in DOMAIN f : m # n => Put(f, n, v)[m] = f[m]
<1>1. PICK D \in SUBSET Keys : f \in [D -> Nat]
  BY DEF Maps
<1>2. Put(f, n, v) \in [D \cup {n} -> Nat]
  BY <1>1 DEF Put
<1>3. D \cup {n} \in SUBSET Keys
  OBVIOUS
<1> QED
  BY <1>1, <1>2, <1>3 DEF Put, Maps

LEMMA RestrictIs ==
    ASSUME NEW f \in Maps, NEW n
    PROVE  /\ Restrict(f, DOMAIN f \ {n}) \in Maps
           /\ DOMAIN Restrict(f, DOMAIN f \ {n}) = DOMAIN f \ {n}
           /\ \A m \in DOMAIN f \ {n} : Restrict(f, DOMAIN f \ {n})[m] = f[m]
<1>1. PICK D \in SUBSET Keys : f \in [D -> Nat]
  BY DEF Maps
<1>2. Restrict(f, DOMAIN f \ {n}) \in [D \ {n} -> Nat]
  BY <1>1 DEF Restrict
<1>3. D \ {n} \in SUBSET Keys
  OBVIOUS
<1> QED
  BY <1>1, <1>2, <1>3 DEF Restrict, Maps

LEMMA EmptyMap == << >> \in Maps /\ DOMAIN << >> = {}
<1>1. << >> \in [{} -> Nat] /\ DOMAIN << >> = {}
  OBVIOUS
<1> QED
  BY <1>1 DEF Maps

LEMMA Shapes ==
    ASSUME Types
    PROVE  /\ Len(events) \in Nat /\ Len(frames) \in Nat /\ Len(scopes) \in Nat
           /\ DOMAIN frames = 1..Len(frames) /\ DOMAIN scopes = 1..Len(scopes)
           /\ DOMAIN events = Events
           /\ \A e \in Events : events[e] \in EventRecords
           /\ \A i \in DOMAIN frames : frames[i].kind \in Kinds /\ frames[i].holds \in Maps
           /\ \A i \in DOMAIN scopes : scopes[i] \in Maps
<1>1. \A i \in DOMAIN frames : frames[i] \in Frames
  BY LenProperties, ElementOfSeq DEF Types
<1> QED
  BY <1>1, LenProperties, ElementOfSeq DEF Types, Frames, Events

-----------------------------------------------------------------------------
(***************************************************************************)
(* What the steps are made of.                                             *)
(***************************************************************************)

LEMMA BuiltIs ==
    ASSUME Types, NEW form, NEW root, NEW open \in BOOLEAN, NEW comment \in Comments,
           NEW why \in SUBSET Reasons, Built(form, root, open, comment, why)
    PROVE  /\ events' \in Seq(EventRecords)
           /\ New \in Nat /\ New \notin Events /\ Events' = Events \cup {New} /\ New # Plain
           /\ \A e \in Events : events'[e] = events[e]
           /\ events'[New].open => open /\ form = "open" /\ root # "alike"
           /\ open /\ form = "open" /\ root # "alike" => events'[New].open
           /\ events'[New].comment = comment
           /\ why \subseteq events'[New].why
           /\ form = "open" /\ ~Unfinished(form, root) => "unknown" \in events'[New].why
           /\ root = "alike" => "alike" \in events'[New].why
<1> DEFINE unknown == IF form = "open" /\ ~Unfinished(form, root) THEN {"unknown"} ELSE {}
           alike == IF root = "alike" THEN {"alike"} ELSE {}
           more == unknown \cup alike
           entry == [open |-> open /\ form = "open" /\ root # "alike", comment |-> comment,
                     why |-> why \cup unknown \cup alike]
<1>1. entry.open \in BOOLEAN /\ (entry.open <=> open /\ form = "open" /\ root # "alike")
  OBVIOUS
<1>2. more \in SUBSET Reasons
  BY DEF Reasons
<1>3. entry \in EventRecords
  <2>1. entry.why \in SUBSET Reasons
    BY <1>2
  <2> QED
    BY <2>1 DEF EventRecords
<1>4. events' = Append(events, entry)
  BY DEF Built
<1>5. entry.comment = comment /\ entry.why = why \cup more
  OBVIOUS
<1>6. /\ form = "open" /\ ~Unfinished(form, root) => "unknown" \in more
      /\ root = "alike" => "alike" \in more
  OBVIOUS
<1> HIDE DEF entry, more
<1>7. /\ events' \in Seq(EventRecords) /\ Len(events') = Len(events) + 1
      /\ events'[Len(events) + 1] = entry
      /\ \A e \in 1..Len(events) : events'[e] = events[e]
  BY <1>3, <1>4, AppendProperties DEF Types
<1> QED
  BY <1>1, <1>5, <1>6, <1>7, Shapes DEF New, Events, Plain

LEMMA UsedIs ==
    ASSUME Types, NEW v \in Values, NEW use, NEW ev, ev = Used(v, use)
    PROVE  /\ ev \in Seq(EventRecords) /\ Len(ev) = Len(events)
           /\ \A e \in Events : /\ e # v => ev[e] = events[e]
                                /\ ev[e].open => events[e].open
                                /\ ev[e].comment = events[e].comment
                                /\ events[e].why \subseteq ev[e].why
           /\ v # Plain => /\ v \in Events /\ ~ev[v].open
                           /\ use \notin Reads => ev[v].why # {}
<1>1. CASE v = Plain
  BY <1>1, Shapes DEF Used, Types, Events, Values, Plain
<1>2. CASE v # Plain
  <2> DEFINE more == IF use \in Reads THEN {} ELSE {"unread"}
             entry == [open |-> FALSE, comment |-> events[v].comment,
                       why |-> events[v].why \cup more]
  <2>1. v \in Events /\ events[v] \in EventRecords
    BY <1>2, Shapes DEF Values
  <2>2. events[v].comment \in Comments /\ events[v].why \in SUBSET Reasons
    BY <2>1 DEF EventRecords
  <2>3. more \in SUBSET Reasons /\ (use \notin Reads => more # {})
    BY DEF Reasons
  <2>4. ev = [events EXCEPT ![v] = entry]
    BY <1>2 DEF Used
  <2> HIDE DEF more
  <2>5. entry \in EventRecords
    BY <2>2, <2>3 DEF EventRecords
  <2>6. ~entry.open /\ entry.comment = events[v].comment /\ entry.why = events[v].why \cup more
    OBVIOUS
  <2> HIDE DEF entry
  <2>7. /\ ev \in Seq(EventRecords) /\ Len(ev) = Len(events)
        /\ \A e \in 1..Len(events) : ev[e] = IF e = v THEN entry ELSE events[e]
    BY <2>1, <2>4, <2>5, ExceptSeq DEF Types, Events
  <2> QED
    BY <1>2, <2>1, <2>3, <2>6, <2>7 DEF Events
<1> QED
  BY <1>1, <1>2

LEMMA GivenIs ==
    ASSUME Types, NEW i \in DOMAIN frames, NEW n \in Names, NEW v \in Nat, Given(i, n, v)
    PROVE  /\ frames' \in Seq(Frames) /\ Len(frames') = Len(frames)
           /\ DOMAIN frames' = DOMAIN frames
           /\ \A j \in DOMAIN frames : /\ frames'[j].kind = frames[j].kind
                                       /\ j # i => frames'[j].holds = frames[j].holds
           /\ DOMAIN frames'[i].holds = DOMAIN frames[i].holds \cup {n}
           /\ frames'[i].holds[n] = v
           /\ \A m \in DOMAIN frames[i].holds : m # n => frames'[i].holds[m] = frames[i].holds[m]
<1> DEFINE put == Put(frames[i].holds, n, v)
           entry == [kind |-> frames[i].kind, holds |-> put]
<1>1. /\ put \in Maps /\ DOMAIN put = DOMAIN frames[i].holds \cup {n} /\ put[n] = v
      /\ \A m \in DOMAIN frames[i].holds : m # n => put[m] = frames[i].holds[m]
  <2>1. n \in Keys /\ frames[i].holds \in Maps
    BY Shapes DEF Keys
  <2> QED
    BY <2>1, PutIs
<1>2. frames' = [frames EXCEPT ![i] = entry]
  BY DEF Given
<1> HIDE DEF put
<1>3. entry \in Frames /\ entry.kind = frames[i].kind /\ entry.holds = put
  BY <1>1, Shapes DEF Frames
<1> HIDE DEF entry
<1>4. /\ frames' \in Seq(Frames) /\ Len(frames') = Len(frames)
      /\ \A j \in 1..Len(frames) : frames'[j] = IF j = i THEN entry ELSE frames[j]
  BY <1>2, <1>3, Shapes, ExceptSeq DEF Types
<1>5. DOMAIN frames' = DOMAIN frames
  BY <1>4, LenProperties, Shapes
<1> QED
  BY <1>1, <1>3, <1>4, <1>5, Shapes

\* How many maps there are for the first i of the frames f.
Depth(f, i) == Cardinality({j \in 1..i : Opens(f[j].kind)})

LEMMA DepthStep ==
    ASSUME NEW f, NEW i \in Nat
    PROVE  /\ Depth(f, i) \in Nat /\ Depth(f, 0) = 0
           /\ Opens(f[i + 1].kind) => Depth(f, i + 1) = Depth(f, i) + 1
           /\ ~Opens(f[i + 1].kind) => Depth(f, i + 1) = Depth(f, i)
<1> DEFINE Some(k) == {j \in 1..k : Opens(f[j].kind)}
<1>1. \A k : Depth(f, k) = Cardinality(Some(k))
  BY DEF Depth
<1>2. IsFiniteSet(1..i) /\ Some(i) \in SUBSET (1..i)
  BY FS_Interval
<1>3. IsFiniteSet(Some(i))
  BY <1>2, FS_Subset
<1>4. Some(0) = {}
  OBVIOUS
<1>5. Opens(f[i + 1].kind) => Some(i + 1) = Some(i) \cup {i + 1} /\ i + 1 \notin Some(i)
  OBVIOUS
<1>6. ~Opens(f[i + 1].kind) => Some(i + 1) = Some(i)
  OBVIOUS
<1> HIDE DEF Some
<1>7. Cardinality(Some(i)) \in Nat
  BY <1>3, FS_CardinalityType
<1>8. i + 1 \notin Some(i) => Cardinality(Some(i) \cup {i + 1}) = Cardinality(Some(i)) + 1
  BY <1>3, FS_AddElement
<1>9. Cardinality(Some(0)) = 0
  BY <1>4, FS_EmptySet
<1> QED
  BY <1>1, <1>5, <1>6, <1>7, <1>8, <1>9

LEMMA DepthGrows ==
    ASSUME NEW f, NEW i \in Nat, NEW j \in Nat, i <= j
    PROVE  Depth(f, i) <= Depth(f, j)
<1>1. /\ IsFiniteSet(1..j) /\ {k \in 1..j : Opens(f[k].kind)} \in SUBSET (1..j)
      /\ {k \in 1..i : Opens(f[k].kind)} \in SUBSET {k \in 1..j : Opens(f[k].kind)}
  BY FS_Interval
<1>2. IsFiniteSet({k \in 1..j : Opens(f[k].kind)})
  BY <1>1, FS_Subset
<1> QED
  BY <1>1, <1>2, FS_Subset DEF Depth

LEMMA DepthSame ==
    ASSUME NEW f, NEW g, NEW i \in Nat, \A j \in 1..i : f[j].kind = g[j].kind
    PROVE  Depth(f, i) = Depth(g, i)
<1>1. {j \in 1..i : Opens(f[j].kind)} = {j \in 1..i : Opens(g[j].kind)}
  OBVIOUS
<1> QED
  BY <1>1 DEF Depth

LEMMA ScopeIsDepth ==
    /\ \A i : ScopeOf(i) = Depth(frames, i)
    /\ lang' = lang => \A i : ScopeOf(i)' = Depth(frames', i)
<1>1. \A i : ScopeOf(i) = Depth(frames, i)
  BY DEF ScopeOf, Depth
<1>2. ASSUME lang' = lang PROVE \A i : ScopeOf(i)' = Depth(frames', i)
  BY <1>2 DEF ScopeOf, Depth, Opens
<1> QED
  BY <1>1, <1>2

\* An event is marked in the innermost map.
LEMMA MarkIs ==
    ASSUME Types, Len(scopes) >= 1, NEW n \in Keys, NEW e \in Nat, NEW s, s = Mark(n, e)
    PROVE  /\ s \in Seq(Maps) /\ Len(s) = Len(scopes) /\ DOMAIN s = DOMAIN scopes
           /\ \A j \in DOMAIN scopes : j # Len(scopes) => s[j] = scopes[j]
           /\ DOMAIN s[Len(scopes)] = DOMAIN scopes[Len(scopes)] \cup {n}
           /\ s[Len(scopes)][n] = e
           /\ \A m \in DOMAIN scopes[Len(scopes)] :
                m # n => s[Len(scopes)][m] = scopes[Len(scopes)][m]
<1> DEFINE put == Put(scopes[Len(scopes)], n, e)
<1>1. Len(scopes) \in DOMAIN scopes
  BY Shapes
<1>2. /\ put \in Maps /\ DOMAIN put = DOMAIN scopes[Len(scopes)] \cup {n} /\ put[n] = e
      /\ \A m \in DOMAIN scopes[Len(scopes)] : m # n => put[m] = scopes[Len(scopes)][m]
  BY <1>1, PutIs, Shapes
<1>3. s = [scopes EXCEPT ![Len(scopes)] = put]
  BY DEF Mark
<1> HIDE DEF put
<1>4. /\ s \in Seq(Maps) /\ Len(s) = Len(scopes)
      /\ \A j \in 1..Len(scopes) : s[j] = IF j = Len(scopes) THEN put ELSE scopes[j]
  BY <1>1, <1>2, <1>3, Shapes, ExceptSeq DEF Types
<1>5. DOMAIN s = DOMAIN scopes
  BY <1>4, LenProperties, Shapes
<1> QED
  BY <1>1, <1>2, <1>4, <1>5, Shapes

\* The maps s are the rule's without one mark of n, if there is any.
Unmarks(s, n) ==
    \/ s = scopes /\ \A j \in DOMAIN scopes : n \notin DOMAIN scopes[j]
    \/ \E x \in DOMAIN scopes :
          /\ n \in DOMAIN scopes[x]
          /\ \A j \in DOMAIN scopes : j # x => s[j] = scopes[j]
          /\ DOMAIN s[x] = DOMAIN scopes[x] \ {n}
          /\ \A m \in DOMAIN s[x] : s[x][m] = scopes[x][m]

LEMMA ClearedIs ==
    ASSUME Types, NEW n, NEW s, s = Cleared(n)
    PROVE  s \in Seq(Maps) /\ Len(s) = Len(scopes) /\ DOMAIN s = DOMAIN scopes /\ Unmarks(s, n)
<1>1. CASE Marked(n) = {}
  BY <1>1 DEF Cleared, Marked, Types, Unmarks
<1>2. CASE Marked(n) # {}
  <2> DEFINE x == Max(Marked(n))
             r == Restrict(scopes[x], DOMAIN scopes[x] \ {n})
  <2>1. Marked(n) \in SUBSET (1..Len(scopes)) /\ Len(scopes) \in Nat
    BY Shapes DEF Marked
  <2>2. x \in Marked(n)
    BY <1>2, <2>1, MaxIsIn
  <2>3. x \in DOMAIN scopes /\ n \in DOMAIN scopes[x]
    BY <2>2 DEF Marked
  <2>4. s = [scopes EXCEPT ![x] = r]
    BY <1>2 DEF Cleared
  <2> HIDE DEF x
  <2>5. /\ r \in Maps /\ DOMAIN r = DOMAIN scopes[x] \ {n}
        /\ \A m \in DOMAIN scopes[x] \ {n} : r[m] = scopes[x][m]
    BY <2>3, RestrictIs, Shapes
  <2> HIDE DEF r
  <2>6. /\ s \in Seq(Maps) /\ Len(s) = Len(scopes)
        /\ \A j \in 1..Len(scopes) : s[j] = IF j = x THEN r ELSE scopes[j]
    BY <2>3, <2>4, <2>5, Shapes, ExceptSeq DEF Types
  <2>7. DOMAIN s = DOMAIN scopes
    BY <2>6, LenProperties, Shapes
  <2> QED
    BY <2>3, <2>5, <2>6, <2>7, Shapes DEF Unmarks
<1> QED
  BY <1>1, <1>2

\* What a name holds is the innermost frame's.
LEMMA ValueIs ==
    ASSUME Types, NEW n, Declares(n) # {}
    PROVE  /\ Max(Declares(n)) \in DOMAIN frames
           /\ n \in DOMAIN frames[Max(Declares(n))].holds /\ n \in Keys
           /\ Value(n) = frames[Max(Declares(n))].holds[n] /\ Value(n) \in Nat
<1>1. Declares(n) \in SUBSET (1..Len(frames)) /\ Len(frames) \in Nat
  BY Shapes DEF Declares
<1>2. Max(Declares(n)) \in Declares(n)
  BY <1>1, MaxIsIn
<1>3. /\ Max(Declares(n)) \in DOMAIN frames /\ n \in DOMAIN frames[Max(Declares(n))].holds
      /\ frames[Max(Declares(n))].holds \in Maps
  BY <1>2, Shapes DEF Declares
<1> QED
  BY <1>3 DEF Value, Maps

-----------------------------------------------------------------------------
(***************************************************************************)
(* What no step takes back.                                                *)
(***************************************************************************)

Grown ==
    /\ lang' = lang /\ Events \subseteq Events' /\ named \subseteq named' /\ found \subseteq found'
    /\ \A e \in Events : /\ events'[e].comment = events[e].comment
                         /\ events[e].why \subseteq events'[e].why
                         /\ events'[e].open => events[e].open

LEMMA NamesGrow ==
    ASSUME Types, Events \subseteq Events', named \subseteq named'
    PROVE  \A e \in Events : (Namesake(e) => Namesake(e)') /\ (Aliased(e) => Aliased(e)')
  BY DEF Namesake, Aliased

LEMMA GrownKeeps ==
    ASSUME Types, Grown
    PROVE  \A e \in Events : /\ Missable(e, events) => Missable(e, events)'
                             /\ Excused(e, events) => Excused(e, events)'
<1>1. \A e \in Events : (Namesake(e) => Namesake(e)') /\ (Aliased(e) => Aliased(e)')
  BY NamesGrow DEF Grown
<1>2. Heeds' = Heeds
  BY DEF Grown, Heeds
<1>3. ASSUME NEW e \in Events, Missable(e, events) PROVE Missable(e, events)'
  BY <1>1, <1>2, <1>3 DEF Missable, Grown
<1>4. ASSUME NEW e \in Events, Excused(e, events) PROVE Excused(e, events)'
  BY <1>1, <1>4 DEF Excused, Grown
<1> QED
  BY <1>3, <1>4

\* The same frames, or frames of the same kinds, have the same depth.
LEMMA SameDepth ==
    ASSUME Types, lang' = lang, Len(frames') = Len(frames),
           \A j \in DOMAIN frames : frames'[j].kind = frames[j].kind
    PROVE  \A i \in 0..Len(frames) : ScopeOf(i)' = ScopeOf(i)
<1>1. \A i \in 0..Len(frames) : i \in Nat /\ 1..i \subseteq DOMAIN frames
  BY Shapes
<1>2. \A i \in 0..Len(frames) : Depth(frames', i) = Depth(frames, i)
  BY <1>1, DepthSame
<1> QED
  BY <1>2, ScopeIsDepth

\* There is a map while there is a frame: the file's.
LEMMA ScopesOpen ==
    ASSUME Types, Nesting, ~over
    PROVE  Len(frames) >= 1 /\ Len(scopes) >= 1
<1>1. Len(frames) \in Nat /\ Len(frames) >= 1 /\ frames[1].kind = "file"
  BY Shapes DEF Nesting
<1>2. Depth(frames, 0) = 0 /\ Depth(frames, 0 + 1) = Depth(frames, 0) + 1
  BY <1>1, DepthStep DEF Opens
<1>3. Depth(frames, 1) = 1
  BY <1>2
<1>4. Depth(frames, 1) <= Depth(frames, Len(frames))
  BY <1>1, DepthGrows
<1>5. Len(scopes) = Depth(frames, Len(frames))
  BY ScopeIsDepth DEF Nesting
<1> QED
  BY <1>1, <1>3, <1>4, <1>5, Shapes

-----------------------------------------------------------------------------
(***************************************************************************)
(* Statements that build an event and give it no name.                     *)
(***************************************************************************)

LEMMA BuiltGrows ==
    ASSUME Types, NEW form, NEW root, NEW open \in BOOLEAN, NEW comment \in Comments,
           NEW why \in SUBSET Reasons, Built(form, root, open, comment, why),
           lang' = lang, named \subseteq named', found \subseteq found'
    PROVE  Grown
  BY BuiltIs DEF Grown

LEMMA UnnamedKept ==
    ASSUME RuleInv, ~over, UNCHANGED <<lang, known, over, frames, scopes, named>>,
           NEW form, NEW root, NEW open \in BOOLEAN, NEW comment \in Comments,
           NEW why \in SUBSET Reasons, Built(form, root, open, comment, why),
           found \subseteq found', found' \subseteq found \cup {New},
           open /\ form = "open" =>
               New \in found' \/ comment \in Heeds \/ ~Unfinished(form, root),
           New \in found' => (open /\ form = "open") \/ why # {}
    PROVE  RuleInv'
<1> USE DEF RuleInv
<1>0. PICK new \in Nat : new = New
  BY BuiltIs
<1>1. /\ events' \in Seq(EventRecords)
      /\ new \notin Events /\ Events' = Events \cup {new} /\ new # Plain
      /\ \A e \in Events : events'[e] = events[e]
      /\ events'[new].open => open /\ form = "open" /\ root # "alike"
      /\ open /\ form = "open" /\ root # "alike" => events'[new].open
      /\ events'[new].comment = comment
      /\ why \subseteq events'[new].why
      /\ form = "open" /\ ~Unfinished(form, root) => "unknown" \in events'[new].why
      /\ root = "alike" => "alike" \in events'[new].why
  BY <1>0, BuiltIs
<1>2. \A e \in Events : /\ Missable(e, events) => Missable(e, events)'
                        /\ Excused(e, events) => Excused(e, events)'
  BY BuiltGrows, GrownKeeps
<1>3. Types'
  BY <1>0, <1>1 DEF Types, Values
<1>4. Nesting' /\ \A i \in 0..Len(frames) : ScopeOf(i)' = ScopeOf(i)
  BY SameDepth, Shapes DEF Nesting
<1>5. HeldNamed'
  BY <1>1 DEF HeldNamed, Values, Types
<1>6. MarkedNamed' /\ MarkedOnce'
  BY <1>1 DEF MarkedNamed, MarkedOnce
<1>7. Noticed(scopes, events)'
  <2>1. ASSUME NEW e \in Events, events'[e].open PROVE Missable(e, events)' \/ MarkedIn(scopes, e)'
    BY <1>1, <1>2, <2>1 DEF Noticed, MarkedIn
  <2>2. ASSUME events'[new].open PROVE Missable(new, events)'
    BY <1>0, <1>1, <2>2 DEF Missable, Heeds
  <2> QED
    BY <1>1, <2>1, <2>2 DEF Noticed
<1>8. MarkedOpen(scopes, events)'
  <2>1. \A i \in DOMAIN scopes : \A n \in DOMAIN scopes[i] : scopes[i][n] \in Events
    BY DEF MarkedNamed
  <2>2. \A j \in DOMAIN frames : j \in 0..Len(frames)
    BY Shapes
  <2> QED
    BY <1>1, <1>2, <1>4, <2>1, <2>2 DEF MarkedOpen, InReach
<1>9. FoundOpen(events)'
  <2>1. ASSUME NEW e \in found
        PROVE  Excused(e, events)' \/ (events'[e].open /\ \A j \in DOMAIN frames : ~InReach(e, j)')
    <3>1. e \in Events
      BY DEF Types
    <3>2. Excused(e, events) \/ (events[e].open /\ \A j \in DOMAIN frames : ~InReach(e, j))
      BY DEF FoundOpen
    <3>3. \A j \in DOMAIN frames : InReach(e, j)' <=> InReach(e, j)
      BY DEF InReach
    <3> QED
      BY <1>1, <1>2, <3>1, <3>2, <3>3
  <2>2. \A j \in DOMAIN frames : ~InReach(new, j)'
    <3>1. \A j \in DOMAIN frames : \A n \in DOMAIN frames[j].holds :
            frames[j].holds[n] \in Values
      BY DEF HeldNamed
    <3> QED
      BY <1>1, <3>1 DEF InReach, Values
  <2>3. new \in found' => Excused(new, events)' \/ events'[new].open
    BY <1>0, <1>1 DEF Excused
  <2> QED
    BY <1>0, <2>1, <2>2, <2>3 DEF FoundOpen
<1> QED
  BY <1>3, <1>4, <1>5, <1>6, <1>7, <1>8, <1>9

-----------------------------------------------------------------------------
(***************************************************************************)
(* Statements that give a name a value.                                    *)
(***************************************************************************)

LEMMA DeclareKept ==
    ASSUME RuleInv, ~over, UNCHANGED <<lang, known, over>>, NEW n \in Names, Declare(n)
    PROVE  RuleInv'
<1> USE DEF RuleInv
<1>1. Given(Len(frames), n, Plain) /\ UNCHANGED <<events, scopes, found, named>>
  BY DEF Declare
<1>2. Len(frames) \in DOMAIN frames
  BY ScopesOpen, Shapes
<1>3. /\ frames' \in Seq(Frames) /\ Len(frames') = Len(frames)
      /\ DOMAIN frames' = DOMAIN frames
      /\ \A j \in DOMAIN frames : /\ frames'[j].kind = frames[j].kind
                                  /\ j # Len(frames) => frames'[j].holds = frames[j].holds
      /\ DOMAIN frames'[Len(frames)].holds = DOMAIN frames[Len(frames)].holds \cup {n}
      /\ frames'[Len(frames)].holds[n] = Plain
  BY <1>1, <1>2, GivenIs DEF Plain
<1>4. \A j \in DOMAIN frames : DOMAIN frames[j].holds = {}
  <2>1. ASSUME NEW j \in DOMAIN frames, NEW m \in DOMAIN frames[j].holds PROVE FALSE
    <3>1. m \in Names
      BY DEF HeldNamed
    <3>2. j \in Declares(m)
      BY <2>1 DEF Declares
    <3> QED
      BY <3>1, <3>2 DEF Declare, InUse
  <2> QED
    BY <2>1
<1>5. \A v \in Values : <<n, v>> \notin named
  BY DEF Declare, InUse, Values
<1>6. Types' /\ Values' = Values /\ Events' = Events
  BY <1>1, <1>3 DEF Types, Values, Events
<1>7. Nesting' /\ \A i \in 0..Len(frames) : ScopeOf(i)' = ScopeOf(i)
  <2>1. \A i \in 0..Len(frames) : ScopeOf(i)' = ScopeOf(i)
    BY <1>3, SameDepth
  <2> QED
    BY <1>1, <1>2, <1>3, <2>1, ScopesOpen, Shapes DEF Nesting
<1>8. HeldNamed'
  BY <1>1, <1>3, <1>4, <1>5, <1>6 DEF HeldNamed, Values
<1>9. MarkedNamed' /\ MarkedOnce'
  BY <1>1, <1>6 DEF MarkedNamed, MarkedOnce
<1>10. Grown
  BY <1>1, <1>6 DEF Grown
<1>11. \A e \in Events, j \in DOMAIN frames : ~InReach(e, j)'
  BY <1>3, <1>4, Shapes DEF InReach, Events, Plain
<1>12. Noticed(scopes, events)'
  BY <1>1, <1>6, <1>10, GrownKeeps DEF Noticed, MarkedIn
<1>13. MarkedOpen(scopes, events)'
  BY <1>1, <1>3, <1>10, <1>11, GrownKeeps DEF MarkedOpen, MarkedNamed
<1>14. FoundOpen(events)'
  BY <1>1, <1>3, <1>10, <1>11, GrownKeeps DEF FoundOpen, Types
<1> QED
  BY <1>6, <1>7, <1>8, <1>9, <1>12, <1>13, <1>14

LEMMA HoldsIs ==
    ASSUME Types, HeldNamed, NEW i \in DOMAIN frames, NEW n \in Names, NEW v \in Nat,
           NEW k \in {n, EventType}, Holds(i, n, k, v), Events \subseteq Events', v \in Values'
    PROVE  /\ frames' \in Seq(Frames) /\ Len(frames') = Len(frames)
           /\ DOMAIN frames' = DOMAIN frames
           /\ \A j \in DOMAIN frames : frames'[j].kind = frames[j].kind
           /\ named \subseteq named' /\ <<n, v>> \in named' /\ <<k, v>> \in named'
           /\ named' \subseteq Keys \X Values'
           /\ HeldNamed'
           /\ \A e, j : j \in DOMAIN frames /\ InReach(e, j)' =>
                InReach(e, j) \/ (e = v /\ j = i)
<1>1. /\ frames' \in Seq(Frames) /\ Len(frames') = Len(frames)
      /\ DOMAIN frames' = DOMAIN frames
      /\ \A j \in DOMAIN frames : /\ frames'[j].kind = frames[j].kind
                                  /\ j # i => frames'[j].holds = frames[j].holds
      /\ DOMAIN frames'[i].holds = DOMAIN frames[i].holds \cup {n}
      /\ frames'[i].holds[n] = v
      /\ \A m \in DOMAIN frames[i].holds : m # n => frames'[i].holds[m] = frames[i].holds[m]
  BY GivenIs DEF Holds
<1>2. named' = named \cup {<<n, v>>, <<k, v>>} \cup {<<n, Value(n)>> : j \in Declares(n) \ {i}}
  BY DEF Holds
<1>k. k \in Keys /\ n \in Keys /\ \A m \in Names : m # n => m # k
  BY NamesAssumption DEF Keys
<1>3. Values \subseteq Values'
  BY DEF Values
<1>4. Declares(n) # {} => Value(n) \in Values
  <2>1. \A j \in DOMAIN frames : \A m \in DOMAIN frames[j].holds : frames[j].holds[m] \in Values
    BY DEF HeldNamed
  <2> QED
    BY <2>1, ValueIs
<1>5. named' \subseteq Keys \X Values'
  <2>1. /\ named \subseteq Keys \X Values'
        /\ <<n, v>> \in Keys \X Values' /\ <<k, v>> \in Keys \X Values'
    BY <1>3, <1>k DEF Types
  <2>2. Declares(n) # {} => <<n, Value(n)>> \in Keys \X Values'
    BY <1>3, <1>4, <1>k
  <2> QED
    BY <1>2, <2>1, <2>2
<1>6. HeldNamed'
  <2>1. ASSUME NEW j \in DOMAIN frames, NEW m \in DOMAIN frames[j].holds, m # n
        PROVE  /\ m \in Names /\ frames[j].holds[m] \in Values'
               /\ \/ <<m, frames[j].holds[m]>> \in named'
                  \/ /\ frames[j].holds[m] = Plain
                     /\ \A w \in Values' : <<m, w>> \notin named'
                     /\ \A x \in DOMAIN frames' : m \in DOMAIN frames'[x].holds => x = j
    <3>0. m \in Names
      BY DEF HeldNamed
    <3>1. CASE <<m, frames[j].holds[m]>> \in named
      BY <1>2, <1>3, <3>1 DEF HeldNamed
    <3>2. CASE <<m, frames[j].holds[m]>> \notin named
      <4>1. /\ frames[j].holds[m] = Plain /\ frames[j].holds[m] \in Values
            /\ \A w \in Values : <<m, w>> \notin named
            /\ \A x \in DOMAIN frames : m \in DOMAIN frames[x].holds => x = j
        BY <3>2 DEF HeldNamed
      <4>2. \A w : <<m, w>> \notin named
        BY <4>1 DEF Types
      <4>3. m # n /\ m # k
        BY <1>k, <2>1 DEF HeldNamed
      <4>4. \A w : <<m, w>> \notin named'
        BY <1>2, <4>2, <4>3
      <4>5. \A x \in DOMAIN frames' : m \in DOMAIN frames'[x].holds => x = j
        BY <1>1, <2>1, <4>1
      <4> QED
        BY <1>3, <4>1, <4>4, <4>5, <3>0
    <3> QED
      BY <3>0, <3>1, <3>2
  <2>2. ASSUME NEW j \in DOMAIN frames, j # i, n \in DOMAIN frames[j].holds
        PROVE  frames[j].holds[n] \in Values' /\ <<n, frames[j].holds[n]>> \in named'
    <3>1. frames[j].holds[n] \in Values
      BY <2>2 DEF HeldNamed
    <3>2. CASE <<n, frames[j].holds[n]>> \in named
      BY <1>2, <1>3, <3>1, <3>2
    <3>3. CASE <<n, frames[j].holds[n]>> \notin named
      <4>1. \A x \in DOMAIN frames : n \in DOMAIN frames[x].holds => x = j
        BY <2>2, <3>3 DEF HeldNamed
      <4>2. j \in Declares(n)
        BY <2>2 DEF Declares
      <4>3. Value(n) = frames[j].holds[n]
        BY <4>1, <4>2, ValueIs
      <4> QED
        BY <1>2, <1>3, <2>2, <3>1, <4>2, <4>3
    <3> QED
      BY <3>2, <3>3
  <2>3. v \in Values' /\ <<n, v>> \in named'
    BY <1>2
  <2>4. ASSUME NEW j \in DOMAIN frames, NEW m \in DOMAIN frames'[j].holds
        PROVE  /\ m \in Names /\ frames'[j].holds[m] \in Values'
               /\ \/ <<m, frames'[j].holds[m]>> \in named'
                  \/ /\ frames'[j].holds[m] = Plain
                     /\ \A w \in Values' : <<m, w>> \notin named'
                     /\ \A x \in DOMAIN frames' : m \in DOMAIN frames'[x].holds => x = j
    <3>1. CASE m # n
      <4>1. m \in DOMAIN frames[j].holds /\ frames'[j].holds[m] = frames[j].holds[m]
        BY <1>1, <2>4, <3>1
      <4> QED
        BY <2>1, <3>1, <4>1
    <3>2. CASE m = n /\ j = i
      BY <1>1, <2>3, <3>2
    <3>3. CASE m = n /\ j # i
      BY <1>1, <2>2, <2>4, <3>3
    <3> QED
      BY <3>1, <3>2, <3>3
  <2> QED
    BY <1>1, <2>4 DEF HeldNamed, Plain
<1>7. ASSUME NEW e, NEW j \in DOMAIN frames, InReach(e, j)'
      PROVE  InReach(e, j) \/ (e = v /\ j = i)
  BY <1>1, <1>7 DEF InReach
<1> QED
  BY <1>1, <1>2, <1>5, <1>6, <1>7

\* The bigger part of the invariant where no frame comes or goes.
LEMMA SameFrames ==
    ASSUME Types, Nesting, ~over, UNCHANGED <<lang, over>>, Len(scopes') = Len(scopes),
           Len(frames') = Len(frames), \A j \in DOMAIN frames : frames'[j].kind = frames[j].kind
    PROVE  Nesting' /\ \A i \in DOMAIN frames : ScopeOf(i)' = ScopeOf(i)
<1>1. \A i \in 0..Len(frames) : ScopeOf(i)' = ScopeOf(i)
  BY SameDepth
<1>2. /\ Len(frames) \in DOMAIN frames /\ 1 \in DOMAIN frames
      /\ DOMAIN frames \subseteq 0..Len(frames)
  BY ScopesOpen, Shapes
<1> QED
  BY <1>1, <1>2 DEF Nesting

LEMMA CopyKept ==
    ASSUME RuleInv, ~over, UNCHANGED <<lang, known, over>>, NEW n \in Names, NEW v, Copy(n, v)
    PROVE  RuleInv'
<1> USE DEF RuleInv
<1>1. UNCHANGED <<events, scopes, found>> /\ Events' = Events /\ Values' = Values
  BY DEF Copy, Events, Values
<1>2. PICK i \in DOMAIN frames : Holds(i, n, n, v)
  <2>1. Len(frames) \in DOMAIN frames
    BY ScopesOpen, Shapes
  <2>2. MayAssign(n) => Max(Declares(n)) \in DOMAIN frames
    BY ValueIs DEF MayAssign
  <2> QED
    BY <2>1, <2>2 DEF Copy
<1>3. v \in Values /\ (v # Plain => \E m \in Names : m # n /\ <<m, v>> \in named)
  <2>1. CASE v = Plain
    BY <2>1 DEF Values
  <2>2. CASE v # Plain
    <3>1. PICK m \in Names \ {n} : Declares(m) # {} /\ v = Value(m)
      BY <2>2 DEF Copy
    <3>2. PICK j \in DOMAIN frames : m \in DOMAIN frames[j].holds /\ v = frames[j].holds[m]
      BY <3>1, ValueIs
    <3>3. v \in Values /\ (<<m, v>> \in named \/ v = Plain)
      BY <3>2 DEF HeldNamed
    <3> QED
      BY <2>2, <3>1, <3>3
  <2> QED
    BY <2>1, <2>2
<1>4. v \in Nat
  BY <1>3, Shapes DEF Values, Events, Plain
<1>5. /\ frames' \in Seq(Frames) /\ Len(frames') = Len(frames)
      /\ DOMAIN frames' = DOMAIN frames
      /\ \A j \in DOMAIN frames : frames'[j].kind = frames[j].kind
      /\ named \subseteq named' /\ <<n, v>> \in named' /\ named' \subseteq Keys \X Values'
      /\ HeldNamed'
      /\ \A e, j : j \in DOMAIN frames /\ InReach(e, j)' =>
            InReach(e, j) \/ (e = v /\ j = i)
  BY <1>1, <1>2, <1>3, <1>4, HoldsIs
<1>6. Types'
  BY <1>1, <1>5 DEF Types
<1>7. Nesting' /\ \A j \in DOMAIN frames : ScopeOf(j)' = ScopeOf(j)
  BY <1>1, <1>5, SameFrames
<1>8. MarkedNamed' /\ MarkedOnce'
  BY <1>1, <1>5 DEF MarkedNamed, MarkedOnce
<1>9. \A e \in Events : /\ Missable(e, events) => Missable(e, events)'
                        /\ Excused(e, events) => Excused(e, events)'
  <2>1. Grown
    BY <1>1, <1>5 DEF Grown
  <2> QED
    BY <2>1, GrownKeeps
<1>10. \A e \in Events : e = v => Excused(e, events)'
  <2>1. ASSUME NEW e \in Events, e = v PROVE Excused(e, events)'
    <3>1. e # Plain
      BY Shapes DEF Events, Plain
    <3>2. PICK m \in Names : m # n /\ <<m, e>> \in named
      BY <1>3, <2>1, <3>1
    <3>3. <<n, e>> \in named' /\ <<m, e>> \in named'
      BY <1>5, <2>1, <3>2
    <3>4. Aliased(e)'
      BY <3>2, <3>3 DEF Aliased, Keys
    <3> QED
      BY <3>4 DEF Excused
  <2> QED
    BY <2>1
<1>11. Noticed(scopes, events)'
  BY <1>1, <1>9 DEF Noticed, MarkedIn
<1>12. MarkedOpen(scopes, events)'
  BY <1>1, <1>5, <1>7, <1>9, <1>10 DEF MarkedOpen, MarkedNamed
<1>13. FoundOpen(events)'
  BY <1>1, <1>5, <1>9, <1>10 DEF FoundOpen, Types
<1> QED
  BY <1>5, <1>6, <1>7, <1>8, <1>11, <1>12, <1>13

LEMMA StoreKept ==
    ASSUME RuleInv, ~over, UNCHANGED <<lang, known, over>>,
           NEW i \in DOMAIN frames, NEW n \in Names, NEW k \in {n, EventType},
           NEW form, NEW root, NEW comment \in Comments, Store(i, n, k, form, root, comment)
    PROVE  RuleInv'
<1> USE DEF RuleInv
<1> DEFINE why == IF ScopeOf(i) = Len(scopes) THEN {} ELSE {"inner"}
           last == Len(scopes)
<1>0. PICK new \in Nat : new = New
  BY Shapes DEF New
<1>1. why \in SUBSET Reasons /\ Built(form, root, TRUE, comment, why)
  BY DEF Store, Reasons
<1>2. /\ events' \in Seq(EventRecords)
      /\ new \notin Events /\ Events' = Events \cup {new} /\ new # Plain
      /\ \A e \in Events : events'[e] = events[e]
      /\ events'[new].open <=> form = "open" /\ root # "alike"
      /\ why \subseteq events'[new].why
      /\ form = "open" /\ ~Unfinished(form, root) => "unknown" \in events'[new].why
      /\ root = "alike" => "alike" \in events'[new].why
  BY <1>0, <1>1, BuiltIs
<1>3. Holds(i, n, k, new) /\ found' = found
  BY <1>0 DEF Store
<1>4. /\ frames' \in Seq(Frames) /\ Len(frames') = Len(frames)
      /\ DOMAIN frames' = DOMAIN frames
      /\ \A j \in DOMAIN frames : frames'[j].kind = frames[j].kind
      /\ named \subseteq named' /\ <<n, new>> \in named' /\ <<k, new>> \in named'
      /\ named' \subseteq Keys \X Values'
      /\ HeldNamed'
      /\ \A e, j : j \in DOMAIN frames /\ InReach(e, j)' =>
            InReach(e, j) \/ (e = new /\ j = i)
  <2>1. new \in Values' /\ Events \subseteq Events'
    BY <1>2 DEF Values
  <2>2. Types /\ HeldNamed /\ Holds(i, n, k, new)
    BY <1>3
  <2>3. /\ frames' \in Seq(Frames) /\ Len(frames') = Len(frames)
        /\ DOMAIN frames' = DOMAIN frames
        /\ \A j \in DOMAIN frames : frames'[j].kind = frames[j].kind
        /\ named \subseteq named' /\ <<n, new>> \in named' /\ <<k, new>> \in named'
        /\ named' \subseteq Keys \X Values'
    BY <2>1, <2>2, HoldsIs
  <2>4. HeldNamed'
    BY <2>1, <2>2, HoldsIs
  <2>5. ASSUME NEW e, NEW j \in DOMAIN frames, InReach(e, j)'
        PROVE  InReach(e, j) \/ (e = new /\ j = i)
    <3>1. Given(i, n, new) /\ new \in Nat
      BY <2>2 DEF Holds
    <3> QED
      BY <2>5, <3>1, GivenIs DEF InReach
  <2> QED
    BY <2>3, <2>4, <2>5
<1>5. last \in DOMAIN scopes
  BY ScopesOpen, Shapes
<1>6. /\ scopes' \in Seq(Maps) /\ Len(scopes') = last /\ DOMAIN scopes' = DOMAIN scopes
      /\ \A j \in DOMAIN scopes : j # last => scopes'[j] = scopes[j]
      /\ IF Unfinished(form, root)
         THEN /\ DOMAIN scopes'[last] = DOMAIN scopes[last] \cup {k} /\ scopes'[last][k] = new
              /\ \A m \in DOMAIN scopes[last] : m # k => scopes'[last][m] = scopes[last][m]
         ELSE scopes' = scopes
  <2>1. CASE Unfinished(form, root)
    <3>1. scopes' = Mark(k, new) /\ last >= 1 /\ k \in Keys
      BY <1>0, <2>1, ScopesOpen DEF Store, Keys
    <3> QED
      BY <2>1, <3>1, MarkIs
  <2>2. CASE ~Unfinished(form, root)
    BY <2>2 DEF Store, Types
  <2> QED
    BY <2>1, <2>2
<1>7. Unfinished(form, root) => form = "open"
  BY DEF Unfinished, InspectedOpen, PipeOpen, MethodChainOpen
<1> HIDE DEF why
<1>8. Types'
  BY <1>2, <1>3, <1>4, <1>6 DEF Types
<1>9. Nesting' /\ \A j \in DOMAIN frames : ScopeOf(j)' = ScopeOf(j)
  BY <1>4, <1>6, SameFrames
<1>10. \A e \in Events : /\ Missable(e, events) => Missable(e, events)'
                         /\ Excused(e, events) => Excused(e, events)'
  <2>1. Grown
    BY <1>1, <1>3, <1>4, BuiltGrows
  <2> QED
    BY <2>1, GrownKeeps
\* A mark is the new one or an old one.
<1>11. \A j \in DOMAIN scopes' : \A m \in DOMAIN scopes'[j] :
         \/ j = last /\ m = k /\ scopes'[j][m] = new /\ Unfinished(form, root)
         \/ m \in DOMAIN scopes[j] /\ scopes'[j][m] = scopes[j][m]
  BY <1>6
<1>12. MarkedNamed'
  BY <1>2, <1>4, <1>6, <1>11 DEF MarkedNamed
<1>13. MarkedOnce'
  <2> DEFINE IsNew(j, m) == j = last /\ m = k /\ scopes'[j][m] = new
             IsOld(j, m) == /\ j \in DOMAIN scopes /\ m \in DOMAIN scopes[j]
                            /\ scopes'[j][m] = scopes[j][m] /\ scopes'[j][m] # new
  <2>1. \A j \in DOMAIN scopes' : \A m \in DOMAIN scopes'[j] : IsNew(j, m) \/ IsOld(j, m)
    <3>1. \A j \in DOMAIN scopes : \A m \in DOMAIN scopes[j] : scopes[j][m] # new
      BY <1>2 DEF MarkedNamed
    <3> QED
      BY <1>6, <1>11, <3>1
  <2>2. ASSUME NEW j \in DOMAIN scopes, NEW x \in DOMAIN scopes,
               NEW m \in DOMAIN scopes[j], NEW l \in DOMAIN scopes[x],
               IsOld(j, m), IsOld(x, l), scopes'[j][m] = scopes'[x][l]
        PROVE  j = x /\ m = l
    <3>1. scopes[j][m] = scopes[x][l]
      BY <2>2
    <3> QED
      BY <3>1 DEF MarkedOnce
  <2>3. \A j, x, m, l : IsNew(j, m) /\ IsNew(x, l) => j = x /\ m = l
    OBVIOUS
  <2>4. \A j, x, m, l : IsNew(j, m) /\ IsOld(x, l) => scopes'[j][m] # scopes'[x][l]
    OBVIOUS
  <2>5. \A j, m : IsOld(j, m) => j \in DOMAIN scopes /\ m \in DOMAIN scopes[j]
    OBVIOUS
  <2> HIDE DEF IsNew, IsOld
  <2> QED
    BY <2>1, <2>2, <2>3, <2>4, <2>5 DEF MarkedOnce
<1>14. Noticed(scopes, events)'
  <2>1. ASSUME NEW e \in Events, events'[e].open PROVE Missable(e, events)' \/ MarkedIn(scopes, e)'
    <3>1. Missable(e, events) \/ MarkedIn(scopes, e)
      BY <1>2, <2>1 DEF Noticed
    <3>2. ASSUME NEW j \in DOMAIN scopes, NEW m \in DOMAIN scopes[j], scopes[j][m] = e
          PROVE  Missable(e, events)' \/ MarkedIn(scopes, e)'
      <4>1. CASE Unfinished(form, root) /\ j = last /\ m = k
        <5>1. <<k, e>> \in named' /\ <<k, new>> \in named' /\ new # e
          BY <1>2, <1>4, <3>2, <4>1 DEF MarkedNamed
        <5>2. Namesake(e)'
          BY <1>2, <5>1 DEF Namesake, Keys
        <5> QED
          BY <5>2 DEF Missable
      <4>2. CASE ~(Unfinished(form, root) /\ j = last /\ m = k)
        <5>1. m \in DOMAIN scopes'[j] /\ scopes'[j][m] = e
          BY <1>6, <3>2, <4>2
        <5> QED
          BY <1>6, <5>1 DEF MarkedIn
      <4> QED
        BY <4>1, <4>2
    <3>3. CASE Missable(e, events)
      BY <1>10, <3>3
    <3>4. CASE MarkedIn(scopes, e)
      <4>1. PICK j \in DOMAIN scopes : \E m \in DOMAIN scopes[j] : scopes[j][m] = e
        BY <3>4 DEF MarkedIn
      <4> QED
        BY <3>2, <4>1
    <3> QED
      BY <3>1, <3>3, <3>4
  <2>2. ASSUME events'[new].open PROVE Missable(new, events)' \/ MarkedIn(scopes, new)'
    BY <1>2, <1>5, <1>6, <2>2 DEF Missable, MarkedIn
  <2> QED
    BY <1>2, <2>1, <2>2 DEF Noticed
<1>15. MarkedOpen(scopes, events)'
  <2>1. ASSUME NEW j \in DOMAIN scopes, NEW m \in DOMAIN scopes[j], NEW e, e = scopes[j][m]
        PROVE  \/ Excused(e, events)'
               \/ /\ events'[e].open
                  /\ \A x \in DOMAIN frames : InReach(e, x)' => ScopeOf(x)' >= j
    <3>1. e \in Events
      BY <2>1 DEF MarkedNamed
    <3>2. \/ Excused(e, events)
          \/ events[e].open /\ \A x \in DOMAIN frames : InReach(e, x) => ScopeOf(x) >= j
      BY <2>1 DEF MarkedOpen
    <3>3. \A x \in DOMAIN frames : InReach(e, x)' => InReach(e, x)
      BY <1>2, <1>4, <3>1
    <3> QED
      BY <1>2, <1>9, <1>10, <3>1, <3>2, <3>3
  <2>2. ASSUME Unfinished(form, root)
        PROVE  \/ Excused(new, events)'
               \/ /\ events'[new].open
                  /\ \A x \in DOMAIN frames : InReach(new, x)' => ScopeOf(x)' >= last
    <3>1. CASE ScopeOf(i) = Len(scopes) /\ k = n /\ root # "alike"
      <4>a. \A x \in DOMAIN frames : \A m \in DOMAIN frames[x].holds :
              frames[x].holds[m] \in Values
        BY DEF HeldNamed
      <4>1. \A x \in DOMAIN frames : ~InReach(new, x)
        BY <1>2, <4>a DEF InReach, Values
      <4>2. \A x \in DOMAIN frames : InReach(new, x)' => x = i
        BY <1>4, <4>1
      <4>3. last \in Nat
        BY Shapes
      <4> QED
        BY <1>2, <1>7, <1>9, <2>2, <3>1, <4>2, <4>3
    <3>2. CASE ScopeOf(i) # Len(scopes)
      <4>1. "inner" \in events'[new].why
        BY <1>2, <3>2 DEF why
      <4> QED
        BY <4>1 DEF Excused
    <3>3. CASE k # n
      <4>1. /\ n \in Keys /\ k \in Keys /\ Keys' = Keys
            /\ <<n, new>> \in named' /\ <<k, new>> \in named'
        BY <1>4 DEF Keys
      <4>2. \E x, y \in Keys' : x # y /\ {<<x, new>>, <<y, new>>} \subseteq named'
        BY <3>3, <4>1
      <4> QED
        BY <4>2 DEF Excused, Aliased
    <3>4. CASE root = "alike"
      BY <1>2, <3>4 DEF Excused
    <3> QED
      BY <3>1, <3>2, <3>3, <3>4
  <2> QED
    BY <1>4, <1>6, <1>11, <2>1, <2>2 DEF MarkedOpen
<1>16. FoundOpen(events)'
  BY <1>2, <1>3, <1>4, <1>10 DEF FoundOpen, Types
<1> QED
  BY <1>4, <1>8, <1>9, <1>12, <1>13, <1>14, <1>15, <1>16

-----------------------------------------------------------------------------
(***************************************************************************)
(* Statements that use a name.                                             *)
(***************************************************************************)

\* What a use keeps: s and ev are the rule's maps and the events after it.
Kept(s, ev) ==
    /\ s \in Seq(Maps) /\ Len(s) = Len(scopes) /\ DOMAIN s = DOMAIN scopes
    /\ \A j \in DOMAIN s : \A m \in DOMAIN s[j] :
            m \in DOMAIN scopes[j] /\ s[j][m] = scopes[j][m]
    /\ ev \in Seq(EventRecords) /\ Len(ev) = Len(events)
    /\ \A e \in Events : /\ ev[e].open => events[e].open
                         /\ ev[e].comment = events[e].comment
                         /\ events[e].why \subseteq ev[e].why
    /\ Noticed(s, ev) /\ MarkedOpen(s, ev) /\ FoundOpen(ev)

LEMMA UsedKeeps ==
    ASSUME RuleInv, ~over, NEW n, NEW use, Declares(n) # {}, NEW ev, NEW s,
           ev = Used(Value(n), use),
           (use \in Reads /\ s = Cleared(n)) \/ (use \notin Reads /\ s = scopes)
    PROVE  Kept(s, ev)
<1> USE DEF RuleInv
<1>0. PICK v \in Nat : v = Value(n)
  BY ValueIs
<1>1. PICK f \in DOMAIN frames : n \in DOMAIN frames[f].holds /\ v = frames[f].holds[n]
  BY <1>0, ValueIs
<1>2. n \in Keys
  BY ValueIs
<1>3. /\ v \in Values
      /\ <<n, v>> \in named \/ (v = Plain /\ \A w \in Values : <<n, w>> \notin named)
  BY <1>1 DEF HeldNamed
<1>4. /\ ev \in Seq(EventRecords) /\ Len(ev) = Len(events)
      /\ \A e \in Events : /\ e # v => ev[e] = events[e]
                           /\ ev[e].open => events[e].open
                           /\ ev[e].comment = events[e].comment
                           /\ events[e].why \subseteq ev[e].why
      /\ v # Plain => /\ v \in Events /\ ~ev[v].open
                      /\ use \notin Reads => ev[v].why # {}
  BY <1>0, <1>3, UsedIs
<1>5. \A e \in Events : e # Plain
  BY Shapes DEF Events, Plain
\* An event that is marked under n is v or has a namesake.
<1>6. \A j \in DOMAIN scopes : n \in DOMAIN scopes[j] =>
        /\ <<n, v>> \in named /\ v \in Values
        /\ scopes[j][n] # v => Namesake(scopes[j][n]) /\ (v \in Events => Namesake(v))
  <2>1. ASSUME NEW j \in DOMAIN scopes, n \in DOMAIN scopes[j]
        PROVE  scopes[j][n] \in Events /\ <<n, scopes[j][n]>> \in named /\ <<n, v>> \in named
    BY <1>3, <2>1 DEF MarkedNamed, Values
  <2> QED
    BY <1>2, <1>3, <2>1 DEF Namesake, Values
<1>7. \A e \in Events : /\ Missable(e, events) => Missable(e, ev)
                        /\ Excused(e, events) => Excused(e, ev)
  BY <1>4 DEF Missable, Excused
<1>8. /\ s \in Seq(Maps) /\ Len(s) = Len(scopes) /\ DOMAIN s = DOMAIN scopes
      /\ \A j \in DOMAIN s : \A m \in DOMAIN s[j] :
            m \in DOMAIN scopes[j] /\ s[j][m] = scopes[j][m]
      /\ \A j \in DOMAIN scopes : \A m \in DOMAIN scopes[j] : m # n =>
            m \in DOMAIN s[j] /\ s[j][m] = scopes[j][m]
      /\ use \in Reads => \A j \in DOMAIN s : n \in DOMAIN s[j] =>
            \E x \in DOMAIN scopes : x # j /\ n \in DOMAIN scopes[x]
  <2>1. CASE use \notin Reads
    BY <2>1 DEF Types
  <2>2. CASE use \in Reads
    <3>1. s = Cleared(n)
      BY <2>2
    <3>2. s \in Seq(Maps) /\ Len(s) = Len(scopes) /\ DOMAIN s = DOMAIN scopes /\ Unmarks(s, n)
      BY <3>1, ClearedIs
    <3>3. CASE s = scopes /\ \A j \in DOMAIN scopes : n \notin DOMAIN scopes[j]
      BY <3>2, <3>3
    <3>4. ASSUME NEW x \in DOMAIN scopes, n \in DOMAIN scopes[x],
                 \A j \in DOMAIN scopes : j # x => s[j] = scopes[j],
                 DOMAIN s[x] = DOMAIN scopes[x] \ {n},
                 \A m \in DOMAIN s[x] : s[x][m] = scopes[x][m]
          PROVE  /\ \A j \in DOMAIN s : \A m \in DOMAIN s[j] :
                        m \in DOMAIN scopes[j] /\ s[j][m] = scopes[j][m]
                 /\ \A j \in DOMAIN scopes : \A m \in DOMAIN scopes[j] : m # n =>
                        m \in DOMAIN s[j] /\ s[j][m] = scopes[j][m]
                 /\ \A j \in DOMAIN s : n \in DOMAIN s[j] =>
                        \E y \in DOMAIN scopes : y # j /\ n \in DOMAIN scopes[y]
      BY <3>2, <3>4
    <3> QED
      BY <3>2, <3>3, <3>4 DEF Unmarks
  <2> QED
    BY <2>1, <2>2
<1>9. Noticed(s, ev)
  <2>1. ASSUME NEW e \in Events, ev[e].open PROVE Missable(e, ev) \/ MarkedIn(s, e)
    <3>1. Missable(e, events) \/ MarkedIn(scopes, e)
      BY <1>4, <2>1 DEF Noticed
    <3>2. CASE Missable(e, events)
      BY <1>7, <3>2
    <3>3. ASSUME NEW j \in DOMAIN scopes, NEW m \in DOMAIN scopes[j], scopes[j][m] = e
          PROVE  Missable(e, ev) \/ MarkedIn(s, e)
      <4>1. CASE m # n
        BY <1>8, <3>3, <4>1 DEF MarkedIn
      <4>2. CASE m = n
        <5>1. e # v
          BY <1>4, <1>5, <2>1
        <5> QED
          BY <1>6, <3>3, <4>2, <5>1 DEF Missable
      <4> QED
        BY <4>1, <4>2
    <3> QED
      BY <3>1, <3>2, <3>3 DEF MarkedIn
  <2> QED
    BY <2>1 DEF Noticed
<1>10. MarkedOpen(s, ev)
  <2>1. ASSUME NEW j \in DOMAIN s, NEW m \in DOMAIN s[j], NEW e, e = s[j][m], ~Excused(e, ev)
        PROVE  ev[e].open /\ \A k \in DOMAIN frames : InReach(e, k) => ScopeOf(k) >= j
    <3>1. j \in DOMAIN scopes /\ m \in DOMAIN scopes[j] /\ e = scopes[j][m]
      BY <1>8, <2>1
    <3>2. e \in Events /\ <<m, e>> \in named /\ m \in Keys
      BY <3>1 DEF MarkedNamed, Types
    <3>3. events[e].open /\ \A k \in DOMAIN frames : InReach(e, k) => ScopeOf(k) >= j
      BY <1>7, <2>1, <3>1, <3>2 DEF MarkedOpen
    <3>4. ASSUME e = v PROVE FALSE
      <4>1. <<n, e>> \in named
        BY <1>3, <1>5, <3>2, <3>4
      <4>2. m = n
        BY <1>2, <2>1, <3>2, <4>1 DEF Excused, Aliased
      <4>3. use \in Reads
        BY <1>4, <1>5, <2>1, <3>2, <3>4 DEF Excused
      <4>4. PICK x \in DOMAIN scopes : x # j /\ n \in DOMAIN scopes[x]
        BY <1>8, <2>1, <4>2, <4>3
      <4>5. scopes[x][n] # v
        BY <3>1, <3>4, <4>2, <4>4 DEF MarkedOnce
      <4>6. Namesake(e)
        BY <1>6, <3>2, <3>4, <4>4, <4>5
      <4> QED
        BY <2>1, <4>6 DEF Excused
    <3> QED
      BY <1>4, <3>2, <3>3, <3>4
  <2> QED
    BY <2>1 DEF MarkedOpen
<1>11. FoundOpen(ev)
  <2>1. ASSUME NEW e \in found, ~Excused(e, ev)
        PROVE  ev[e].open /\ \A k \in DOMAIN frames : ~InReach(e, k)
    <3>1. e \in Events
      BY DEF Types
    <3>2. events[e].open /\ \A k \in DOMAIN frames : ~InReach(e, k)
      BY <1>7, <2>1, <3>1 DEF FoundOpen
    <3>3. e # v
      BY <1>1, <3>2 DEF InReach
    <3> QED
      BY <1>4, <3>1, <3>2, <3>3
  <2> QED
    BY <2>1 DEF FoundOpen
<1> QED
  BY <1>4, <1>8, <1>9, <1>10, <1>11 DEF Kept

LEMMA UseKept ==
    ASSUME RuleInv, ~over, UNCHANGED <<lang, known, over>>, NEW n, NEW use, Use(n, use)
    PROVE  RuleInv'
<1>1. Declares(n) # {} /\ UNCHANGED <<frames, found, named>>
  BY DEF Use
<1>2. PICK ev, s : /\ ev = events' /\ ev = Used(Value(n), use) /\ s = scopes'
                   /\ (use \in Reads /\ s = Cleared(n)) \/ (use \notin Reads /\ s = scopes)
  BY DEF Use
<1>3. /\ s \in Seq(Maps) /\ Len(s) = Len(scopes) /\ DOMAIN s = DOMAIN scopes
      /\ \A j \in DOMAIN s : \A m \in DOMAIN s[j] :
            m \in DOMAIN scopes[j] /\ s[j][m] = scopes[j][m]
      /\ ev \in Seq(EventRecords) /\ Len(ev) = Len(events)
      /\ \A e \in Events : /\ ev[e].open => events[e].open
                           /\ ev[e].comment = events[e].comment
                           /\ events[e].why \subseteq ev[e].why
      /\ Noticed(s, ev) /\ MarkedOpen(s, ev) /\ FoundOpen(ev)
  BY <1>1, <1>2, UsedKeeps DEF Kept
<1>4. events' = ev /\ scopes' = s
  BY <1>2
<1> USE DEF RuleInv
<1>5. Events' = Events /\ Values' = Values
  BY <1>3, <1>4 DEF Events, Values
<1>6. Types'
  BY <1>1, <1>3, <1>4, <1>5 DEF Types
<1>7. Nesting' /\ \A j \in DOMAIN frames : ScopeOf(j)' = ScopeOf(j)
  BY <1>1, <1>3, <1>4, SameFrames
<1>8. HeldNamed'
  BY <1>1, <1>5 DEF HeldNamed
<1>9. MarkedNamed' /\ MarkedOnce'
  BY <1>1, <1>3, <1>4, <1>5 DEF MarkedNamed, MarkedOnce
<1>10. /\ Heeds' = Heeds
       /\ \A e \in Events : (Namesake(e)' <=> Namesake(e)) /\ (Aliased(e)' <=> Aliased(e))
  BY <1>1, <1>5 DEF Heeds, Namesake, Aliased
<1>11. \A e \in Events : /\ Missable(e, events)' <=> Missable(e, ev)
                         /\ Excused(e, events)' <=> Excused(e, ev)
  BY <1>1, <1>4, <1>10 DEF Missable, Excused
<1>12. Noticed(scopes, events)'
  BY <1>3, <1>4, <1>5, <1>11 DEF Noticed, MarkedIn
<1>13. MarkedOpen(scopes, events)'
  <2>1. \A j \in DOMAIN s : \A m \in DOMAIN s[j] : s[j][m] \in Events
    BY <1>3 DEF MarkedNamed
  <2> QED
    BY <1>1, <1>3, <1>4, <1>7, <1>11, <2>1 DEF MarkedOpen, InReach
<1>14. FoundOpen(events)'
  BY <1>1, <1>3, <1>4, <1>11 DEF FoundOpen, InReach, Types
<1> QED
  BY <1>6, <1>7, <1>8, <1>9, <1>12, <1>13, <1>14

\* Where nothing changes, or only what the rule knows of loggers.
LEMMA StillKept ==
    ASSUME RuleInv, known' \in BOOLEAN,
           UNCHANGED <<lang, over, frames, events, scopes, found, named>>
    PROVE  RuleInv'
<1> USE DEF RuleInv
<1>1. /\ UNCHANGED <<lang, over, frames, events, scopes, found, named>> /\ known' \in BOOLEAN
      /\ Events' = Events /\ Values' = Values /\ Heeds' = Heeds
  BY DEF Events, Values, Heeds
<1>2. Types'
  BY <1>1 DEF Types
<1>3. \A i : ScopeOf(i)' = ScopeOf(i)
  BY <1>1 DEF ScopeOf, Opens
<1>4. Nesting' /\ HeldNamed' /\ MarkedNamed' /\ MarkedOnce'
  BY <1>1, <1>3 DEF Nesting, HeldNamed, MarkedNamed, MarkedOnce
<1>5. /\ \A e : (Namesake(e)' <=> Namesake(e)) /\ (Aliased(e)' <=> Aliased(e))
      /\ \A e, j : InReach(e, j)' <=> InReach(e, j)
      /\ \A e : MarkedIn(scopes, e)' <=> MarkedIn(scopes, e)
  BY <1>1 DEF Namesake, Aliased, InReach, MarkedIn
<1>6. \A e : /\ Missable(e, events)' <=> Missable(e, events)
             /\ Excused(e, events)' <=> Excused(e, events)
  BY <1>1, <1>5 DEF Missable, Excused
<1>7. Noticed(scopes, events)'
  BY <1>1, <1>5, <1>6 DEF Noticed
<1>8. MarkedOpen(scopes, events)'
  BY <1>1, <1>3, <1>5, <1>6 DEF MarkedOpen
<1>9. FoundOpen(events)'
  BY <1>1, <1>5, <1>6 DEF FoundOpen
<1> QED
  BY <1>2, <1>4, <1>7, <1>8, <1>9

-----------------------------------------------------------------------------
(***************************************************************************)
(* Frames that begin and end.                                              *)
(***************************************************************************)

LEMMA EnterKept ==
    ASSUME RuleInv, ~over, UNCHANGED <<lang, known, over>>, NEW kind \in Kinds, Enter(kind)
    PROVE  RuleInv'
<1> USE DEF RuleInv
<1> DEFINE entry == [kind |-> kind, holds |-> << >>]
<1>0. PICK len \in Nat : len = Len(frames) /\ len >= 1
  BY ScopesOpen, Shapes
<1>1. /\ UNCHANGED <<lang, known, over, events, found, named>>
      /\ Events' = Events /\ Values' = Values /\ Heeds' = Heeds
  BY DEF Enter, Events, Values, Heeds
<1>2. entry \in Frames /\ entry.kind = kind /\ DOMAIN entry.holds = {}
  BY EmptyMap DEF Frames
<1>3. frames' = Append(frames, entry)
  BY DEF Enter
<1> HIDE DEF entry
<1>4. /\ frames' \in Seq(Frames) /\ Len(frames') = len + 1 /\ DOMAIN frames' = 1..(len + 1)
      /\ \A j \in 1..len : frames'[j] = frames[j]
      /\ frames'[len + 1].kind = kind /\ DOMAIN frames'[len + 1].holds = {}
  BY <1>0, <1>2, <1>3, AppendProperties, LenProperties DEF Types
<1>5. /\ scopes' \in Seq(Maps)
      /\ Len(scopes') = IF Opens(kind) THEN Len(scopes) + 1 ELSE Len(scopes)
      /\ DOMAIN scopes' = 1..Len(scopes')
      /\ \A j \in DOMAIN scopes' : \/ j \in DOMAIN scopes /\ scopes'[j] = scopes[j]
                                   \/ DOMAIN scopes'[j] = {}
      /\ \A j \in DOMAIN scopes : j \in DOMAIN scopes' /\ scopes'[j] = scopes[j]
  <2>1. CASE Opens(kind)
    <3>1. scopes' = Append(scopes, << >>)
      BY <2>1 DEF Enter
    <3> QED
      BY <2>1, <3>1, EmptyMap, AppendProperties, LenProperties, Shapes DEF Types
  <2>2. CASE ~Opens(kind)
    BY <2>2, Shapes DEF Enter, Types
  <2> QED
    BY <2>1, <2>2
<1>6. DOMAIN frames = 1..len
  BY <1>0, Shapes
<1>7. Types'
  BY <1>1, <1>4, <1>5 DEF Types
<1>8. \A j \in 0..len : ScopeOf(j)' = ScopeOf(j)
  <2>1. \A j \in 0..len : j \in Nat /\ 1..j \subseteq 1..len
    BY <1>0
  <2>2. \A j \in 0..len : Depth(frames', j) = Depth(frames, j)
    BY <1>4, <2>1, DepthSame
  <2> QED
    BY <1>1, <2>2, ScopeIsDepth
<1>9. Nesting'
  <2>1. /\ Depth(frames, len) \in Nat
        /\ Depth(frames', len) = Depth(frames, len) /\ Len(scopes) = Depth(frames, len)
    BY <1>0, <1>1, <1>4, DepthSame, DepthStep, ScopeIsDepth DEF Nesting
  <2>2. /\ Opens(frames'[len + 1].kind) => Depth(frames', len + 1) = Depth(frames', len) + 1
        /\ ~Opens(frames'[len + 1].kind) => Depth(frames', len + 1) = Depth(frames', len)
    BY <1>0, DepthStep
  <2>3. Len(scopes') = Depth(frames', len + 1)
    BY <1>4, <1>5, <2>1, <2>2
  <2>4. Len(scopes') = ScopeOf(Len(frames))'
    BY <1>1, <1>4, <2>3, ScopeIsDepth
  <2>5. 1 \in 1..len /\ Len(frames') >= 1
    BY <1>0, <1>4
  <2> QED
    BY <1>0, <1>1, <1>4, <2>4, <2>5 DEF Nesting
<1>10. HeldNamed'
  BY <1>1, <1>4, <1>6 DEF HeldNamed
<1>11. MarkedNamed' /\ MarkedOnce'
  BY <1>1, <1>5 DEF MarkedNamed, MarkedOnce
<1>12. \A e \in Events : /\ Missable(e, events) => Missable(e, events)'
                         /\ Excused(e, events) => Excused(e, events)'
  <2>1. Grown
    BY <1>1 DEF Grown
  <2> QED
    BY <2>1, GrownKeeps
<1>13. \A e : \A j \in DOMAIN frames' : InReach(e, j)' => j \in DOMAIN frames /\ InReach(e, j)
  BY <1>4, <1>6 DEF InReach
<1>14. Noticed(scopes, events)'
  <2>1. \A e : MarkedIn(scopes, e) => MarkedIn(scopes, e)'
    BY <1>5 DEF MarkedIn
  <2> QED
    BY <1>1, <1>12, <2>1 DEF Noticed
<1>15. MarkedOpen(scopes, events)'
  <2>1. \A j \in DOMAIN scopes : \A m \in DOMAIN scopes[j] : scopes[j][m] \in Events
    BY DEF MarkedNamed
  <2>2. \A j \in DOMAIN frames : ScopeOf(j)' = ScopeOf(j)
    BY <1>6, <1>8
  <2>3. ASSUME NEW j \in DOMAIN scopes, NEW m \in DOMAIN scopes[j], NEW e, e = scopes[j][m]
        PROVE  \/ Excused(e, events)'
               \/ /\ events'[e].open
                  /\ \A k \in DOMAIN frames' : InReach(e, k)' => ScopeOf(k)' >= j
    <3>1. e \in Events
      BY <2>1, <2>3
    <3>2. \/ Excused(e, events)
          \/ events[e].open /\ \A k \in DOMAIN frames : InReach(e, k) => ScopeOf(k) >= j
      BY <2>3 DEF MarkedOpen
    <3> QED
      BY <1>1, <1>12, <1>13, <2>2, <3>1, <3>2
  <2> QED
    BY <1>5, <2>3 DEF MarkedOpen
<1>16. FoundOpen(events)'
  BY <1>1, <1>12, <1>13 DEF FoundOpen, Types
<1> QED
  BY <1>7, <1>9, <1>10, <1>11, <1>14, <1>15, <1>16

\* What follows when some maps, the last ones, are flushed.
LEMMA FlushedKeeps ==
    ASSUME RuleInv, lang' = lang, named' = named, NEW s, NEW ev, Kept(s, ev), events' = ev,
           NEW first \in Nat, first <= Len(s),
           \A j \in DOMAIN scopes' : j \in DOMAIN s /\ scopes'[j] = s[j],
           \A j \in DOMAIN s : j <= first => j \in DOMAIN scopes' /\ scopes'[j] = s[j],
           \A j \in DOMAIN frames' : /\ j \in DOMAIN frames /\ frames'[j] = frames[j]
                                     /\ ScopeOf(j)' = ScopeOf(j) /\ ScopeOf(j) <= first
                                     /\ ScopeOf(j) \in Nat,
           found \subseteq found',
           \A e \in found' \ found :
                \E j \in DOMAIN s : j > first /\ \E m \in DOMAIN s[j] : s[j][m] = e,
           \A j \in DOMAIN s : j > first => \A m \in DOMAIN s[j] :
                s[j][m] \in found' \/ ev[s[j][m]].comment \in Heeds
    PROVE  /\ Events' = Events /\ Values' = Values /\ found' \subseteq Events
           /\ HeldNamed' /\ MarkedNamed' /\ MarkedOnce'
           /\ Noticed(scopes, events)' /\ MarkedOpen(scopes, events)' /\ FoundOpen(events)'
<1> USE DEF RuleInv, Kept
<1>1. Events' = Events /\ Values' = Values
  BY DEF Events, Values
<1>2. \A j \in DOMAIN s : \A m \in DOMAIN s[j] : s[j][m] \in Events
  BY DEF MarkedNamed
<1>3. found \subseteq Events /\ found' \subseteq Events
  BY <1>2 DEF Types
<1>4. HeldNamed'
  <2>1. ASSUME NEW i \in DOMAIN frames', NEW n \in DOMAIN frames'[i].holds
        PROVE  /\ frames'[i].holds[n] \in Values'
               /\ \/ <<n, frames'[i].holds[n]>> \in named'
                  \/ /\ frames'[i].holds[n] = Plain
                     /\ \A v \in Values' : <<n, v>> \notin named'
                     /\ \A j \in DOMAIN frames' : n \in DOMAIN frames'[j].holds => j = i
    BY <1>1 DEF HeldNamed
  <2> QED
    BY <2>1 DEF HeldNamed, Plain
<1>5. MarkedNamed'
  BY <1>1 DEF MarkedNamed
<1>6. MarkedOnce'
  BY DEF MarkedOnce
<1>7. /\ Heeds' = Heeds
      /\ \A e \in Events : (Namesake(e)' <=> Namesake(e)) /\ (Aliased(e)' <=> Aliased(e))
  BY <1>1 DEF Heeds, Namesake, Aliased
<1>8. \A e \in Events : /\ Missable(e, ev) => Missable(e, events)'
                        /\ Excused(e, ev) => Excused(e, events)'
  BY <1>7 DEF Missable, Excused
<1>9. Noticed(scopes, events)'
  <2>1. ASSUME NEW e \in Events, ev[e].open PROVE Missable(e, events)' \/ MarkedIn(scopes, e)'
    <3>1. Missable(e, ev) \/ MarkedIn(s, e)
      BY <2>1 DEF Noticed
    <3>2. ASSUME NEW j \in DOMAIN s, NEW m \in DOMAIN s[j], s[j][m] = e
          PROVE  Missable(e, events)' \/ MarkedIn(scopes, e)'
      <4>1. j \in Nat
        BY Shapes
      <4>2. CASE j <= first
        BY <3>2, <4>2 DEF MarkedIn
      <4>3. CASE j > first
        BY <1>7, <3>2, <4>3 DEF Missable
      <4> QED
        BY <4>1, <4>2, <4>3
    <3> QED
      BY <1>8, <3>1, <3>2 DEF MarkedIn
  <2> QED
    BY <1>1, <2>1 DEF Noticed
<1>10. MarkedOpen(scopes, events)'
  <2>1. ASSUME NEW j \in DOMAIN scopes', NEW m \in DOMAIN scopes'[j], NEW e, e = scopes'[j][m]
        PROVE  \/ Excused(e, events)'
               \/ /\ events'[e].open
                  /\ \A k \in DOMAIN frames' : InReach(e, k)' => ScopeOf(k)' >= j
    <3>1. e \in Events /\ j \in DOMAIN s /\ m \in DOMAIN s[j] /\ e = s[j][m]
      BY <1>2, <2>1
    <3>2. \/ Excused(e, ev)
          \/ ev[e].open /\ \A k \in DOMAIN frames : InReach(e, k) => ScopeOf(k) >= j
      BY <3>1 DEF MarkedOpen
    <3>3. \A k \in DOMAIN frames' : k \in DOMAIN frames /\ (InReach(e, k)' => InReach(e, k))
      BY DEF InReach
    <3> QED
      BY <1>8, <3>1, <3>2, <3>3
  <2> QED
    BY <2>1 DEF MarkedOpen
<1>11. FoundOpen(events)'
  <2>1. \A e \in Events : \A k \in DOMAIN frames' :
          k \in DOMAIN frames /\ (InReach(e, k)' => InReach(e, k))
    BY DEF InReach
  <2>2. ASSUME NEW e \in found, e \in found'
        PROVE  \/ Excused(e, events)'
               \/ events'[e].open /\ \A k \in DOMAIN frames' : ~InReach(e, k)'
    <3>1. Excused(e, ev) \/ (ev[e].open /\ \A k \in DOMAIN frames : ~InReach(e, k))
      BY DEF FoundOpen
    <3> QED
      BY <1>3, <1>8, <2>1, <3>1
  <2>3. ASSUME NEW e \in found' \ found
        PROVE  \/ Excused(e, events)'
               \/ events'[e].open /\ \A k \in DOMAIN frames' : ~InReach(e, k)'
    <3>1. PICK j \in DOMAIN s : j > first /\ \E m \in DOMAIN s[j] : s[j][m] = e
      BY <2>3
    <3>2. e \in Events /\ j \in Nat
      BY <1>2, <3>1, Shapes
    <3>3. \/ Excused(e, ev)
          \/ ev[e].open /\ \A k \in DOMAIN frames : InReach(e, k) => ScopeOf(k) >= j
      BY <3>1 DEF MarkedOpen
    <3>4. \A k \in DOMAIN frames' : ~(ScopeOf(k) >= j)
      BY <3>1, <3>2
    <3> QED
      BY <1>8, <2>1, <3>2, <3>3, <3>4
  <2> QED
    BY <2>2, <2>3 DEF FoundOpen
<1> QED
  BY <1>1, <1>3, <1>4, <1>5, <1>6, <1>9, <1>10, <1>11

LEMMA LeaveKept ==
    ASSUME RuleInv, ~over, UNCHANGED <<lang, known, over>>,
           NEW s, NEW ev, Kept(s, ev), events' = ev, Leave(s)
    PROVE  RuleInv'
<1> USE DEF RuleInv
<1>0. PICK len \in Nat : len + 1 = Len(frames) /\ len >= 1
  <2>1. Len(frames) \in Nat /\ Len(frames) > 1
    BY Shapes DEF Leave
  <2>2. Len(frames) - 1 \in Nat /\ (Len(frames) - 1) + 1 = Len(frames) /\ Len(frames) - 1 >= 1
    BY <2>1
  <2> QED
    BY <2>2
<1>1. /\ s \in Seq(Maps) /\ Len(s) = Len(scopes) /\ DOMAIN s = DOMAIN scopes
      /\ DOMAIN s = 1..Len(s) /\ Len(s) \in Nat
  BY Shapes DEF Kept
<1>2. /\ frames' \in Seq(Frames) /\ Len(frames') = len /\ DOMAIN frames' = 1..len
      /\ DOMAIN frames = 1..(len + 1)
      /\ \A j \in 1..len : frames'[j] = frames[j]
  <2>1. frames' = Front(frames) /\ Len(frames) >= 1 /\ Len(frames) - 1 = len
    BY <1>0, ScopesOpen DEF Leave
  <2>2. /\ frames' \in Seq(Frames) /\ Len(frames') = len
        /\ \A j \in 1..len : frames'[j] = frames[j]
    BY <2>1, FrontIs DEF Types
  <2> QED
    BY <1>0, <2>2, LenProperties, Shapes
<1>3. /\ lang' = lang /\ named' = named /\ Heeds' = Heeds
      /\ Opens(frames[len + 1].kind) => scopes' = Front(s) /\ Report(Flushed(s))
      /\ ~Opens(frames[len + 1].kind) => scopes' = s /\ found' = found
  BY <1>0 DEF Leave, Last, Heeds
<1>4. /\ Depth(frames, len) \in Nat
      /\ \A j \in 1..len : /\ Depth(frames, j) \in Nat /\ Depth(frames, j) <= Depth(frames, len)
                           /\ ScopeOf(j) = Depth(frames, j)
                           /\ ScopeOf(j)' = ScopeOf(j)
      /\ ScopeOf(len)' = Depth(frames, len)
      /\ Len(s) = Depth(frames, len + 1)
  <2>1. \A j \in 1..len : j \in Nat /\ j <= len /\ 1..j \subseteq 1..len
    BY <1>0
  <2>a. Depth(frames, len) \in Nat
    BY DepthStep
  <2>2. ASSUME NEW j \in 1..len
        PROVE  /\ Depth(frames, j) \in Nat /\ Depth(frames, j) <= Depth(frames, len)
               /\ Depth(frames', j) = Depth(frames, j)
    <3>1. j \in Nat /\ j <= len /\ \A k \in 1..j : frames'[k].kind = frames[k].kind
      BY <1>2, <2>1
    <3>2. Depth(frames, j) \in Nat
      BY <3>1, DepthStep
    <3>3. Depth(frames, j) <= Depth(frames, len)
      BY <3>1, DepthGrows
    <3>4. Depth(frames', j) = Depth(frames, j)
      BY <3>1, DepthSame
    <3> QED
      BY <3>2, <3>3, <3>4
  <2>3. len \in 1..len
    BY <1>0
  <2> QED
    BY <1>0, <1>1, <1>3, <2>a, <2>2, <2>3, ScopeIsDepth DEF Nesting
<1>5. /\ Opens(frames[len + 1].kind) => Len(s) = Depth(frames, len) + 1
      /\ ~Opens(frames[len + 1].kind) => Len(s) = Depth(frames, len)
  BY <1>0, <1>4, DepthStep
<1> DEFINE first == Depth(frames, len)
<1>6. /\ first \in Nat /\ first <= Len(s) /\ Len(scopes') = first /\ scopes' \in Seq(Maps)
      /\ \A j \in DOMAIN scopes' : j \in DOMAIN s /\ scopes'[j] = s[j]
      /\ \A j \in DOMAIN s : j <= first => j \in DOMAIN scopes' /\ scopes'[j] = s[j]
  <2>1. CASE Opens(frames[len + 1].kind)
    <3>1. scopes' = Front(s) /\ Len(s) = first + 1 /\ Len(s) >= 1 /\ Len(s) - 1 = first
      BY <1>3, <1>4, <1>5, <2>1
    <3>2. /\ scopes' \in Seq(Maps) /\ Len(scopes') = first
          /\ \A j \in 1..first : scopes'[j] = s[j]
      BY <1>1, <3>1, FrontIs
    <3>3. DOMAIN scopes' = 1..first
      BY <3>2, LenProperties
    <3> HIDE DEF first
    <3> QED
      BY <1>1, <1>4, <3>1, <3>2, <3>3
  <2>2. CASE ~Opens(frames[len + 1].kind)
    <3>1. scopes' = s /\ Len(s) = first
      BY <1>3, <1>5, <2>2
    <3> HIDE DEF first
    <3> QED
      BY <1>1, <3>1
  <2> QED
    BY <2>1, <2>2
<1>7. \A j \in DOMAIN frames' : /\ j \in DOMAIN frames /\ frames'[j] = frames[j]
                                /\ ScopeOf(j)' = ScopeOf(j) /\ ScopeOf(j) <= first
                                /\ ScopeOf(j) \in Nat
  BY <1>2, <1>4
<1>8. /\ found \subseteq found'
      /\ \A e \in found' \ found :
            \E j \in DOMAIN s : j > first /\ \E m \in DOMAIN s[j] : s[j][m] = e
      /\ \A j \in DOMAIN s : j > first => \A m \in DOMAIN s[j] :
            s[j][m] \in found' \/ ev[s[j][m]].comment \in Heeds
  <2>1. CASE Opens(frames[len + 1].kind)
    <3>1. found' = found \cup {e \in Flushed(s) : ev[e].comment \notin Heeds}
      BY <1>3, <2>1 DEF Report
    <3>2. Flushed(s) = {s[Len(s)][m] : m \in DOMAIN s[Len(s)]}
      BY DEF Flushed, Last, Range
    <3>3. /\ Len(s) = first + 1 /\ Len(s) \in DOMAIN s
          /\ \A j \in DOMAIN s : j > first => j = Len(s)
      BY <1>1, <1>4, <1>5, <2>1
    <3>4. Len(s) > first
      BY <1>4, <3>3
    <3> HIDE DEF first
    <3> QED
      BY <3>1, <3>2, <3>3, <3>4
  <2>2. CASE ~Opens(frames[len + 1].kind)
    <3>1. found' = found /\ \A j \in DOMAIN s : ~(j > first)
      BY <1>1, <1>3, <1>4, <1>5, <2>2
    <3> QED
      BY <3>1
  <2> QED
    BY <2>1, <2>2
<1> HIDE DEF first
<1>9. /\ Events' = Events /\ Values' = Values /\ found' \subseteq Events
      /\ HeldNamed' /\ MarkedNamed' /\ MarkedOnce'
      /\ Noticed(scopes, events)' /\ MarkedOpen(scopes, events)' /\ FoundOpen(events)'
  BY <1>3, <1>6, <1>7, <1>8, FlushedKeeps
<1>10. Types'
  BY <1>2, <1>3, <1>6, <1>9 DEF Types, Kept
<1>11. Nesting'
  <2>1. 1 \in 1..len /\ Len(scopes') = ScopeOf(Len(frames))'
    BY <1>0, <1>2, <1>4, <1>6 DEF first
  <2> QED
    BY <1>0, <1>2, <2>1 DEF Nesting
<1> QED
  BY <1>9, <1>10, <1>11

LEMMA EndOfFileKept ==
    ASSUME RuleInv, ~over, UNCHANGED <<lang, known>>, EndOfFile
    PROVE  RuleInv'
<1> USE DEF RuleInv
<1>1. /\ frames' = << >> /\ scopes' = << >> /\ over' = TRUE /\ events' = events /\ named' = named
      /\ Report(Flushed(scopes)) /\ Len(frames) = 1
  BY DEF EndOfFile
<1>2. DOMAIN frames' = {} /\ DOMAIN scopes' = {} /\ Len(frames') = 0 /\ Len(scopes') = 0
  BY <1>1
<1>3. Len(scopes) = 1
  <2>1. frames[1].kind = "file"
    BY DEF Nesting
  <2>2. Depth(frames, 0) = 0 /\ Depth(frames, 0 + 1) = Depth(frames, 0) + 1
    BY <2>1, DepthStep DEF Opens
  <2>3. Len(scopes) = Depth(frames, 1)
    BY <1>1, ScopeIsDepth DEF Nesting
  <2> QED
    BY <2>2, <2>3
<1>4. \A j \in DOMAIN scopes : j > 0 /\ j = 1
  BY <1>3, Shapes
<1>5. found' = found \cup {e \in {scopes[1][m] : m \in DOMAIN scopes[1]} :
                            events[e].comment \notin Heeds}
  <2>1. Flushed(scopes) = {scopes[1][m] : m \in DOMAIN scopes[1]}
    BY <1>3 DEF Flushed, Last, Range
  <2>2. found' = found \cup {e \in Flushed(scopes) : events'[e].comment \notin Heeds}
    BY <1>1 DEF Report
  <2> QED
    BY <1>1, <2>1, <2>2
<1>6. 1 \in DOMAIN scopes
  BY <1>3, Shapes
<1>7. Kept(scopes, events)
  BY DEF Kept, Types
<1>8. PICK s, ev : s = scopes /\ ev = events
  OBVIOUS
<1>9. /\ Kept(s, ev) /\ events' = ev /\ 0 <= Len(s) /\ found \subseteq found'
      /\ \A j \in DOMAIN s : j <= 0 => j \in DOMAIN scopes' /\ scopes'[j] = s[j]
      /\ \A e \in found' \ found : \E j \in DOMAIN s : j > 0 /\ \E m \in DOMAIN s[j] : s[j][m] = e
      /\ \A j \in DOMAIN s : j > 0 => \A m \in DOMAIN s[j] :
            s[j][m] \in found' \/ ev[s[j][m]].comment \in Heeds
  <2>1. \A j \in DOMAIN s : ~(j <= 0)
    BY <1>4, <1>8
  <2>2. s = scopes /\ ev = events /\ events' = ev /\ Kept(s, ev)
    BY <1>1, <1>7, <1>8
  <2>3. found \subseteq found' /\ \A e \in found' \ found : \E m \in DOMAIN s[1] : s[1][m] = e
    BY <1>5, <2>2
  <2>4. \A m \in DOMAIN s[1] : s[1][m] \in found' \/ ev[s[1][m]].comment \in Heeds
    BY <1>5, <2>2
  <2>5. 0 <= Len(s)
    BY <1>3, <2>2
  <2> QED
    BY <1>4, <1>6, <2>1, <2>2, <2>3, <2>4, <2>5
<1>10. /\ Events' = Events /\ Values' = Values /\ found' \subseteq Events
       /\ HeldNamed' /\ MarkedNamed' /\ MarkedOnce'
       /\ Noticed(scopes, events)' /\ MarkedOpen(scopes, events)' /\ FoundOpen(events)'
  BY <1>1, <1>2, <1>9, FlushedKeeps
<1>11. Types'
  BY <1>1, <1>10 DEF Types
<1>12. Nesting'
  <2>1. Depth(frames', 0) = 0
    BY DepthStep
  <2>2. ScopeOf(Len(frames))' = Depth(frames', 0)
    BY <1>2, ScopeIsDepth
  <2> QED
    BY <1>1, <1>2, <2>1, <2>2 DEF Nesting
<1> QED
  BY <1>10, <1>11, <1>12

LEMMA ReturnKept ==
    ASSUME RuleInv, ~over, UNCHANGED <<lang, known, over>>, NEW n, Return(n)
    PROVE  RuleInv'
<1>1. PICK ev, s : /\ ev = events' /\ ev = Used(Value(n), "return") /\ Leave(s)
                   /\ \/ "return" \in Reads /\ s = Cleared(n)
                      \/ "return" \notin Reads /\ s = scopes
  BY DEF Return
<1>2. Kept(s, ev)
  BY <1>1, UsedKeeps DEF Return
<1> QED
  BY <1>1, <1>2, LeaveKept

LEMMA ExitKept ==
    ASSUME RuleInv, ~over, UNCHANGED <<lang, known, over>>, Exit
    PROVE  RuleInv'
<1>1. PICK ev, s : ev = events' /\ ev = events /\ s = scopes /\ Leave(s)
  BY DEF Exit
<1>2. Kept(s, ev)
  BY <1>1 DEF Kept, RuleInv, Types
<1> QED
  BY <1>1, <1>2, LeaveKept

-----------------------------------------------------------------------------
(***************************************************************************)
(* Every step.                                                             *)
(***************************************************************************)

LEMMA ChainKept ==
    ASSUME RuleInv, ~over, UNCHANGED <<lang, known, over>>, Chain
    PROVE  RuleInv'
<1>1. ASSUME NEW form, NEW root, NEW comment \in Comments, Statement(form, root, comment)
      PROVE  RuleInv'
  <2>1. Built(form, root, TRUE, comment, {}) /\ UNCHANGED <<frames, scopes, named>>
    BY <1>1 DEF Statement
  <2>2. /\ New \in Nat /\ New \notin Events /\ events'[New].comment = comment
    BY <2>1, BuiltIs DEF RuleInv, Reasons
  <2>3. /\ Unfinished(form, root) =>
                found' = found \cup {e \in {New} : events'[e].comment \notin Heeds}
        /\ ~Unfinished(form, root) => found' = found
    BY <1>1 DEF Statement, Report
  <2>4. Unfinished(form, root) => form = "open"
    BY DEF Unfinished, InspectedOpen, PipeOpen, MethodChainOpen
  <2>5. found \subseteq found' /\ found' \subseteq found \cup {New}
    BY <2>3
  <2>6. New \in found' => form = "open"
    BY <2>2, <2>3, <2>4 DEF RuleInv, Types
  <2>7. New \in found' \/ comment \in Heeds \/ ~Unfinished(form, root)
    BY <2>2, <2>3
  <2> QED
    BY <2>1, <2>5, <2>6, <2>7, UnnamedKept DEF Reasons
<1>2. ASSUME NEW n \in Names, NEW k \in {n, EventType}, NEW form, NEW root, NEW comment \in Comments,
             NEW i \in DOMAIN frames, Store(i, n, k, form, root, comment)
      PROVE  RuleInv'
  BY <1>2, StoreKept
<1>3. Len(frames) \in DOMAIN frames
  BY ScopesOpen, Shapes DEF RuleInv
<1>4. ASSUME NEW n \in Names, NEW typed \in BOOLEAN, NEW form, NEW root, NEW comment \in Comments,
             Bind(n, typed, form, root, comment)
      PROVE  RuleInv'
  BY <1>2, <1>3, <1>4 DEF Bind, TakenName
<1>5. ASSUME NEW n \in Names, NEW form, NEW root, Assign(n, form, root)
      PROVE  RuleInv'
  <2>1. Max(Declares(n)) \in DOMAIN frames
    BY <1>5, ValueIs DEF Assign, MayAssign, RuleInv
  <2> QED
    BY <1>2, <1>5, <2>1 DEF Assign, Comments
<1> QED
  BY <1>1, <1>4, <1>5 DEF Chain

LEMMA OtherKept ==
    ASSUME RuleInv, ~over, UNCHANGED <<lang, known, over>>, Other
    PROVE  RuleInv'
<1>1. ASSUME NEW form, HandOver(form)
      PROVE  RuleInv'
  <2>1. /\ Built(form, "log", FALSE, "no", {}) /\ "no" \in Comments
        /\ UNCHANGED <<frames, scopes, found, named>>
    BY <1>1 DEF HandOver, Comments
  <2>2. New \notin found'
    BY <2>1, BuiltIs DEF RuleInv, Reasons, Types
  <2> QED
    BY <2>1, <2>2, UnnamedKept DEF Reasons
<1>2. ASSUME NEW comment \in Comments, GleamArm(comment)
      PROVE  RuleInv'
  <2>1. Built("open", "log", FALSE, comment, {"arm"}) /\ UNCHANGED <<frames, scopes, named>>
    BY <1>2 DEF GleamArm
  <2>2. found \subseteq found' /\ found' \subseteq found \cup {New}
    BY <1>2 DEF GleamArm, Report
  <2> QED
    BY <2>1, <2>2, UnnamedKept DEF Reasons
<1>3. ASSUME NEW n \in Names, Declare(n) PROVE RuleInv'
  BY <1>3, DeclareKept
<1>4. ASSUME NEW n \in Names, NEW v, Copy(n, v) PROVE RuleInv'
  BY <1>4, CopyKept
<1>5. ASSUME NEW n, NEW use, Use(n, use) PROVE RuleInv'
  BY <1>5, UseKept
<1>6. ASSUME NEW n, Return(n) PROVE RuleInv'
  BY <1>6, ReturnKept
<1>7. ASSUME NEW kind \in {"function", "block"}, Enter(kind) PROVE RuleInv'
  BY <1>7, EnterKept DEF Kinds
<1>8. ASSUME Exit PROVE RuleInv'
  BY <1>8, ExitKept
<1> QED
  BY <1>1, <1>2, <1>3, <1>4, <1>5, <1>6, <1>7, <1>8 DEF Other

LEMMA RuleStep ==
    ASSUME RuleInv, Next
    PROVE  RuleInv'
<1>1. ~over /\ lang' = lang
  BY DEF Next
<1>2. CASE (Chain \/ Other) /\ UNCHANGED <<known, over>>
  BY <1>1, <1>2, ChainKept, OtherKept
<1>3. CASE MakeLogger /\ UNCHANGED over
  BY <1>1, <1>3, StillKept DEF MakeLogger
<1>4. CASE EndOfFile /\ UNCHANGED known
  BY <1>1, <1>4, EndOfFileKept
<1> QED
  BY <1>2, <1>3, <1>4 DEF Next

LEMMA RuleStutter ==
    ASSUME RuleInv, UNCHANGED vars
    PROVE  RuleInv'
  BY StillKept DEF vars, RuleInv, Types

LEMMA RuleInit == Init => RuleInv
<1> SUFFICES ASSUME Init PROVE RuleInv
  OBVIOUS
<1> USE DEF Init
<1> DEFINE entry == [kind |-> "file", holds |-> << >>]
<1>1. entry \in Frames /\ entry.kind = "file" /\ DOMAIN entry.holds = {}
  BY EmptyMap DEF Frames, Kinds
<1>2. frames = <<entry>>
  OBVIOUS
<1> HIDE DEF entry
<1>3. /\ frames \in Seq(Frames) /\ Len(frames) = 1 /\ DOMAIN frames = 1..1
      /\ frames[1].kind = "file" /\ DOMAIN frames[1].holds = {}
  BY <1>1, <1>2
<1>4. scopes \in Seq(Maps) /\ Len(scopes) = 1 /\ DOMAIN scopes = 1..1 /\ DOMAIN scopes[1] = {}
  BY EmptyMap
<1>5. Events = {}
  BY DEF Events
<1>6. Types
  <2>1. events \in Seq(EventRecords)
    OBVIOUS
  <2>2. found \subseteq Events /\ named \subseteq Keys \X Values
    OBVIOUS
  <2>3. lang \in Langs /\ known \in BOOLEAN /\ over \in BOOLEAN
    OBVIOUS
  <2> QED
    BY <1>3, <1>4, <2>1, <2>2, <2>3 DEF Types
<1>7. Nesting
  <2>1. Depth(frames, 0) = 0 /\ Depth(frames, 0 + 1) = Depth(frames, 0) + 1
    BY <1>3, DepthStep DEF Opens
  <2>2. Depth(frames, 1) = 1
    BY <2>1
  <2> QED
    BY <1>3, <1>4, <2>2, ScopeIsDepth DEF Nesting
<1>8. HeldNamed /\ MarkedNamed /\ MarkedOnce
  BY <1>3, <1>4 DEF HeldNamed, MarkedNamed, MarkedOnce
<1>9. Noticed(scopes, events) /\ MarkedOpen(scopes, events) /\ FoundOpen(events)
  BY <1>4, <1>5 DEF Noticed, MarkedOpen, FoundOpen
<1> QED
  BY <1>6, <1>7, <1>8, <1>9 DEF RuleInv

-----------------------------------------------------------------------------
LEMMA PrintsIs ==
    ASSUME GateInv, NEW h, NEW lines \in SUBSET {"across", "count", "clean", "note"},
           NEW findings \in BOOLEAN, Prints(h, lines, findings), examined' \in BOOLEAN,
           examined' => examined \/ (found # {} => "across" \in lines)
    PROVE  GateInv' /\ UNCHANGED vars
<1> USE DEF GateInv
<1>1. over /\ exit = 2 /\ runner \in 1..5 /\ UNCHANGED <<over, found>> /\ UNCHANGED vars
  BY DEF Prints, Turn, Order, vars
<1>2. /\ log' = log \cup lines /\ runner' = runner + 1
      /\ UNCHANGED <<strict, exit>> /\ raised' \in BOOLEAN
  BY DEF Prints, GateTypes
<1>3. GateTypes'
  BY <1>1, <1>2 DEF GateTypes
<1>4. InTurn'
  BY <1>1, <1>2 DEF InTurn
<1>5. Logged'
  BY <1>1, <1>2 DEF Logged, Greps
<1>6. Passed'
  BY <1>1, <1>2 DEF Passed
<1> QED
  BY <1>1, <1>3, <1>4, <1>5, <1>6

LEMMA GateStep ==
    ASSUME IInv, Lint
    PROVE  GateInv' /\ UNCHANGED vars
<1> USE DEF IInv
<1>1. ASSUME NEW h, Absent(h) PROVE GateInv' /\ UNCHANGED vars
  <2>1. Prints(h, {}, FALSE) /\ examined' = examined /\ examined \in BOOLEAN
    BY <1>1 DEF Absent, GateInv, GateTypes
  <2> QED
    BY <2>1, PrintsIs
<1>2. ASSUME NEW did, JsCannotRun(did) PROVE GateInv' /\ UNCHANGED vars
  <2>1. Prints("js", {"note"}, FALSE) /\ examined' = examined /\ examined \in BOOLEAN
    BY <1>2 DEF JsCannotRun, GateInv, GateTypes
  <2> QED
    BY <2>1, PrintsIs
<1>3. ASSUME NEW warned \in BOOLEAN, NEW company \in BOOLEAN, NEW parses \in BOOLEAN,
             NEW place, NEW parser, JsRuns(warned, place, parser, company, parses)
      PROVE  GateInv' /\ UNCHANGED vars
  <2> DEFINE mine == lang = "js" /\ Matched(place, parser)
             hits == warned \/ (mine /\ parses /\ found # {})
             lines == GapNote(place, parser)
                        \cup Formatter(mine \/ company \/ warned, hits, mine /\ ~parses)
  <2>1. Prints("js", lines, hits) /\ examined' = (examined \/ (mine /\ parses))
    BY <1>3 DEF JsRuns
  <2>2. lines \in SUBSET {"across", "count", "clean", "note"} /\ hits \in BOOLEAN
    BY DEF GapNote, Formatter
  <2>3. examined' => examined \/ (found # {} => "across" \in lines)
    BY <2>1 DEF Formatter
  <2>4. examined' \in BOOLEAN
    BY <2>1 DEF GateInv, GateTypes
  <2> HIDE DEF mine, hits, lines
  <2> QED
    BY <2>1, <2>2, <2>3, <2>4, PrintsIs
<1>4. ASSUME NEW h, NEW did, HostSh(h, did) PROVE GateInv' /\ UNCHANGED vars
  <2> DEFINE lines == CASE h = "rust" -> RustSays(did) [] h = "dart" -> DartSays(did)
                        [] OTHER -> GleamSays(did)
             findings == did \in {"warned", "unformatted"}
  <2>1. Prints(h, lines, findings) /\ examined' = examined /\ examined \in BOOLEAN
    BY <1>4 DEF HostSh, GateInv, GateTypes
  <2>2. lines \in SUBSET {"across", "count", "clean", "note"} /\ findings \in BOOLEAN
    BY DEF RustSays, DartSays, GleamSays
  <2> HIDE DEF lines, findings
  <2> QED
    BY <2>1, <2>2, PrintsIs
<1>5. ASSUME NEW skip \in BOOLEAN, NEW place, NEW tests \in BOOLEAN, NEW company \in BOOLEAN,
             Scan(skip, place, tests, company)
      PROVE  GateInv' /\ UNCHANGED vars
  <2> DEFINE mine == lang # "js" /\ ~skip /\ Scanned(place, tests)
             hits == mine /\ found # {}
             lines == IF skip THEN {"note"} ELSE FormatReport(mine \/ company, hits)
  <2>1. Prints("send", lines, hits) /\ examined' = (examined \/ mine)
    BY <1>5 DEF Scan
  <2>2. lines \in SUBSET {"across", "count", "clean", "note"} /\ hits \in BOOLEAN
    BY DEF FormatReport
  <2>3. examined' => examined \/ (found # {} => "across" \in lines)
    BY <2>1 DEF FormatReport
  <2>4. examined' \in BOOLEAN
    BY <2>1 DEF GateInv, GateTypes
  <2> HIDE DEF mine, hits, lines
  <2> QED
    BY <2>1, <2>2, <2>3, <2>4, PrintsIs
<1>6. ASSUME NEW s \in BOOLEAN, NoLog(s) PROVE GateInv' /\ UNCHANGED vars
  <2>1. /\ over /\ runner = 1 /\ UNCHANGED <<over, found, runner, log, examined, raised>>
        /\ strict' = s /\ exit' = 0 /\ UNCHANGED vars
    BY <1>6 DEF NoLog, vars
  <2>2. ~examined
    BY <2>1 DEF GateInv, InTurn
  <2> QED
    BY <2>1, <2>2 DEF GateInv, GateTypes, InTurn, Logged, Passed, Greps
<1>7. ASSUME NEW s \in BOOLEAN, Gate(s) PROVE GateInv' /\ UNCHANGED vars
  <2>1. /\ over /\ runner = 6 /\ UNCHANGED <<over, found, runner, log, examined, raised>>
        /\ strict' = s /\ exit' = (IF s /\ Greps THEN 1 ELSE 0) /\ UNCHANGED vars
    BY <1>7 DEF Gate, vars, Order
  <2>2. exit' \in {0, 1, 2} /\ (s /\ exit' = 0 => ~Greps) /\ Greps' = Greps
    BY <2>1 DEF Greps
  <2> QED
    BY <2>1, <2>2 DEF GateInv, GateTypes, InTurn, Logged, Passed
<1> QED
  BY <1>1, <1>2, <1>3, <1>4, <1>5, <1>6, <1>7 DEF Lint

-----------------------------------------------------------------------------
\* The invariant holds initially and every step preserves it, a file's or the
\* gate's.
THEOREM Inductive == LintSpec => []IInv
<1>1. LintInit => IInv
  <2> SUFFICES ASSUME LintInit PROVE IInv
    OBVIOUS
  <2>1. RuleInv
    BY RuleInit DEF LintInit
  <2>2. /\ runner = 1 /\ log = {} /\ examined = FALSE
        /\ raised = FALSE /\ strict = FALSE /\ exit = 2
    BY DEF LintInit, GateInit
  <2>3. ~examined /\ ~strict
    BY <2>2
  <2>4. Logged /\ Passed
    BY <2>3 DEF Logged, Passed
  <2>5. GateTypes
    <3>1. examined \in BOOLEAN /\ raised \in BOOLEAN /\ strict \in BOOLEAN
      BY <2>2
    <3>2. /\ runner \in 1..6 /\ exit \in {0, 1, 2}
          /\ log \subseteq {"across", "count", "clean", "note"}
      BY <2>2
    <3> QED
      BY <3>1, <3>2 DEF GateTypes
  <2>6. InTurn
    BY <2>2, <2>3 DEF InTurn
  <2> QED
    BY <2>1, <2>4, <2>5, <2>6 DEF IInv, GateInv
<1>2. IInv /\ [LintNext]_lintVars => IInv'
  <2>1. ASSUME IInv, Next, UNCHANGED gateVars PROVE IInv'
    <3>1. ~over /\ UNCHANGED <<runner, log, examined, raised, strict, exit>>
      BY <2>1 DEF Next, gateVars
    <3>2. GateInv'
      BY <2>1, <3>1 DEF IInv, GateInv, GateTypes, InTurn, Logged, Passed
    <3> QED
      BY <2>1, <3>2, RuleStep DEF IInv
  <2>2. ASSUME IInv, Lint PROVE IInv'
    BY <2>2, GateStep, RuleStutter DEF IInv
  <2>3. ASSUME IInv, UNCHANGED lintVars PROVE IInv'
    <3>1. UNCHANGED vars /\ UNCHANGED <<over, found, runner, log, examined, raised, strict, exit>>
      BY <2>3 DEF lintVars, gateVars, vars
    <3>2. GateInv'
      BY <2>3, <3>1 DEF IInv, GateInv, GateTypes, InTurn, Logged, Passed, Greps
    <3> QED
      BY <2>3, <3>1, <3>2, RuleStutter DEF IInv
  <2> QED
    BY <2>1, <2>2, <2>3 DEF LintNext
<1> QED
  BY <1>1, <1>2, PTL DEF LintSpec

\* Every variable of the file, the rule and the gate has its type; the rule
\* keeps one map per frame that opens one.
THEOREM TypeCorrect == LintSpec => []LintTypeOK
<1>1. IInv => LintTypeOK
  <2> SUFFICES ASSUME IInv PROVE LintTypeOK
    OBVIOUS
  <2> USE DEF IInv, RuleInv, GateInv
  <2>a. \A i \in DOMAIN frames : \A n \in DOMAIN frames[i].holds : frames[i].holds[n] \in Values
    BY DEF HeldNamed
  <2>1. \A i \in DOMAIN frames : Range(frames[i].holds) \subseteq Events \cup {Plain}
    BY <2>a DEF Values, Range
  <2>2. \A i \in DOMAIN scopes : Range(scopes[i]) \subseteq Events
    BY DEF MarkedNamed, Range
  <2>3. \A i \in DOMAIN frames : frames[i].kind \in {"file", "function", "block"}
    BY Shapes DEF Kinds
  <2>4. TypeOK
    BY <2>1, <2>2, <2>3 DEF TypeOK, Types, Nesting, EventRecords, Values
  <2> QED
    BY <2>4 DEF LintTypeOK, GateTypes, Order
<1> QED
  BY <1>1, Inductive, PTL

\* plugin.mjs and require-send.mjs: when the file has ended, an event that
\* was never delivered is reported, but for those the rule may miss: Noticed,
\* when no map is left.
THEOREM NothingMissed == LintSpec => []MissedOnlyIfNamesake
<1>1. IInv => MissedOnlyIfNamesake
  <2> SUFFICES ASSUME IInv, over, NEW e \in Events, Open(e)
               PROVE  e \in found \/ Silenced(e) \/ Namesake(e) \/ "unknown" \in events[e].why
    BY DEF MissedOnlyIfNamesake
  <2>1. DOMAIN scopes = {}
    BY DEF IInv, RuleInv, Nesting
  <2>2. ~MarkedIn(scopes, e)
    BY <2>1 DEF MarkedIn
  <2>3. Missable(e, events)
    BY <2>2 DEF IInv, RuleInv, Noticed, Open
  <2> QED
    BY <2>3 DEF Missable, Silenced
<1> QED
  BY <1>1, Inductive, PTL

\* plugin.mjs and require-send.mjs: what the rule reports was never delivered,
\* but for the excuses AlarmsAreTrue lists: FoundOpen.
THEOREM AlarmsTrue == LintSpec => []AlarmsAreTrue
<1>1. IInv => AlarmsAreTrue
  BY DEF IInv, RuleInv, FoundOpen, Excused, AlarmsAreTrue, Open
<1> QED
  BY <1>1, Inductive, PTL

\* lint.sh: after a strict run that passes, the house rule found nothing in
\* the file it looked at (Passed, Logged), so that by NothingMissed every event
\* of the file is delivered, silenced or beyond the rule.
THEOREM StrictPass == LintSpec => []StrictPassMeansDelivered
<1>1. IInv /\ MissedOnlyIfNamesake => StrictPassMeansDelivered
  <2> SUFFICES ASSUME IInv, MissedOnlyIfNamesake, strict, exit = 0, examined
               PROVE  \A e \in Events : Open(e) =>
                        Silenced(e) \/ Namesake(e) \/ "unknown" \in events[e].why
    BY DEF StrictPassMeansDelivered
  <2>1. found = {}
    BY DEF IInv, GateInv, Logged, Passed
  <2>2. over
    BY DEF IInv, GateInv, InTurn
  <2> QED
    BY <2>1, <2>2 DEF MissedOnlyIfNamesake
<1> QED
  BY <1>1, Inductive, NothingMissed, PTL
=============================================================================
