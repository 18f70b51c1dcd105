---------------------------- MODULE RequireSend ----------------------------
(***************************************************************************)
(* The house rule require-send and its two implementations: the ESLint     *)
(* plugin (.ores-lint/eslint/plugin.mjs) for JavaScript, the scanner       *)
(* (.ores-lint/require-send.mjs) for Rust, Dart and Gleam.  An event that  *)
(* is built by a logging chain has to be delivered.                        *)
(*                                                                         *)
(* One step is one statement of a source file, in the order of the text.   *)
(* It changes what the program does (`frames`, `events`) and, side by      *)
(* side, what the rule makes of it (`scopes`, `found`).  The statements    *)
(* are what the plugin's visitors and the scanner's token walk tell apart; *)
(* how they find a statement in the text is left out.  All code runs once, *)
(* where it stands: no branch, and a nested function is called in place.   *)
(***************************************************************************)
EXTENDS Naturals, FiniteSets, SequencesExt

CONSTANTS
    Langs,      \* languages, a subset of {"js", "rust", "dart", "gleam"}
    Names,      \* names of variables
    MaxEvents,  \* bound on the logging chains of the file
    MaxOdd,     \* bound on the chains with an override comment or a root that
                \* is not a known logger
    MaxNamings, \* bound on the pairs of a name and a value it is given
    MaxDepth    \* bound on the nesting of functions and blocks

VARIABLES
    lang,       \* the language of the file
    frames,     \* the program: functions and blocks, and what their names hold
    events,     \* the program: the events built, and whether each was delivered
                \* or handed on, which the rule takes for the same
    known,      \* the plugin has seen the logger of another name declared
    scopes,     \* the rule: a stack of maps from names to undelivered events
    found,      \* the rule: the events it reported
    named,      \* history: every <<name, value>> there ever was, but for a
                \* first value that is plain; and what the rule took for one
    over        \* the file has ended

vars == <<lang, frames, events, known, scopes, found, named, over>>

\* A value that is not an event.
Plain == 0

Comments == {"no", "unified", "eslint"}
\* The root of a chain: a logger by its usual name; a logger of another name;
\* or what only looks like a logging chain to the rule, and builds no event:
\* log.info(x) or self.error(x) of something else, in Gleam io.debug(x).
Roots == {"log", "other", "alike"}
\* Why the rule may be wrong about an event.
Reasons == {"inner", "unread", "arm", "unknown", "alike"}
Events == 1..Len(events)
Open(e) == events[e].open

\* The map f once it holds v under n.
Put(f, n, v) == [m \in DOMAIN f \cup {n} |-> IF m = n THEN v ELSE f[m]]

\* The frames that declare n; the innermost is the one a use of n means.
Declares(n) == {i \in DOMAIN frames : n \in DOMAIN frames[i].holds}
Value(n) == frames[Max(Declares(n))].holds[n]

(***************************************************************************)
(* What the rule knows of the text.                                        *)
(***************************************************************************)

\* Delivered in the chain itself, left open, or the convenience call with
\* three arguments or more, which delivers and exists in Rust and Dart.
Forms == IF lang \in {"rust", "dart"} THEN {"sent", "open", "wide"} ELSE {"sent", "open"}

\* walkMethodChain: no terminal method after the level, and the root's name
\* is one that looksLikeLogger.
MethodChainOpen(form, root) == form = "open" /\ root # "other"
\* walkGleamPipe: any function with a level's name will do.
PipeOpen(form) == form = "open"

\* inspectChain: the root is a logger the plugin knows already.
InspectedOpen(form, root) == form = "open" /\ (root # "other" \/ known)

Unfinished(form, root) ==
    CASE lang = "js" -> InspectedOpen(form, root)
      [] lang = "gleam" -> PipeOpen(form)
      [] OTHER -> MethodChainOpen(form, root)

\* precedingAssignment: the name is the word before the equals sign, which in
\* let n: Event = ... is the type's.  The plugin has a syntax tree, and in Dart
\* the type stands before the name.
EventType == "Event"
ASSUME NamesAssumption == EventType \notin Names
MayAnnotate == lang \in {"rust", "gleam"}
TakenName(n, typed) == IF typed THEN EventType ELSE n

\* What the rule may know an event by.
Keys == Names \cup {EventType}

\* The uses of a name that count as its delivery: n.send(), send(n),
\* n.more().send(), f(n) and return n.
PluginReads == {"send", "sendOf", "sendVia", "pass", "return"}
\* The scanner sees `send` after a dotted name or before a parenthesis; in
\* Gleam, n |> send is neither.
ScannerReads == {"send", "sendOf"}
GleamReads == {"sendOf"}
Reads ==
    CASE lang = "js" -> PluginReads
      [] lang = "gleam" -> GleamReads
      [] OTHER -> ScannerReads

\* The comments that silence a report: collectSuppressions takes both forms,
\* ESLint its own directives only.
ScannerHeeds == {"unified", "eslint"}
PluginHeeds == {"eslint"}
Heeds == IF lang = "js" THEN PluginHeeds ELSE ScannerHeeds

Report(S) == found' = found \cup {e \in S : events'[e].comment \notin Heeds}

\* Map.set on the innermost map: an event the name was marked with before
\* is forgotten.
Mark(n, e) == [scopes EXCEPT ![Len(scopes)] = Put(@, n, e)]

Marked(n) == {i \in DOMAIN scopes : n \in DOMAIN scopes[i]}

\* Variant: only the innermost map is looked at.
ClearedHere(n) == [scopes EXCEPT ![Len(scopes)] = Restrict(@, DOMAIN @ \ {n})]

\* The innermost mark of the name is deleted, whose ever it is.
Cleared(n) ==
    IF Marked(n) = {} THEN scopes
    ELSE [scopes EXCEPT ![Max(Marked(n))] = Restrict(@, DOMAIN @ \ {n})]

\* The plugin keeps a map per function, the scanner one per brace.
Opens(kind) == lang # "js" \/ kind # "block"
ScopeOf(i) == Cardinality({j \in 1..i : Opens(frames[j].kind)})

-----------------------------------------------------------------------------
(***************************************************************************)
(* Statements with a logging chain.                                        *)
(***************************************************************************)

\* Only JavaScript runs statements outside of functions.
InCode == lang = "js" \/ Len(frames) > 1

Odd(e) == events[e].comment # "no" \/ events[e].why \cap {"unknown", "alike"} # {}

Built(form, root, open, comment, why) ==
    /\ InCode /\ Len(events) < MaxEvents
    /\ form \in Forms
    /\ form # "open" => root = "log"   \* a bound: such a chain is not looked at
    /\ comment # "no" => form = "open" /\ root = "log"         \* a bound, too
    /\ comment # "no" \/ root # "log" => Cardinality({e \in Events : Odd(e)}) < MaxOdd
    /\ events' = Append(events,
           [open |-> open /\ form = "open" /\ root # "alike", comment |-> comment,
            why |-> why \cup (IF form = "open" /\ ~Unfinished(form, root) THEN {"unknown"} ELSE {})
                        \cup (IF root = "alike" THEN {"alike"} ELSE {})])
New == Len(events) + 1

\* log.info(x); -- in Gleam, not the last expression of its block.
Statement(form, root, comment) ==
    /\ Built(form, root, TRUE, comment, {})
    /\ Report(IF Unfinished(form, root) THEN {New} ELSE {})
    /\ UNCHANGED <<frames, scopes, named>>

\* f(log.info(x)), return log.info(x), => log.info(x), Rust's and Gleam's
\* tail expressions; whatever its root, the rule takes no notice of it.
HandOver(form) ==
    /\ Built(form, "log", FALSE, "no", {})
    /\ UNCHANGED <<frames, scopes, found, named>>

\* The value of a Gleam case arm that is not the last: no token before or
\* after it tells the scanner that it is handed on.
GleamArm(comment) ==
    /\ lang = "gleam"
    /\ Built("open", "log", FALSE, comment, {"arm"})
    /\ Report({New})
    /\ UNCHANGED <<frames, scopes, named>>

Given(i, n, v) ==
    frames' = [frames EXCEPT ![i] = [kind |-> @.kind, holds |-> Put(@.holds, n, v)]]
InUse(n) == Declares(n) # {} \/ \E v \in Events \cup {Plain} : <<n, v>> \in named

\* Frame i holds v under n from now on, and the rule takes k for its name; a
\* variable that n meant may be hidden.
Holds(i, n, k, v) ==
    /\ Given(i, n, v)
    /\ named' = named \cup {<<n, v>>, <<k, v>>}
                      \cup {<<n, Value(n)>> : j \in Declares(n) \ {i}}
    /\ Cardinality({p \in named' : p[1] # EventType}) <= MaxNamings

\* let n; or a first value that is plain: of one name only, before all
\* others (a bound).
Declare(n) ==
    /\ InCode /\ \A m \in Names : ~InUse(m)
    /\ Given(Len(frames), n, Plain)
    /\ UNCHANGED <<events, scopes, found, named>>

\* let n = log.info(x) in frame i, or n = log.info(x) for a name of frame i;
\* the rule takes k for its name.
Store(i, n, k, form, root, comment) ==
    /\ Built(form, root, TRUE, comment,
             IF ScopeOf(i) = Len(scopes) THEN {} ELSE {"inner"})
    /\ Holds(i, n, k, New)
    /\ scopes' = IF Unfinished(form, root) THEN Mark(k, New) ELSE scopes
    /\ UNCHANGED found

MayDeclare(n) == n \in DOMAIN Last(frames).holds => lang \in {"rust", "gleam"}
MayAssign(n) == Declares(n) # {} /\ lang # "gleam"

\* An annotation makes no difference where the rule marks nothing.
Bind(n, typed, form, root, comment) ==
    /\ MayDeclare(n) /\ (typed => MayAnnotate /\ Unfinished(form, root))
    /\ Store(Len(frames), n, TakenName(n, typed), form, root, comment)
\* With no override: a comment does here what it does for Bind.
Assign(n, form, root) ==
    MayAssign(n) /\ Store(Max(Declares(n)), n, n, form, root, "no")

-----------------------------------------------------------------------------
(***************************************************************************)
(* Other statements.                                                       *)
(***************************************************************************)

\* let n = m, n = m, or a plain value of a name in use: the rule takes no
\* notice.
Copy(n, v) ==
    /\ InCode
    /\ v \in {Plain} \cup {Value(m) : m \in {m \in Names \ {n} : Declares(m) # {}}}
    /\ v = Plain => InUse(n)
    /\ \/ MayDeclare(n) /\ Holds(Len(frames), n, n, v)
       \/ MayAssign(n) /\ Holds(Max(Declares(n)), n, n, v)
    /\ UNCHANGED <<events, scopes, found>>

\* What a use of the value v does to the events.
Used(v, use) ==
    IF v = Plain THEN events
    ELSE [events EXCEPT
            ![v] = [open |-> FALSE, comment |-> @.comment,
                    why |-> @.why \cup IF use \in Reads THEN {} ELSE {"unread"}]]

Use(n, use) ==
    /\ Declares(n) # {} /\ use # "return"
    /\ Value(n) = Plain => use = "pass"
    /\ events' = Used(Value(n), use)
    /\ scopes' = IF use \in Reads THEN Cleared(n) ELSE scopes
    /\ UNCHANGED <<frames, found, named>>

\* const other = createLogger(), or an import of a logger.
MakeLogger ==
    /\ lang = "js" /\ ~known
    /\ known' = TRUE
    /\ UNCHANGED <<frames, events, scopes, found, named>>

\* Variant: every brace gets a map, also where only functions lose one.
EnterEveryBrace(kind) ==
    /\ Len(frames) < MaxDepth /\ (kind = "block" => InCode)
    /\ frames' = Append(frames, [kind |-> kind, holds |-> <<>>])
    /\ scopes' = Append(scopes, <<>>)
    /\ UNCHANGED <<events, found, named>>

Enter(kind) ==
    /\ Len(frames) < MaxDepth /\ (kind = "block" => InCode)
    /\ frames' = Append(frames, [kind |-> kind, holds |-> <<>>])
    /\ scopes' = IF Opens(kind) THEN Append(scopes, <<>>) ELSE scopes
    /\ UNCHANGED <<events, found, named>>

\* Variant: the map is dropped without a report.
FlushedNot(s) == {}

\* The events a map still holds when its scope ends.
Flushed(s) == Range(Last(s))

\* The innermost frame ends, with s as the rule's scopes.
Leave(s) ==
    /\ Len(frames) > 1
    /\ frames' = Front(frames)
    /\ IF Opens(Last(frames).kind)
       THEN scopes' = Front(s) /\ Report(Flushed(s))
       ELSE scopes' = s /\ UNCHANGED found
    /\ UNCHANGED named

Exit == UNCHANGED events /\ Leave(scopes)

\* return n, as the last statement of a function.
Return(n) ==
    /\ Last(frames).kind = "function" /\ Declares(n) # {}
    /\ events' = Used(Value(n), "return")
    /\ Leave(IF "return" \in Reads THEN Cleared(n) ELSE scopes)

EndOfFile ==
    /\ Len(frames) = 1
    /\ over' = TRUE
    /\ frames' = <<>> /\ scopes' = <<>>
    /\ UNCHANGED <<events, named>>
    /\ Report(Flushed(scopes))

-----------------------------------------------------------------------------
Init ==
    /\ lang \in Langs
    /\ frames = <<[kind |-> "file", holds |-> <<>>]>>
    /\ events = <<>> /\ known = FALSE
    /\ scopes = << <<>> >> /\ found = {}
    /\ named = {} /\ over = FALSE

Chain ==
    \E form \in {"sent", "open", "wide"}, root \in Roots :
        \/ \E comment \in Comments :
               \/ Statement(form, root, comment)
               \/ \E n \in Names, typed \in BOOLEAN : Bind(n, typed, form, root, comment)
        \/ \E n \in Names : Assign(n, form, root)

Other ==
    \/ \E form \in {"sent", "open", "wide"} : HandOver(form)
    \/ \E comment \in Comments : GleamArm(comment)
    \/ \E n \in Names : Declare(n)
    \/ \E n \in Names, v \in 0..MaxEvents : Copy(n, v)
    \/ \E n \in Names, use \in PluginReads : Use(n, use)
    \/ \E n \in Names : Return(n)
    \/ \E kind \in {"function", "block"} : Enter(kind)
    \/ Exit

Next ==
    /\ ~over
    /\ UNCHANGED lang
    /\ \/ (Chain \/ Other) /\ UNCHANGED <<known, over>>
       \/ MakeLogger /\ UNCHANGED over
       \/ EndOfFile /\ UNCHANGED known

Spec == Init /\ [][Next]_vars

-----------------------------------------------------------------------------
TypeOK ==
    /\ lang \in Langs /\ known \in BOOLEAN /\ over \in BOOLEAN
    /\ events \in Seq([open : BOOLEAN, comment : Comments, why : SUBSET Reasons])
    /\ \A i \in DOMAIN frames : /\ frames[i].kind \in {"file", "function", "block"}
                                /\ Range(frames[i].holds) \subseteq Events \cup {Plain}
    /\ Len(scopes) = ScopeOf(Len(frames))
    /\ \A i \in DOMAIN scopes : Range(scopes[i]) \subseteq Events
    /\ found \subseteq Events
    /\ named \subseteq Keys \X (Events \cup {Plain})

\* The name of e, or what the rule took for it, was also that of something else.
Namesake(e) == \E n \in Keys, v \in Events \cup {Plain} :
                   v # e /\ {<<n, e>>, <<n, v>>} \subseteq named
\* It had two names, or the rule took another word for its name.
Aliased(e) == \E n, m \in Keys : n # m /\ {<<n, e>>, <<m, e>>} \subseteq named
Silenced(e) == events[e].comment \in Heeds

\* An event that is never delivered is reported, unless a comment silences
\* it, its logger is not one the rule knows (the plugin: declared further
\* down; the scanner, in Rust and Dart: of an unusual name), or its name was
\* used twice: plugin.mjs and require-send.mjs keep one event per name and
\* map, and know names, not variables, and the scanner takes an annotated
\* variable's type for its name.
MissedOnlyIfNamesake ==
    over => \A e \in Events :
        Open(e) => e \in found \/ Silenced(e) \/ Namesake(e) \/ "unknown" \in events[e].why

\* A report is true: the event is never delivered, except for one that has
\* two names, or a type that the scanner takes for one, whose name was used
\* twice, that was stored from an inner scope, was delivered by a use that
\* the scanner does not read, or is the value of a Gleam case arm; and except
\* for a call that only looks like a logging chain.
AlarmsAreTrue ==
    over => \A e \in found : Open(e) \/ Aliased(e) \/ Namesake(e) \/ events[e].why # {}

\* .ores-lint/README.md: "the unified ores-lint form which works in every
\* language".  The finding's own message in plugin.mjs offers it, too.
OverrideIsHeeded ==
    over => \A e \in Events : events[e].comment = "unified" => e \notin found
=============================================================================
