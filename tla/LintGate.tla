------------------------------ MODULE LintGate ------------------------------
(***************************************************************************)
(* .ores-lint/lint.sh over a repository that holds the file of RequireSend *)
(* and perhaps files of other languages: the runners js.sh, rust.sh,       *)
(* dart.sh and gleam.sh, the scanner's main(), and the strict gate, which  *)
(* fails the run when the printed reports match 'finding(s) across'.       *)
(*                                                                         *)
(* A printed line is one of: "across" (N finding(s) across ...), "count"   *)
(* (N finding(s)), "clean", or "note" (a skip, a gap, a tool that could    *)
(* not run).  `log` is the set of lines, which is all the gate's grep sees.*)
(***************************************************************************)
EXTENDS RequireSend

CONSTANT Others     \* languages the rest of the repository may hold

VARIABLES
    runner,     \* position in Order: the runner whose turn it is
    log,        \* the lines printed, $LOG of lint.sh
    examined,   \* the file was looked at by the rule of its language
    raised,     \* history: a linter had something to say
    strict,     \* ORES_LINT_STRICT = 1
    exit        \* the exit status, 2 before the end

gateVars == <<runner, log, examined, raised, strict, exit>>
lintVars == <<vars, gateVars>>

Order == <<"js", "rust", "dart", "gleam", "send">>
Turn(h) == over /\ exit = 2 /\ runner \in DOMAIN Order /\ Order[runner] = h

\* What became of a linter: not installed or switched off, could not run, ran
\* without a warning or with one; gleam format may name unformatted files.
Missing(did) == did = "missing"
Broken(did) == did = "broken"
Did(h) == {"missing", "broken", "silent", "warned"}
              \cup IF h = "gleam" THEN {"unformatted"} ELSE {}

Prints(h, lines, findings) ==
    /\ Turn(h)
    /\ log' = log \cup lines
    /\ raised' = (raised \/ findings)
    /\ runner' = runner + 1
    /\ UNCHANGED <<vars, strict, exit>>

\* lint.sh looks for files of each language; the scanner's are the last three.
InRepo(h) == h \in {lang} \cup Others
Absent(h) == h # lang /\ Prints(h, {}, FALSE) /\ UNCHANGED examined

(***************************************************************************)
(* js.sh, base.mjs and formatter.mjs.                                      *)
(***************************************************************************)

\* Where a JavaScript or TypeScript file may be; js.sh looks for TypeScript
\* at the root only (tsconfig.json, src/*.ts).
Places == {"js", "ts", "nested ts", "ignored"}
\* The TypeScript parser: loads, is installed but does not load, is absent.
Parsers == {"loads", "fails", "absent"}

\* oresConfig: without a parser that loads, TypeScript is ignored.
Matched(place, parser) == place = "js" \/ (place \in {"ts", "nested ts"} /\ parser = "loads")

\* js.sh: the note that TypeScript is skipped asks whether the parser resolves.
GapNote(place, parser) == IF place = "ts" /\ parser = "absent" THEN {"note"} ELSE {}

\* Files that do not parse are findings across no rule.
Formatter(files, hits, unparsed) ==
    IF hits \/ unparsed THEN {"across"} ELSE IF files THEN {"clean"} ELSE {"note"}

JsCannotRun(did) ==
    /\ InRepo("js") /\ (Missing(did) \/ Broken(did))
    /\ Prints("js", {"note"}, FALSE)
    /\ UNCHANGED examined

\* The file is linted with others that are in order (company), or alone;
\* other rules may have something to say (warned).
JsRuns(warned, place, parser, company, parses) ==
    LET mine == lang = "js" /\ Matched(place, parser)
        hits == warned \/ (mine /\ parses /\ found # {})
    IN  /\ InRepo("js")
        /\ Prints("js", GapNote(place, parser)
                            \cup Formatter(mine \/ company \/ warned, hits, mine /\ ~parses),
                  hits)
        /\ examined' = (examined \/ (mine /\ parses))

(***************************************************************************)
(* rust.sh, dart.sh, gleam.sh.                                             *)
(***************************************************************************)

\* clippy that could not run leaves nothing to summarise, which reads clean.
RustSays(did) ==
    IF Missing(did) THEN {"note"} ELSE IF Broken(did) THEN {"note", "clean"}
    ELSE IF did = "warned" THEN {"across"} ELSE {"clean"}

\* Also the fallback for the analyzer's human format, with a count of 0.
DartSays(did) ==
    IF Missing(did) \/ Broken(did) THEN {"note"}
    ELSE IF did = "warned" THEN {"across"} ELSE {"clean"}

\* gleam format's exit status and its stderr are dropped.
GleamSays(did) ==
    IF Missing(did) THEN {"note"} ELSE IF Broken(did) THEN {"note", "clean"}
    ELSE IF did = "warned" THEN {"count"} ELSE {"clean"}

HostSh(h, did) ==
    /\ InRepo(h)
    /\ Prints(h, CASE h = "rust" -> RustSays(did) [] h = "dart" -> DartSays(did)
                   [] OTHER -> GleamSays(did),
              did \in {"warned", "unformatted"})
    /\ UNCHANGED examined

(***************************************************************************)
(* main() of require-send.mjs, and the gate.                               *)
(***************************************************************************)

\* trackedFiles: not in a skipped directory or a nested repository, known to
\* git, and not a test unless tests are included.
Scanned(place, tests) == place = "source" \/ (place = "test" /\ tests)

\* Variant: the header of a report is the one gleam.sh prints.
FormatCounts(files, findings) ==
    IF findings THEN {"count"} ELSE IF files THEN {"clean"} ELSE {"note"}

FormatReport(files, findings) ==
    IF findings THEN {"across"} ELSE IF files THEN {"clean"} ELSE {"note"}

Scan(skip, place, tests, company) ==
    LET mine == lang # "js" /\ ~skip /\ Scanned(place, tests)
        hits == mine /\ found # {}
    IN  /\ Prints("send", IF skip THEN {"note"} ELSE FormatReport(mine \/ company, hits), hits)
        /\ examined' = (examined \/ mine)

\* grep -q 'finding(s) across'
Greps == "across" \in log

\* LOG=$(mktemp) || exit 0
NoLog(s) ==
    /\ over /\ runner = 1 /\ exit = 2
    /\ strict' = s /\ exit' = 0
    /\ UNCHANGED <<vars, runner, log, examined, raised>>

Gate(s) ==
    /\ over /\ runner = Len(Order) + 1 /\ exit = 2
    /\ strict' = s
    /\ exit' = IF s /\ Greps THEN 1 ELSE 0
    /\ UNCHANGED <<vars, runner, log, examined, raised>>

-----------------------------------------------------------------------------
GateInit ==
    /\ runner = 1 /\ log = {} /\ examined = FALSE
    /\ raised = FALSE /\ strict = FALSE /\ exit = 2

Lint ==
    \/ \E h \in {"js", "rust", "dart", "gleam", "send"} : Absent(h)
    \/ \E did \in Did("js") : JsCannotRun(did)
    \/ \E warned, company, parses \in BOOLEAN, place \in Places, parser \in Parsers :
           JsRuns(warned, place, parser, company, parses)
    \/ \E h \in {"rust", "dart", "gleam"} : \E did \in Did(h) : HostSh(h, did)
    \/ \E place \in {"source", "test", "skipped"}, skip, tests, company \in BOOLEAN :
           Scan(skip, place, tests, company)
    \/ \E s \in BOOLEAN : NoLog(s) \/ Gate(s)

LintInit == Init /\ GateInit
LintNext == (Next /\ UNCHANGED gateVars) \/ Lint
LintSpec == LintInit /\ [][LintNext]_lintVars

-----------------------------------------------------------------------------
LintTypeOK ==
    /\ TypeOK
    /\ runner \in 1..(Len(Order) + 1)
    /\ log \subseteq {"across", "count", "clean", "note"}
    /\ examined \in BOOLEAN /\ raised \in BOOLEAN
    /\ strict \in BOOLEAN /\ exit \in {0, 1, 2}

\* A strict run that passes and whose house rule looked at the file: every
\* event the file builds is delivered, but for those that a comment silences
\* and those the rule may miss (see MissedOnlyIfNamesake).
StrictPassMeansDelivered ==
    strict /\ exit = 0 /\ examined =>
        \A e \in Events :
            Open(e) => Silenced(e) \/ Namesake(e) \/ "unknown" \in events[e].why

\* .ores-lint/README.md: ORES_LINT_STRICT=1 "makes any finding exit non-zero".
StrictMeansFindingsFail == strict /\ exit # 2 /\ raised => exit = 1
=============================================================================
