SPECIFICATION LintSpec
CONSTANTS
    Langs = {"js", "rust", "gleam"}
    Names = {n, m}
    MaxEvents = 2
    MaxOdd = 1
    MaxNamings = 2
    MaxDepth = 3
    Others = {"dart"}
SYMMETRY Symmetry
CHECK_DEADLOCK FALSE
INVARIANT OverrideIsHeeded
