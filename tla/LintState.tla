----------------------------- MODULE LintState ------------------------------
\* What clint.py keeps for the whole invocation: its options, the filters, the
\* NOLINT comments of the file at hand, and the counts of what it has printed.
EXTENDS LintText, TLC

-----------------------------------------------------------------------------
\* A category is a sequence of the parts a filter may name, so that the filter
\* build/include stands for build/include_order as well.

build(name) == <<"build", name>>
include(rule) == <<"build", "include", rule>>
readability(name) == <<"readability", name>>
runtime(name) == <<"runtime", name>>
whitespace(name) == <<"whitespace", name>>

ERROR_CATEGORIES ==
  {<<"legal", "copyright">>, <<"runtime", "printf", "_format">>}
  \cup {include(r) : r \in {"_alpha", "_order", "_what_you_use"}}
  \cup {build(n) : n \in {"class", "deprecated", "endif_comment", "explicit_make_pair", "forward_decl",
                          "header_guard", "include", "namespaces", "printf_format", "storage_class"}}
  \cup {readability(n) : n \in {"braces", "casting", "check", "constructors", "fn_size", "function",
                                "multiline_comment", "multiline_string", "nolint", "streams", "todo",
                                "utf8"}}
  \cup {runtime(n) : n \in {"arrays", "casting", "explicit", "int", "init", "invalid_increment",
                            "member_string_references", "memset", "operator", "printf", "references",
                            "rtti", "sizeof", "string", "threadsafe_fn", "virtual"}}
  \cup {whitespace(n) : n \in {"blank_line", "braces", "comma", "comments", "end_of_line",
                               "ending_newline", "indent", "labels", "line_length", "newline",
                               "operators", "parens", "semicolon", "tab", "todo"}}

Filter(sign, prefix) == [sign |-> sign, prefix |-> prefix]
DEFAULT_FILTERS == <<Filter("-", include("_alpha"))>>

-----------------------------------------------------------------------------
\* The arguments: options with their values, in order, and names of files.

Option(opt, val) == [opt |-> opt, val |-> val]
\* How an option ends the program, or "" when it is taken
Refused(o) ==
  IF o.opt = "help" THEN "usage"
  ELSE IF o.opt = "output" /\ o.val \notin {"emacs", "vs7"} THEN "usage"
  ELSE IF o.opt = "filter" /\ o.val = <<>> THEN "categories"
  ELSE IF o.opt = "counting" /\ o.val \notin {"total", "toplevel", "detailed"} THEN "usage"
  ELSE ""
\* The last value of an option
Value(opts, opt, default) ==
  LET given == {i \in DOMAIN opts : opts[i].opt = opt}
  IN  IF given = {} THEN default ELSE opts[Max(given)].val
\* The first option that is refused counts, then whether there are files; a filter
\* without a sign is found out last, where the filters are set.
ParseArguments(opts, filenames) ==
  LET refused == {i \in DOMAIN opts : Refused(opts[i]) # ""}
      filters == Value(opts, "filter", <<>>)
  IN  IF refused # {} THEN Refused(opts[Min(refused)])
      ELSE IF filenames = <<>> THEN "usage"
      ELSE IF \E i \in DOMAIN filters : filters[i].sign \notin {"+", "-"} THEN "ValueError"
      ELSE ""

\* _cpplint_state once the arguments are taken and the counts are reset; without an
\* option, counting is '' and not the 'total' the class begins with.
CppLintState(opts) ==
  [verbose_level |-> Value(opts, "verbose", 1),
   filters |-> DEFAULT_FILTERS \o Value(opts, "filter", <<>>),
   counting |-> Value(opts, "counting", ""), error_count |-> 0, errors_by_category |-> <<>>]

\* Mutant: a category that was counted before is counted as one again.
IncrementErrorCount_Once(state, category) ==
  [state EXCEPT !.error_count = @ + 1,
                !.errors_by_category = (<<Head(category)>> :> 1) @@ @]
IncrementErrorCount(state, category) ==
  LET key == IF state.counting = "detailed" THEN category ELSE <<Head(category)>>
      counts == state.errors_by_category
      n == IF key \in DOMAIN counts THEN counts[key] ELSE 0
  IN  [state EXCEPT !.error_count = @ + 1,
                    !.errors_by_category = IF state.counting \in {"toplevel", "detailed"}
                                           THEN (key :> n + 1) @@ counts ELSE counts]

-----------------------------------------------------------------------------
\* NOLINT

\* The NOLINT comments, as tokens, with the category they name; All stands for None.
All == <<>>
NolintCategory ==
  "NOLINT" :> All @@ "NOLINT(*)" :> All @@ "NOLINT(unheard/of)" :> <<"unheard", "of">>
  @@ "NOLINT(whitespace/braces)" :> whitespace("braces")
  @@ "NOLINT(whitespace/end_of_line)" :> whitespace("end_of_line")
  @@ "NOLINT(build/header_guard)" :> build("header_guard")
  @@ "NOLINT(readability/fn_size)" :> readability("fn_size")

Error(linenum, category, confidence) ==
  [line |-> linenum, category |-> category, confidence |-> confidence]
\* What a rule reports: an error if its condition holds.
When(condition, linenum, category, confidence) ==
  IF condition THEN <<Error(linenum, category, confidence)>> ELSE <<>>

\* _error_suppressions with the first NOLINT of the line, and the error it may be
Nolints(raw_line) == {i \in DOMAIN raw_line : raw_line[i] \in DOMAIN NolintCategory}
Named(raw_line) == NolintCategory[raw_line[Min(Nolints(raw_line))]]
\* Mutant: the comment is for the line behind it.
ParseNolintSuppressions_NextLine(suppressions, raw_line, linenum) ==
  IF Nolints(raw_line) = {} \/ Named(raw_line) \notin ERROR_CATEGORIES \cup {All} THEN suppressions
  ELSE suppressions \cup {<<Named(raw_line), linenum + 1>>}
ParseNolintSuppressions(suppressions, raw_line, linenum) ==
  IF Nolints(raw_line) = {} \/ Named(raw_line) \notin ERROR_CATEGORIES \cup {All} THEN suppressions
  ELSE suppressions \cup {<<Named(raw_line), linenum>>}
UnknownNolint(raw_line, linenum) ==
  When(Nolints(raw_line) # {} /\ Named(raw_line) \notin ERROR_CATEGORIES \cup {All},
       linenum, readability("nolint"), 5)

IsErrorSuppressedByNolint(suppressions, e) ==
  <<e.category, e.line>> \in suppressions \/ <<All, e.line>> \in suppressions

\* The last filter that names the category decides.
Passes(filters, category) ==
  LET naming == {i \in DOMAIN filters : IsPrefix(filters[i].prefix, category)}
  IN  naming = {} \/ filters[Max(naming)].sign = "+"

ShouldPrintError(state, suppressions, e) ==
  /\ ~IsErrorSuppressedByNolint(suppressions, e)
  /\ e.confidence >= state.verbose_level
  /\ Passes(state.filters, e.category)

\* The errors of a sequence that are printed, and _cpplint_state when they are
Printed(state, suppressions, errors) ==
  SelectSeq(errors, LAMBDA e : ShouldPrintError(state, suppressions, e))
Counted(state, printed) == FoldLeft(LAMBDA s, e : IncrementErrorCount(s, e.category), state, printed)

=============================================================================
