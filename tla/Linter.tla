------------------------------- MODULE Linter -------------------------------
\* clint.py as a program: it takes its arguments, lints one file after the other,
\* line by line, prints what is not suppressed, and exits with what it counted.
\*
\* A file is processed with states of its own for includes, functions and classes;
\* the counts, the filters and the NOLINT comments are kept in the module.
EXTENDS LintLanguage

CONSTANTS
  Files,        \* the files that can be read, by name: a path, a text, and whether it has \r
  Headers,      \* the texts of the header files that are there, by their paths
  Invocations,  \* arguments to start with: options and names
  PosixThreading  \* the copy of project 3 checks for thread-unsafe functions

\* TLC evaluates a definition once, a CONSTANT at every use.
Disk == Files
ASSUME FilesAssumption ==
  \A f \in DOMAIN Disk : /\ Disk[f].text # <<>> /\ Disk[f].carriage_return_found \in BOOLEAN
                          /\ Disk[f].path.base # <<>>

VARIABLES
  pc,               \* where the program is
  args,             \* its arguments
  lint,             \* _cpplint_state
  suppressions,     \* _error_suppressions
  file, line,       \* the number of the file at hand, and of the line
  clean,            \* clean_lines: the copies of its lines
  include_state, function_state, class_state,
  found,            \* what the rules reported for the file at hand (history)
  printed,          \* and what was printed of it (history)
  reports,          \* what was printed for each of the files before (history)
  exit_status
vars == <<pc, args, lint, suppressions, file, line, clean, include_state, function_state, class_state,
          found, printed, reports, exit_status>>

filename == args.filenames[file]
Path == Disk[filename].path

\* The lines with the markers, and without the comments of several lines
Marked == [f \in DOMAIN Disk |->
             LET text == Disk[f].text
             IN  [n \in 0..(Len(text) + 1) |-> IF n \in DOMAIN text THEN text[n] ELSE Marker]]
Uncommented == [f \in DOMAIN Disk |-> RemoveMultiLineComments(Marked[f], 0)]
NoLines == CleansedLines(<<>>)

Init ==
  /\ pc = "start" /\ args \in Invocations
  /\ lint = CppLintState(<<>>) /\ suppressions = {} /\ file = 1 /\ line = 0
  /\ clean = NoLines /\ include_state = NoIncludes /\ function_state = NoFunction /\ class_state = <<>>
  /\ found = <<>> /\ printed = <<>> /\ reports = <<>> /\ exit_status = 0

\* Error() for each of the errors, with the NOLINT comments in effect
Report(errors, nolint) ==
  LET shown == Printed(lint, nolint, errors)
  IN  /\ found' = found \o errors /\ printed' = printed \o shown
      /\ lint' = Counted(lint, shown)
perFile == <<clean, include_state, function_state, class_state>>

\* main(): the arguments are taken, or the program ends with a message.
TakeArguments ==
  /\ pc = "start" /\ ParseArguments(args.opts, args.filenames) = ""
  /\ lint' = CppLintState(args.opts) /\ pc' = "open"
  /\ UNCHANGED <<args, suppressions, file, line, perFile, found, printed, reports, exit_status>>
RefuseArguments ==
  /\ pc = "start" /\ ParseArguments(args.opts, args.filenames) # ""
  /\ exit_status' = IF ParseArguments(args.opts, args.filenames) = "categories" THEN 0 ELSE 1
  /\ pc' = "exit"
  /\ UNCHANGED <<args, lint, suppressions, file, line, perFile, found, printed, reports>>

\* ProcessFile(): a file that cannot be read, or has another extension, is skipped.
Processed(name) == name \in DOMAIN Disk /\ Disk[name].path.ext \in {"c", "h", "cpp"}
SkipFile ==
  /\ pc = "open" /\ file <= Len(args.filenames) /\ ~Processed(filename)
  /\ reports' = Append(reports, <<>>) /\ file' = file + 1
  /\ UNCHANGED <<pc, args, lint, suppressions, line, perFile, found, printed, exit_status>>

Ext == Path.ext
Guard == IF Ext = "h" THEN CheckForHeaderGuard(Marked[filename]) ELSE [errors |-> <<>>, nolint |-> -1]
\* The variable that names the file, where the width of a line may depend on it
GuardName == IF Ext = "h" THEN <<"FOO_H">> ELSE <<>>
BeginErrors(guard, unended) ==
  CheckForCopyright(Marked[filename])
  \o (IF guard.nolint = -1 THEN <<>> ELSE UnknownNolint(Marked[filename][guard.nolint], guard.nolint))
  \o guard.errors
  \o When(unended # 0, unended, readability("multiline_comment"), 5)
GuardNolint(kept, n) ==
  IF n = -1 THEN kept ELSE ParseNolintSuppressions(kept, Marked[filename][n], n)

Begins(kept) ==
  /\ pc = "open" /\ file <= Len(args.filenames) /\ Processed(filename)
  /\ include_state' = NoIncludes /\ function_state' = NoFunction /\ class_state' = <<>>
  /\ clean' = CleansedLines(Uncommented[filename].lines)
  /\ suppressions' = GuardNolint(kept, Guard.nolint)
  /\ Report(BeginErrors(Guard, Uncommented[filename].unended), suppressions')
  /\ line' = 0 /\ pc' = "lines"
  /\ UNCHANGED <<args, file, reports, exit_status>>
\* Mutant: the NOLINT comments of the file before are kept.
ProcessFileData_KeepsNolint == Begins(suppressions)
\* ProcessFileData(): everything starts afresh, the NOLINT comments as well, and the
\* rules for the whole file come first.
ProcessFileData == Begins({})

LineNolint == ParseNolintSuppressions(suppressions, clean.raw[line], line)
Functions == CheckForFunctionLengths(clean, line, function_state, lint.verbose_level)
FirstErrors ==
  UnknownNolint(clean.raw[line], line) \o Functions.errors \o CheckForMultilineCommentsAndStrings(clean, line)

\* ProcessLine(): all the rules for a line
ProcessLine ==
  LET language == CheckLanguage(Path, clean, line, include_state)
      classes == CheckForNonStandardConstructs(clean, line, class_state)
  IN  /\ pc = "lines" /\ line < NumLines(clean.raw) /\ CheckBraces(clean, line).ends = "ok"
      /\ suppressions' = LineNolint /\ function_state' = Functions.state
      /\ include_state' = language.state /\ class_state' = classes.stack
      /\ Report(FirstErrors \o CheckStyle(clean, line, GuardName, class_state) \o language.errors
                  \o classes.errors
                  \o (IF PosixThreading THEN CheckPosixThreading(clean, line) ELSE <<>>)
                  \o CheckInvalidIncrement(clean, line) \o CheckMakePairUsesDeduction(clean, line),
                suppressions')
      /\ line' = line + 1
      /\ UNCHANGED <<pc, args, file, clean, reports, exit_status>>

\* The search for braces never ends, or ends the program with an exception.
LineIsTheLast ==
  LET ends == CheckBraces(clean, line).ends
  IN  /\ pc = "lines" /\ line < NumLines(clean.raw) /\ ends # "ok"
      /\ suppressions' = LineNolint /\ function_state' = Functions.state
      /\ Report(FirstErrors \o StyleBefore(clean, line, GuardName), suppressions')
      /\ pc' = (IF ends = "spins" THEN "spins" ELSE "exit")
      /\ exit_status' = (IF ends = "spins" THEN 0 ELSE 1)
      /\ UNCHANGED <<args, file, line, clean, include_state, class_state, reports>>

\* What comes behind the last line, and a \r at the end of lines
EndErrors ==
  CheckFinished(class_state) \o CheckForIncludeWhatYouUse(Path, clean, include_state, Headers)
  \o CheckForUnicodeReplacementCharacters(clean.raw) \o CheckForNewlineAtEOF(clean.raw)
  \o When(Disk[filename].carriage_return_found, 0, whitespace("newline"), 1)
FinishFile ==
  /\ pc = "lines" /\ line = NumLines(clean.raw)
  /\ Report(EndErrors, suppressions) /\ pc' = "finished"
  /\ UNCHANGED <<args, suppressions, file, line, perFile, reports, exit_status>>
\* "Done processing": the states of the file are gone.
NextFile ==
  /\ pc = "finished" /\ pc' = "open"
  /\ clean' = NoLines
  /\ include_state' = NoIncludes /\ function_state' = NoFunction /\ class_state' = <<>>
  /\ reports' = Append(reports, printed) /\ file' = file + 1 /\ found' = <<>> /\ printed' = <<>>
  /\ UNCHANGED <<args, lint, suppressions, line, exit_status>>

\* PrintErrorCounts(), and the exit status
Exit ==
  /\ pc = "open" /\ file > Len(args.filenames)
  /\ exit_status' = (IF lint.error_count > 0 THEN 1 ELSE 0) /\ pc' = "exit"
  /\ UNCHANGED <<args, lint, suppressions, file, line, perFile, found, printed, reports>>

Next ==
  \/ TakeArguments \/ RefuseArguments \/ SkipFile \/ ProcessFileData \/ ProcessLine \/ LineIsTheLast
  \/ FinishFile \/ NextFile \/ Exit
Spec == Init /\ [][Next]_vars
\* The program is sequential and waits for nothing: weak fairness of Next, whose steps
\* are possible until the program has stopped, or hangs within a line.
Stopped == pc \in {"exit", "spins"}
FairSpec == Spec /\ ([]<>Stopped \/ []<><<TRUE>>_vars)

-----------------------------------------------------------------------------
\* Properties

\* What is printed for a file does not depend on the files before it: nothing of
\* their NOLINT comments, includes, functions and classes is left.
LintsAlike ==
  \A i, j \in DOMAIN reports :
    args.filenames[i] = args.filenames[j] => reports[i] = reports[j]

\* "NOLINT or NOLINT(*) suppresses errors of all categories on that line" (_USAGE),
\* and NOLINT(category) those of one, but for the start of a comment that never
\* ends, and for a comment inside a comment of several lines.
NolintHonoured ==
  pc \in {"lines", "finished"} =>
    \A k \in DOMAIN printed :
      LET e == printed[k]
          text == Disk[filename].text
      IN  (/\ e.line \in DOMAIN text /\ Nolints(text[e.line]) # {}
           /\ clean.raw[e.line] = text[e.line] /\ e.line # Uncommented[filename].unended)
            => Named(text[e.line]) \notin {All, e.category}

\* "sys.exit(_cpplint_state.error_count > 0)": the program succeeds only if it printed
\* nothing, and its counts are those of what it printed.
Shown == FlattenSeq(reports) \o printed
Of(key) == Cardinality({i \in DOMAIN Shown : IsPrefix(key, Shown[i].category)})
CountsTell ==
  /\ lint.error_count = Len(Shown)
  /\ \A key \in DOMAIN lint.errors_by_category : lint.errors_by_category[key] = Of(key)
  /\ lint.counting \in {"toplevel", "detailed"} =>
       FoldFunction(+, 0, lint.errors_by_category) = lint.error_count
  /\ pc = "exit" /\ exit_status = 0 => Shown = <<>>

\* The order of the includes is checked as IncludeOrder describes it, file by file.
Disordered(e) == e.category \in {include("_order"), include("_alpha")}
Order == INSTANCE IncludeOrder WITH
  includes <- include_state.includes, section <- include_state.section,
  last_header <- include_state.last_header,
  silent <- ~\E i \in DOMAIN found : Disordered(found[i])
IncludesOrdered == Order!OrderSpec

\* A class is reported to have no end only if its braces do not close, unless a line
\* inside it declares with the name of another class, and closes a brace as well.
ClassesEnd ==
  pc = "finished" =>
    \A i \in DOMAIN found : found[i].category = build("class") =>
      LET c == found[i].line
      IN  \/ LastLine(clean, c) = 0
          \/ \E m \in c..LastLine(clean, c) :
               /\ ClassKey(clean.elided[m]) # {}
               /\ Has(clean.elided[m], ";") /\ Has(clean.elided[m], "}")

\* A function that has more lines than allowed is reported at the brace that ends it,
\* and is not counted with the lines of others.
Ends1(n) == Match(<<T("}"), S0, End>>, clean.lines[n])
Counts(h, e) == Cardinality({m \in (h + 1)..(e - 1) : ~IsBlankLine(clean.lines[m])})
IsFunction(h, e) ==
  /\ StartsFunction(clean.lines[h]) /\ BodyLine(clean, h) # {} /\ HasBody(clean, h) /\ Ends1(e)
  /\ \A m \in (h + 1)..(e - 1) : ~Ends1(m) /\ ~StartsFunction(clean.lines[m])
LengthsTold ==
  pc = "finished" =>
    \A h, e \in DOMAIN clean.lines : h < e /\ IsFunction(h, e) =>
      (\E i \in DOMAIN found : found[i].category = readability("fn_size") /\ found[i].line = e)
        <=> Counts(h, e) > Trigger(Begin(NoFunction, NameOf(clean.lines[h])), lint.verbose_level)

\* The program ends, unless a block that starts with a blank is followed by a ; and
\* nothing but such blocks come before it.
StrayAtTop ==
  /\ StrayBlock(clean.elided[line])
  /\ \A m \in 0..(line - 1) :
       ~IsBlankLine(clean.elided[m]) =>
         Match(<<S1, T("{")>>, clean.elided[m]) /\ ~Has(clean.elided[m], ";")
Terminates == <>(pc = "exit" \/ (pc = "spins" /\ StrayAtTop))
=============================================================================
