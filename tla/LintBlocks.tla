----------------------------- MODULE LintBlocks -----------------------------
\* The rules of clint.py that go beyond a line: braces, style, the lengths of
\* functions, and the nesting of classes.
EXTENDS LintRules

CONSTANTS
  NORMAL_TRIGGER,  \* _FunctionState: the lines from which a function is long (250)
  TEST_TRIGGER     \* and those of a test (400)

-----------------------------------------------------------------------------
\* CheckBraces()

\* What comes of the search for the statement before "{ ...};": the lines above
\* are put before it one by one until they hold a ; or it no longer starts with
\* a blank and a brace.  With no line above, there is always one more empty line
\* to put before it.
Spins == <<"spins">>
StrayBlock(line) == Match(<<S1, T("{"), AnyText, T("}"), S0, T(";")>>, line)
\* Mutant: a statement above that is at its end is taken in as well.
IsWhole_BraceOnly(line, prevline) == ~StrayBlock(line)
IsWhole(line, prevline) == ~StrayBlock(line) \/ Has(prevline, ";")
RECURSIVE WithLinesAbove(_, _, _)
WithLinesAbove(clean, line, n) ==
  LET above == PreviousNonBlank(clean, n)
      prevline == GetPreviousNonBlankLine(clean, n)
  IN  IF IsWhole(line, prevline) THEN line
      ELSE IF above = -1 THEN Spins
      ELSE WithLinesAbove(clean, prevline \o line, above)

\* An else with a brace on one side only; a condition that goes on on the lines
\* below has its brace there.
ElseIf == <<T("}"), S0, T("else"), T(" "), T("if")>>
ElseEnd(clean, n) ==
  LET line == clean.elided[n]
      p == Min({i \in DOMAIN line : Match(<<T("else"), T(" "), T("if")>>, From(line, i))})
  IN  IF ~Search(ElseIf \o <<Not0({"{"}), End>>, line) THEN <<>>      \* a brace is missing
      ELSE IF ~Has(From(line, p), "(") THEN <<"{">>                   \* nothing to look at
      ELSE CloseExpression(clean, n)
OneBrace(clean, n) ==
  LET line == clean.elided[n]
  IN  \/ Search(<<T("}"), S0, T("else"), Not0({"{"}), End>>, line)
      \/ Match(<<Not0({"}"}), T("else"), S0, T("{")>>, line)

\* The errors, and how the program goes on: "ok", or it never does, or it dies.
Braces(line, n, prev, whole, oneBrace, elseEnd) ==
  LET unclosed == oneBrace /\ elseEnd = Unclosed
  IN  [ends |-> IF unclosed THEN "IndexError" ELSE IF whole = Spins THEN "spins" ELSE "ok",
       errors |->
         When(Match(<<S0, T("{"), S0, End>>, line)
                /\ ~Search(<<One({";", ":", "::", "}", "{"}), S0, End>>, prev), n, whitespace("braces"), 4)
         \o When(Match(<<S0, T("else")>>, line) /\ Match(<<S0, T("}"), S0, End>>, prev),
                 n, whitespace("newline"), 4)
         \o When(oneBrace /\ ~unclosed /\ ~Has(elseEnd, "{"), n, readability("braces"), 5)
         \o When(Search(<<T("else"), T(" "), No(Blank \cup {"{"})>>, line)
                   /\ ~Search(<<T("else"), T(" "), T("if")>>, line), n, whitespace("newline"), 4)
         \o When(Match(<<S0, T("do"), T(" "), No(Blank \cup {"{"})>>, line), n, whitespace("newline"), 4)
         \o When(/\ Search(<<T("{"), AnyText, T("}"), S0, T(";")>>, whole)
                 /\ Count(whole, "{") = Count(whole, "}")
                 /\ ~Search(<<One({"struct", "class", "enum"})>>, whole)
                 /\ ~Search(<<T("="), S0, T("{")>>, whole), n, readability("braces"), 4)]
CheckBraces(clean, n) ==
  Braces(clean.elided[n], n, GetPreviousNonBlankLine(clean, n),
         WithLinesAbove(clean, clean.elided[n], n), OneBrace(clean, n), ElseEnd(clean, n))

-----------------------------------------------------------------------------
\* CheckCheck()

CHECK_MACROS ==
  <<"DCHECK", "CHECK", "EXPECT_TRUE_M", "EXPECT_TRUE", "ASSERT_TRUE_M", "ASSERT_TRUE",
    "EXPECT_FALSE_M", "EXPECT_FALSE", "ASSERT_FALSE_M", "ASSERT_FALSE">>

\* CHECK(a == 1) has a macro for it, for one operator and a literal on one side.
ReplaceableCheck(operator, macro, line) ==
  LET literals == {<<One(Numbers)>>, <<T("\""), T("\"")>>, <<T("''")>>}
      call == <<S0, T(macro), T("(")>>
      notAngle == No({"<", ">", "<<", ">>", "<=", ">=", "->"})
  IN  /\ \E literal \in literals :
           \/ Match(call \o <<S0>> \o literal \o <<S0, T(operator), notAngle>>, line)
           \/ Match(call \o <<AnyText, notAngle, T(operator), S0>> \o literal \o <<S0, T(")")>>, line)
      /\ ~Search(<<One({"NULL", "&&", "||"})>>, line)

CheckCheck(clean, n) ==
  LET macros == {i \in DOMAIN CHECK_MACROS : Has(clean.raw[n], CHECK_MACROS[i])}
  IN  When(/\ macros # {}
           /\ \E operator \in {"==", "!=", ">=", ">", "<=", "<"} :
                ReplaceableCheck(operator, CHECK_MACROS[Min(macros)], clean.elided[n]),
           n, readability("check"), 2)

-----------------------------------------------------------------------------
\* CheckStyle()

GetLineWidth(line) == Len(line) + LINE_LENGTH * Count(line, LongWord)

\* guard is the variable that is expected for the file, none if it is no header
MayBeLong(line, guard) ==
  \/ Match(<<T("#include")>>, line)
  \/ guard # <<>> /\ \E head \in {<<"#ifndef", " ">>, <<"#define", " ">>, EndifOf(<<>>)} :
                       IsPrefix(head \o guard, line)
  \/ Match(<<S0, T("//"), AnyText, T("http://"), Not0(Blank), End>>, line)
  \/ Match(<<T("//"), T(" "), T("$"), AnyText, T("$"), End>>, line)

CheckIndent(clean, n) ==
  LET line == clean.raw[n]
      initial_spaces == Min({i \in DOMAIN line : line[i] # " "} \cup {Len(line) + 1}) - 1
  IN  IF line # <<>> /\ Last(line) \in Blank THEN When(TRUE, n, whitespace("end_of_line"), 4)
      ELSE IF initial_spaces \in {1, 3} /\ ~Match(<<S0, Word, S0, T(":"), S0, End>>, clean.elided[n])
      THEN When(TRUE, n, whitespace("indent"), 3)
      ELSE When(/\ initial_spaces = 0 /\ ~Match(<<T("//")>>, line)
                /\ Search(<<No({":", "::"}), T(":"), S0, End>>, line), n, whitespace("labels"), 4)

SeveralCommands(clean, n) ==
  LET line == clean.elided[n]
      prev == GetPreviousNonBlankLine(clean, n)
  IN  /\ Count(line, ";") > 1 /\ ~Has(line, "for")
      /\ ~Has(prev, "for") \/ Has(prev, ";")
      /\ ~(/\ Search(<<T("case"), T(" ")>>, line) \/ Search(<<T("default"), T(":")>>, line)
           /\ Search(<<T("break"), T(";")>>, line))

\* A blank line before public:, protected: and private: in a class that is not small
CheckSectionSpacing(clean, class, n) ==
  LET prev == clean.lines[n - 1]
      head == {m \in class.line..(n - 1) : Search(<<T("{"), S0, End>>, clean.lines[m])}
      endOfHead == IF head = {} THEN class.line ELSE Min(head)
  IN  IF class.last_line - class.line <= SMALL_CLASS \/ n <= class.line THEN <<>>
      ELSE When(/\ Match(<<S0, One(Access), T(":")>>, clean.lines[n])
                /\ ~IsBlankLine(prev) /\ ~Search(<<One({"class", "struct"})>>, prev)
                /\ endOfHead < n - 1, n, whitespace("blank_line"), 3)

\* The form of a line, up to the braces, and what follows them.
StyleBefore(clean, n, guard) ==
  When(Has(clean.raw[n], "\t"), n, whitespace("tab"), 1) \o CheckIndent(clean, n)
  \o When(~MayBeLong(clean.raw[n], guard) /\ GetLineWidth(clean.raw[n]) > LINE_LENGTH,
          n, whitespace("line_length"), 4)
  \o When(SeveralCommands(clean, n), n, whitespace("newline"), 4)

CheckStyle(clean, n, guard, stack) ==
  StyleBefore(clean, n, guard) \o CheckBraces(clean, n).errors \o CheckSpacing(clean, n)
  \o CheckCheck(clean, n)
  \o (IF stack = <<>> THEN <<>> ELSE CheckSectionSpacing(clean, Last(stack), n))

-----------------------------------------------------------------------------
\* _FunctionState and CheckForFunctionLengths()

Capitals == {"TEST", "TEST_F", "MACRO", "API", "CHECK", "DCHECK", "FOO_H"}
Tests == {"TEST", "TEST_F", "TestIt"}
NoFunction == [in_a_function |-> FALSE, lines_in_function |-> 0, current_function |-> ""]

\* decls* & space::name( at the start of a line
DeclarationHead == <<Word, Not0(Punctuation \ {"::", "*", "&", "&&", " ", "\t"}), T("(")>>
NameOf(line) == Last(RStrip(SubSeq(line, 1, Find(line, "(") - 1)))
StartsFunction(line) ==
  Match(DeclarationHead, line) /\ (NameOf(line) \notin Capitals \/ NameOf(line) \in {"TEST", "TEST_F"})

\* The first line from n on with a brace, or with what only a declaration has
BodyLine(clean, n) ==
  {m \in DOMAIN clean.lines : m >= n /\ Search(<<One({";", "}", "{"})>>, clean.lines[m])}
HasBody(clean, n) ==
  LET line == clean.lines[Min(BodyLine(clean, n))] IN ~Has(line, ";") /\ ~Has(line, "}")

\* Mutant: the lines of the function before are kept.
Begin_KeepsCount(state, name) == [state EXCEPT !.in_a_function = TRUE, !.current_function = name]
Begin(state, name) == [in_a_function |-> TRUE, lines_in_function |-> 0, current_function |-> name]
CountOn(state) == [state EXCEPT !.lines_in_function = IF state.in_a_function THEN @ + 1 ELSE @]
EndOf(state) == [state EXCEPT !.in_a_function = FALSE]

FloorLog2(k) == Max({e \in 0..k : 2^e <= k})
BaseTrigger(state) == IF state.current_function \in Tests THEN TEST_TRIGGER ELSE NORMAL_TRIGGER
Trigger(state, verbose) == BaseTrigger(state) * 2^verbose
Check(state, verbose, n) ==
  When(state.lines_in_function > Trigger(state, verbose), n, readability("fn_size"),
       Min({5, FloorLog2(state.lines_in_function \div BaseTrigger(state))}))

\* The function state when line n was looked at, and the errors.  A brace in the
\* first column ends a function; blank lines and comments do not count.
CheckForFunctionLengths(clean, n, state, verbose) ==
  LET line == clean.lines[n]
      to(s, errors) == [state |-> s, errors |-> errors]
  IN  IF StartsFunction(line)
      THEN IF BodyLine(clean, n) = {} THEN to(state, When(TRUE, n, readability("fn_size"), 5))
           ELSE IF HasBody(clean, n) THEN to(Begin(state, NameOf(line)), <<>>) ELSE to(state, <<>>)
      ELSE IF Match(<<T("}"), S0, End>>, line) THEN to(EndOf(state), Check(state, verbose, n))
      ELSE IF ~IsBlankLine(line) THEN to(CountOn(state), <<>>)
      ELSE to(state, <<>>)

-----------------------------------------------------------------------------
\* _ClassState and CheckForNonStandardConstructs()

ClassHead == <<One({"class", "struct"}), S1, Word>>
TemplateHead == <<S0, T("template"), S0, T("<"), Not0(Punctuation \ {" ", "<", ">", ",", ":", "::"}), T(">"), S0>>
ClassKey(line) ==
  {i \in DOMAIN line : /\ Match(ClassHead, From(line, i))
                       /\ IsBlankLine(SubSeq(line, 1, i - 1)) \/ (i - 1) \in {e - 1 : e \in Ends(TemplateHead, line, 1)}}
\* The words in capitals before the name are macros that decorate the class.
ClassName(line) ==
  LET words == {i \in DOMAIN line : i > Min(ClassKey(line)) /\ IsWord(line[i])}
      decorates(i) == line[i] \in Capitals /\ Match(<<S1, Word>>, From(line, i + 1))
  IN  line[Min({i \in words : ~decorates(i)})]

\* The first line from n on up to which as many braces close as open
LastLine(clean, n) ==
  LET depth(m) == FoldFunction(+, 0, [k \in n..m |-> Count(clean.lines[k], "{") - Count(clean.lines[k], "}")])
      ends == {m \in DOMAIN clean.lines : m >= n /\ depth(m) = 0}
  IN  IF ends = {} THEN 0 ELSE Min(ends)

ClassInfo(name, clean, n) ==
  [name |-> name, line |-> n, seen_open_brace |-> FALSE, is_derived |-> FALSE,
   virtual_method |-> 0, has_virtual_destructor |-> FALSE, brace_depth |-> 0,
   last_line |-> LastLine(clean, n)]

CheckFinished(stack) ==
  IF stack = <<>> THEN <<>> ELSE When(TRUE, stack[1].line, build("class"), 5)

\* The constructs that only the text of the line tells
NonStandard(clean, n) ==
  LET text == clean.lines[n]
      line == clean.elided[n]
      printf == <<One({"printf", "snprintf", "sprintf"}), S0, T("("), AnyText, T("\""), AnyText>>
      types == {"const", "volatile", "void", "char", "short", "int", "long", "float", "double", "signed",
                "unsigned"}
      classes == {"auto", "register", "static", "extern", "typedef"}
  IN  When(Search(Append(printf, T("%q")), text), n, <<"runtime", "printf", "_format">>, 3)
      \o When(Search(Append(printf, T("%1$")), text), n, <<"runtime", "printf", "_format">>, 2)
      \o When(Search(<<One({"\"", "''", "'.'"}), AnyText, T("\\%")>>, text), n, build("printf_format"), 3)
      \o When(Search(<<One(types), S1, One(classes)>>, line), n, build("storage_class"), 5)
      \o When(Match(<<S0, T("#endif"), S0, No(Blank \cup {"/", "//", "/*", "*/"})>>, line),
              n, build("endif_comment"), 5)
      \o When(Match(<<S0, T("class"), S1, Word, S0, T("::"), Not0(Punctuation \ {" ", "::"}), Word, S0, T(";")>>, line),
              n, build("forward_decl"), 5)
      \o When(Search(<<Word, S0, One({"<", ">"}), T("?"), Opt({"="}), S0, Word>>, line), n, build("deprecated"), 3)
      \o When(Match(<<S0, T("const"), S0, T("string"), S0, T("&"), S0, Word, S0, T(";")>>, line),
              n, runtime("member_string_references"), 2)

SingleArgument(line, name) ==
  LET arguments == Element(FALSE, {",", "(", ")"}, 1, Many)
      constructor(tail) == \E inline \in {<<>>, <<T("inline"), S1>>} :
                             Match(<<S1>> \o inline \o <<T(name), S0, T("(")>> \o tail, line)
      template == <<T("<"), Word, T(">"), S0>>
  IN  /\ constructor(<<arguments, T(")")>>) /\ ~constructor(<<T("void"), T(")")>>)
      /\ ~\E const \in {<<>>, <<T("const"), S1>>}, args \in {<<>>, template} :
            constructor(<<S0>> \o const \o <<T(name), S0>> \o args \o <<T("&"), arguments, T(")")>>)

\* The class at the top of the stack, once its head was looked for a brace
Opened1(class, line) ==
  [class EXCEPT !.seen_open_brace = Has(line, "{"), !.is_derived = @ \/ Has(line, ":")]

\* Inside a class: its methods, and its end
Body(clean, n, stack, class) ==
  LET line == clean.elided[n]
      isVirtual == Has(line, "virtual")
      seen == [class EXCEPT !.virtual_method = IF isVirtual THEN n ELSE @,
                            !.has_virtual_destructor =
                               @ \/ (isVirtual /\ Search(<<T("~"), T(class.name), S0, T("(")>>, line)),
                            !.brace_depth = @ + Count(line, "{") - Count(line, "}")]
      explicit == When(SingleArgument(line, class.name), n, runtime("explicit"), 5)
  IN  IF seen.brace_depth > 0
      THEN [stack |-> Append(Front(stack), seen), errors |-> explicit]
      ELSE [stack |-> Front(stack),
            errors |-> explicit
                       \o When(seen.virtual_method # 0 /\ ~seen.has_virtual_destructor /\ ~seen.is_derived,
                               seen.line, runtime("virtual"), 4)]

\* Mutant: a declaration stays on the stack until its brace comes.
IsDeclaration_Never(line) == FALSE
\* A class before whose brace a ; comes is declared only.
IsDeclaration(line) == Has(line, ";")
InClass(clean, n, stack) ==
  LET line == clean.elided[n]
      inHead == ~Last(stack).seen_open_brace
      class == IF inHead THEN Opened1(Last(stack), line) ELSE Last(stack)
  IN  IF stack = <<>> THEN [stack |-> stack, errors |-> <<>>]
      ELSE IF inHead /\ IsDeclaration(line) THEN [stack |-> Front(stack), errors |-> <<>>]
      ELSE IF inHead /\ ~Has(line, "{") THEN [stack |-> Append(Front(stack), class), errors |-> <<>>]
      ELSE Body(clean, n, stack, class)

\* The stack of the classes that line n leaves open, and the errors
CheckForNonStandardConstructs(clean, n, classinfo_stack) ==
  LET line == clean.elided[n]
      stack == IF ClassKey(line) = {} THEN classinfo_stack
               ELSE Append(classinfo_stack, ClassInfo(ClassName(line), clean, n))
  IN  [InClass(clean, n, stack) EXCEPT !.errors = NonStandard(clean, n) \o @]
=============================================================================
