------------------------------ MODULE LintRules -----------------------------
\* The rules of clint.py about the form of a file and of its lines: what they
\* report for the cleansed copies of the lines and a line number.
EXTENDS LintState

CONSTANTS
  SMALL_CLASS,   \* the lines up to which a class needs no blank lines in it (24)
  LINE_LENGTH    \* the width a line may have (100)

\* A file has a name, of parts; its guard is the name of the variable for it.
LongWord == "a_very_long_name"
Numbers == {"0", "1", "2", "10", "200"}
Control == {"if", "for", "while", "switch"}
Access == {"public", "protected", "private"}
\* The tokens that end, or begin, with one of < > = !
EndsInOperator == {"<", ">", "<<", ">>", "=", "==", "!=", "<=", ">=", "!", "->"}
BeginsWithOperator == {"<", ">", "<<", ">>", "=", "==", "!=", "<=", ">=", "!"}

-----------------------------------------------------------------------------
\* The whole file

CheckForCopyright(lines) ==
  When(~\E n \in 1..Min({10, NumLines(lines) - 1}) : Has(lines[n], "Copyright"),
       0, <<"legal", "copyright">>, 5)

\* The word behind a directive that stands at the start of a line
HasDirective(l, d) == Match(<<S0, T(d), S1, No(Blank)>>, l)
Argument(l) ==
  LET rest == LStrip(Tail(LStrip(l)))
  IN  SubSeq(rest, 1, Min({i \in DOMAIN rest : rest[i] \in Blank} \cup {Len(rest) + 1}) - 1)
First(lines, d) ==
  LET s == {n \in DOMAIN lines : HasDirective(lines[n], d)}
  IN  IF s = {} THEN <<>> ELSE Argument(lines[Min(s)])

EndifOf(var) == <<"#endif", " ", " ", "//", " ">> \o var
\* The variable with one more _, for which there is backward compatibility
Underscored(var) == IF var = <<"FOO_H">> THEN <<"FOO_H_">> ELSE <<"no such name">>

\* Any name is taken for the guard, as long as #ifndef, #define and the comment of
\* the last #endif name the same.  The NOLINT comment on the line of the #endif is
\* parsed here, since the lines themselves come later.
CheckForHeaderGuard(lines) ==
  LET ifndef == First(lines, "#ifndef")
      define == First(lines, "#define")
      endifs == {n \in DOMAIN lines : lines[n] # <<>> /\ lines[n][1] = "#endif"}
      last == Max({0} \cup endifs)
      named(var) == endifs # {} /\ lines[last] = EndifOf(var)
      missing == [errors |-> <<Error(0, build("header_guard"), 5)>>, nolint |-> -1]
  IN  IF ifndef = <<>> \/ define = <<>> \/ define # ifndef THEN missing
      ELSE IF named(ifndef) THEN [errors |-> <<>>, nolint |-> -1]
      ELSE [errors |-> <<Error(last, build("header_guard"), IF named(Underscored(ifndef)) THEN 0 ELSE 5)>>,
            nolint |-> last]

RECURSIVE Concatenated(_, _, _)
Concatenated(f, from, to) == IF from > to THEN <<>> ELSE f[from] \o Concatenated(f, from + 1, to)
\* The errors of a rule for every line, in the order of the lines
ForLines(f) == Concatenated(f, 0, Cardinality(DOMAIN f) - 1)

CheckForUnicodeReplacementCharacters(lines) ==
  ForLines([n \in DOMAIN lines |-> When(Has(lines[n], "fffd"), n, readability("utf8"), 5)])

CheckForNewlineAtEOF(lines) ==
  LET n == NumLines(lines)
  IN  When(n < 3 \/ lines[n - 2] # <<>>, n - 2, whitespace("ending_newline"), 5)

-----------------------------------------------------------------------------
\* Single lines

CheckForMultilineCommentsAndStrings(clean, n) ==
  LET line == SelectSeq(clean.elided[n], LAMBDA t : t # "\\\\")
  IN  When(Count(line, "/*") > Count(line, "*/"), n, readability("multiline_comment"), 5)
      \o When(Count(line, "\"") % 2 = 1, n, readability("multiline_string"), 5)

threading_list ==
  {"asctime", "ctime", "getgrgid", "getgrnam", "getlogin", "getpwnam", "getpwuid", "gmtime",
   "localtime", "rand", "readdir", "strtok", "ttyname"}

\* The first call of each function counts; a name behind a . or a -> is a method.
CheckPosixThreading(clean, n) ==
  LET line == clean.elided[n]
      calls(f) == {i \in 1..(Len(line) - 1) : line[i] = f /\ line[i + 1] = "("}
      bare(f) == calls(f) # {} /\ (Min(calls(f)) = 1 \/ line[Min(calls(f)) - 1] \notin {".", ">", "->", ">>"})
      told == {f \in ToSet(line) \cap threading_list : bare(f)}
  IN  [i \in 1..Cardinality(told) |-> Error(n, runtime("threadsafe_fn"), 2)]

CheckInvalidIncrement(clean, n) ==
  When(Match(<<S0, T("*"), Word, One({"++", "--"}), T(";")>>, clean.elided[n]),
       n, runtime("invalid_increment"), 5)

CheckMakePairUsesDeduction(clean, n) ==
  When(Search(<<T("make_pair"), S0, T("<")>>, clean.raw[n]), n, build("explicit_make_pair"), 4)

\* TODO(name): and a blank
CheckComment(comment, n) ==
  LET lead == Min({i \in 2..Len(comment) : comment[i] \notin Blank} \cup {Len(comment) + 1}) - 2
      todo == lead + 2
      isTodo == todo <= Len(comment) /\ comment[todo] \in {"TODO", "TODO(name)"}
      next == IF todo < Len(comment) /\ comment[todo + 1] = ":" THEN todo + 2 ELSE todo + 1
  IN  IF ~isTodo THEN <<>>
      ELSE When(lead > 1, n, whitespace("todo"), 2)
           \o When(comment[todo] = "TODO", n, readability("todo"), 2)
           \o When(next <= Len(comment) /\ comment[next] # " ", n, whitespace("todo"), 2)

-----------------------------------------------------------------------------
\* CheckSpacing()

\* A block that was opened on the line before, unless that is the last line of the
\* parameters of a function or of the initializers of a constructor
InitializerLine(l) == Match(<<Spaces(6), Word>>, l)
OpensBlock(clean, n) ==
  LET prev == clean.elided[n - 1]
      brace == RFind(prev, "{")
      above == {m \in 0..(n - 2) : ~InitializerLine(clean.elided[m])}
      lastParameters ==
        \/ \E tail \in {<<T("{"), S0, End>>, <<T(":")>>} :
             Match(<<Spaces(4), Word, Not0({"("}), T(")"), S0, Opt({"const"}), S0>> \o tail, prev)
        \/ Match(<<Spaces(4), T(":")>>, prev)
      exception ==
        IF InitializerLine(prev)
        THEN above # {} /\ Match(<<Spaces(4), T(":")>>, clean.elided[Max(above)])
        ELSE lastParameters
  IN  /\ brace # 0 /\ ~Has(From(prev, brace), "}") /\ ~Has(SubSeq(prev, 1, brace - 1), "namespace")
      /\ ~exception

CheckBlankLine(clean, n) ==
  LET prev == clean.elided[n - 1]
      next == IF n + 1 < NumLines(clean.raw) THEN clean.raw[n + 1] ELSE <<>>
      closesBlock ==
        /\ Match(<<S0, T("}")>>, next) /\ ~Has(next, "namespace")
        /\ ~Search(<<T("}"), T(" "), T("else"), T(" ")>>, next)
  IN  IF ~IsBlankLine(clean.raw[n]) THEN <<>>
      ELSE When(OpensBlock(clean, n), n, whitespace("blank_line"), 2)
           \o When(closesBlock, n, whitespace("blank_line"), 3)
           \o When(Match(<<S0, One(Access), T(":")>>, prev), n, whitespace("blank_line"), 3)

\* Two blanks before a comment, one after a brace that opens a scope, and one
\* blank in it
CheckCommentSpacing(clean, n) ==
  LET line == clean.raw[n]
      c == Find(line, "//")
      tooNear == /\ ~Match(<<S0, T("{"), T(" "), T("//")>>, line)
                 /\ \/ c > 1 /\ line[c - 1] \notin Blank
                    \/ c > 2 /\ line[c - 2] \notin Blank
      text == From(line, c + 1)
      delimiter == \/ Search(<<T("----"), S0, End>>, text) \/ text = <<"/">>
                   \/ Match(<<T("/"), Star({"/"}), T(" ")>>, text)
  IN  IF c = 0 \/ IsCppString(line, c - 1) THEN <<>>
      ELSE When(tooNear, n, whitespace("comments"), 2)
           \o When(text # <<>> /\ text[1] # " " /\ ~delimiter, n, whitespace("comments"), 4)
           \o CheckComment(From(line, c), n)

\* The operator of an operator method is not looked at.
WithoutOperatorNames(l) ==
  Kept(l, {i \in DOMAIN l : ~(/\ i > 1 /\ i < Len(l) /\ l[i - 1] = "operator" /\ l[i + 1] = "("
                              /\ l[i] \in {"==", "!=", "<", "<<", "<=", ">=", ">>", ">"})})

CheckOperatorSpacing(line, n) ==
  LET wordOrDot == No(Punctuation \ {"."})
      before == No(Blank \cup EndsInOperator)
      after == No(Blank \cup BeginsWithOperator)
      crowded == \/ Search(<<before, One({"==", "!=", "<=", ">="}), after>>, line)
                 \/ /\ ~Search(<<T("<"), Not0({"<", "<<", "<="}), T(","), S0, End>>, line)
                    /\ Search(<<before, T("<"), after, Not0({">", ">>", ">="}), End>>, line)
      unary == \/ Search(<<One({"!", "~"}), One(Blank)>>, line)
               \/ Search(<<One(Blank), One({"--", "++"}), One(Blank \cup {";"})>>, line)
  IN  When(/\ Search(<<wordOrDot, T("="), wordOrDot>>, line)
           /\ ~Search(<<One({"if", "while"}), T(" ")>>, line), n, whitespace("operators"), 4)
      \o When(crowded, n, whitespace("operators"), 3)
      \o When(Search(<<No(Blank \cup Numbers), One({"<<", ">>"}), No(Blank \cup Numbers)>>, line),
              n, whitespace("operators"), 3)
      \o When(unary, n, whitespace("operators"), 4)

\* The blanks behind the parenthesis at open and before the last one
BlanksInParens(line, open, n) ==
  LET close == RFind(line, ")")
      first == Min({j \in DOMAIN line : j > open /\ line[j] # " "})
      left == first - open - 1
      right == close - Max({j \in 1..(close - 1) : line[j] # " "}) - 1
      allowed == \/ line[first] = ";" /\ left = 1 + right
                 \/ left = 0 /\ Search(<<T("for"), S0, T("("), AnyText, T(";"), T(" "), T(")")>>, line)
  IN  When(left # right /\ ~allowed, n, whitespace("parens"), 5)
      \o When(left \notin {0, 1}, n, whitespace("parens"), 5)

\* The blanks inside the parentheses of if, for, while and switch
CheckControlParens(line, n) ==
  LET head == {i \in DOMAIN line :
                 /\ line[i] \in Control
                 /\ Match(<<One(Control), S0, T("("), S0, No(Blank), AnyText, T(")"), S0, T("{"), S0, End>>,
                          From(line, i))}
  IN  When(Search(<<T(" "), One(Control), T("(")>>, line), n, whitespace("parens"), 5)
      \o (IF head = {} THEN <<>>
          ELSE BlanksInParens(line, Min({j \in DOMAIN line : j > Min(head) /\ line[j] = "("}), n))

\* What stands between the parentheses of the first control structure there is,
\* or the line
FunctionCallText(line) ==
  LET closes(w) == <<T(")"), S0, One(IF w = "while" THEN {"{", ";"} ELSE {"{"})>>
      heads(w) == {i \in DOMAIN line : Match(<<T(w), S0, T("("), AnyText>> \o closes(w), From(line, i))}
      inside(w) ==
        LET open == Min({j \in DOMAIN line : j > Min(heads(w)) /\ line[j] = "("})
        IN  SubSeq(line, open + 1,
                   Max({k \in DOMAIN line : k > open /\ Match(closes(w), From(line, k))}) - 1)
      controls == <<"if", "for", "while", "switch">>
      there == {k \in DOMAIN controls : heads(controls[k]) # {}}
  IN  IF there = {} THEN line ELSE inside(controls[Min(there)])

SpacingOfCall(fncall, n) ==
  LET arguments == <<T("("), Element(FALSE, {")"}, 1, Many), T(")")>>
      exempt ==
        \/ Search(<<One(Control \cup {"return", "delete"})>>, fncall)
        \/ \E tail \in {<<T(")")>>, <<T(","), End>>} :
             Search(<<T(" ")>> \o arguments \o <<T("("), Not0({")"})>> \o tail, fncall)
        \/ Search(<<T(" ")>> \o arguments \o <<T("["), Element(FALSE, {"]"}, 1, Many), T("]")>>, fncall)
      afterCall == SearchUnless(<<Word, S0, T("("), One(Blank)>>, <<S0, T("\\"), End>>, fncall)
      afterParen == \E i \in DOMAIN fncall : \E j \in Ends(<<T("("), S1>>, fncall, i) :
                      /\ Ends(<<S0, T("\\")>>, fncall, j) = {} /\ Ends(<<T("(")>>, fncall, j) = {}
  IN  IF exempt THEN <<>>
      ELSE (IF afterCall THEN When(TRUE, n, whitespace("parens"), 4)
            ELSE When(afterParen, n, whitespace("parens"), 2))
           \o When(/\ Search(<<Word, S1, T("(")>>, fncall)
                   /\ ~Search(<<One({"#define", "typedef"})>>, fncall), n, whitespace("parens"), 4)
           \o When(Search(<<No({")"}), S1, T(")"), S0, No(Blank \cup {"{"})>>, fncall),
                   n, whitespace("parens"), 2)
CheckSpacingForFunctionCall(line, n) == SpacingOfCall(FunctionCallText(line), n)

CheckPunctuation(line, n) ==
  When(Search(<<No({" ", "(", "{"}), T("{")>>, line), n, whitespace("braces"), 5)
  \o When(Search(<<T("}"), T("else")>>, line), n, whitespace("braces"), 5)
  \o When(Search(<<Word, S1, T("[")>>, line) /\ ~Search(<<T("delete"), S1, T("[")>>, line),
          n, whitespace("braces"), 5)
  \o When(\/ Search(<<One({":", "::"}), S0, T(";"), S0, End>>, line)
          \/ Match(<<S0, T(";"), S0, End>>, line)
          \/ Search(<<S1, T(";"), S0, End>>, line) /\ ~Has(line, "for"), n, whitespace("semicolon"), 5)

CheckSpacing(clean, n) ==
  LET line == WithoutOperatorNames(clean.elided[n])
  IN  CheckBlankLine(clean, n) \o CheckCommentSpacing(clean, n)
      \o CheckOperatorSpacing(line, n) \o CheckControlParens(line, n)
      \o When(Search(<<T(","), No(Blank)>>, line), n, whitespace("comma"), 3)
      \o When(Search(<<T(";"), No(Blank \cup {"}", ";", "\\", ")", "/", "/*", "*/"})>>, line),
              n, whitespace("semicolon"), 3)
      \o CheckSpacingForFunctionCall(line, n) \o CheckPunctuation(line, n)
=============================================================================
