------------------------------ MODULE LintText ------------------------------
\* The text clint.py works on, and how it takes comments and strings out of it.
\*
\* A line is a sequence of tokens: words, blanks, and the operators, quotes and
\* comment marks the rules look for.  A regular expression of the source is a
\* sequence of elements, each of which takes tokens of a set; what a search by
\* characters finds, one by tokens finds.  A word has at least two letters.
EXTENDS Integers, Sequences, FiniteSets, SequencesExt, FiniteSetsExt

Blank == {" ", "\t"}
Punctuation ==
  Blank \cup
  {"(", ")", "{", "}", "[", "]", ";", ",", ".", ":", "::", "=", "==", "!=", "<", ">", "<=", ">=",
   "<<", ">>", "++", "--", "+", "-", "*", "&", "&&", "||", "!", "~", "->", "?", "#", "#include",
   "#ifndef", "#define", "#endif", "\"", "\\\"", "\\", "\\%", "'.'", "''", "//", "/*", "*/", "/",
   "$", "----", "fffd", "%q", "%1$", "http://"}
IsWord(t) == t \notin Punctuation

-----------------------------------------------------------------------------
\* Regular expressions: an element takes from lo to hi tokens of a set, or of its
\* complement; an anchor takes none.

Element(in, s, lo, hi) == [in |-> in, of |-> s, lo |-> lo, hi |-> hi]
Many == 99
One(s) == Element(TRUE, s, 1, 1)
T(t) == One({t})
No(s) == Element(FALSE, s, 1, 1)
Word == No(Punctuation)
Star(s) == Element(TRUE, s, 0, Many)
Opt(s) == Element(TRUE, s, 0, 1)
Not0(s) == Element(FALSE, s, 0, Many)
S0 == Star(Blank)
S1 == Element(TRUE, Blank, 1, Many)
AnyText == Not0({})
End == Element(TRUE, {}, -1, -1)
Takes(e, t) == (t \in e.of) = e.in

\* Where a match of p that starts at i may end.
RECURSIVE Ends(_, _, _)
Ends(p, l, i) ==
  IF p = <<>> THEN {i}
  ELSE LET e == Head(p)
           stops(n) == n = e.hi \/ i + n > Len(l) \/ ~Takes(e, l[i + n])
           longest == CHOOSE n \in 0..(Len(l) + 1 - i) : stops(n) /\ \A k \in 0..(n - 1) : ~stops(k)
       IN  IF e.lo = -1 THEN (IF i > Len(l) THEN Ends(Tail(p), l, i) ELSE {})
           ELSE IF e.hi = 1 /\ e.lo = 1
           THEN IF i <= Len(l) /\ Takes(e, l[i]) THEN Ends(Tail(p), l, i + 1) ELSE {}
           ELSE UNION {Ends(Tail(p), l, i + n) : n \in e.lo..longest}

Match(p, l) == Ends(p, l, 1) # {}
Search(p, l) == \E i \in 1..(Len(l) + 1) : Ends(p, l, i) # {}

\* A match of p that is not followed by one of q (?!...)
SearchUnless(p, q, l) == \E i \in 1..Len(l) : \E j \in Ends(p, l, i) : Ends(q, l, j) = {}
Spaces(n) == Element(TRUE, {" "}, n, n)

Count(l, t) == Cardinality({i \in 1..Len(l) : l[i] = t})
Has(l, t) == \E i \in 1..Len(l) : l[i] = t
\* line.find() and line.rfind(), 0 when there is none
Find(l, t) == IF Has(l, t) THEN CHOOSE i \in 1..Len(l) : l[i] = t /\ \A j \in 1..(i - 1) : l[j] # t ELSE 0
RFind(l, t) == IF Has(l, t) THEN CHOOSE i \in 1..Len(l) : l[i] = t /\ \A j \in (i + 1)..Len(l) : l[j] # t ELSE 0
From(l, i) == SubSeq(l, i, Len(l))
IsBlankLine(l) == \A i \in 1..Len(l) : l[i] \in Blank

RECURSIVE RStrip(_)
RStrip(l) == IF l # <<>> /\ Last(l) \in Blank THEN RStrip(Front(l)) ELSE l
RECURSIVE LStrip(_)
LStrip(l) == IF l # <<>> /\ Head(l) \in Blank THEN LStrip(Tail(l)) ELSE l
Strip(l) == LStrip(RStrip(l))
\* The tokens of l at the positions in s
InOrder(s, n) == SelectSeq([i \in 1..n |-> i], LAMBDA i : i \in s)
Kept(l, s) == LET q == InOrder(s, Len(l)) IN [k \in 1..Len(q) |-> l[q[k]]]

-----------------------------------------------------------------------------
\* Lines are numbered as in the editor: line 0 is the marker ProcessFileData()
\* puts before them, and the last line is the marker it puts behind them.

Marker == <<"//", " ", "marker">>
Dummy == <<"//", " ", "dummy">>
NumLines(lines) == Cardinality(DOMAIN lines)

\* The line numbers from i on where a comment begins that goes beyond its line,
\* and where one ends: only */ at the end of a line ends it.
CommentStarts(lines, i) ==
  {n \in DOMAIN lines : n >= i /\ LET l == Strip(lines[n])
                                  IN  l # <<>> /\ l[1] = "/*" /\ ~Has(l, "*/")}
CommentEnds(lines, i) ==
  {n \in DOMAIN lines : n >= i /\ LET l == Strip(lines[n]) IN l # <<>> /\ Last(l) = "*/"}

RemoveMultiLineCommentsFromRange(lines, begin, end) ==
  [n \in DOMAIN lines |-> IF n \in begin..(end - 1) THEN Dummy ELSE lines[n]]

\* The lines without the comments of several lines, and the line number that is
\* reported for one that does not end, or 0.
RECURSIVE RemoveMultiLineComments(_, _)
RemoveMultiLineComments(lines, i) ==
  IF CommentStarts(lines, i) = {} THEN [lines |-> lines, unended |-> 0]
  ELSE LET begin == Min(CommentStarts(lines, i))
           ends == CommentEnds(lines, begin)
       IN  IF ends = {} THEN [lines |-> lines, unended |-> begin + 1]
           ELSE RemoveMultiLineComments(
                  RemoveMultiLineCommentsFromRange(lines, begin, Min(ends) + 1), Min(ends) + 1)

\* Is what follows the first n tokens inside a string?
IsCppString(l, n) == Cardinality({i \in 1..n : l[i] = "\""}) % 2 = 1

\* The first /* ... */ goes to the last */ of the line.  The blanks on both
\* sides go with it at the end of the line; elsewhere those before it go if no word
\* follows, or else those behind it.
RECURSIVE WithoutCComments(_)
WithoutCComments(l) ==
  LET open == Find(l, "/*")
      closes == {i \in 1..Len(l) : i > open /\ l[i] = "*/"}
      first == 1 + Max({0} \cup {i \in 1..(open - 1) : l[i] \notin Blank})
      behind(c) == Min({i \in (c + 1)..Len(l) : l[i] \notin Blank} \cup {Len(l) + 1})
      atNonWord == {c \in closes : c < Len(l) /\ ~IsWord(l[c + 1])}
  IN  IF open = 0 \/ closes = {} THEN l
      ELSE IF behind(Max(closes)) > Len(l) THEN SubSeq(l, 1, first - 1)
      ELSE IF first < open /\ atNonWord # {}
      THEN WithoutCComments(SubSeq(l, 1, first - 1) \o From(l, Max(atNonWord) + 1))
      ELSE LET c == IF \E d \in closes : behind(d) > d + 1
                    THEN Max({d \in closes : behind(d) > d + 1}) ELSE Max(closes)
           IN  WithoutCComments(SubSeq(l, 1, open - 1) \o From(l, behind(c)))

\* The line without its // comment, unless the first // of it is in a string, and
\* without /* ... */.
CleanseComments(l) ==
  LET c == Find(l, "//")
  IN  WithoutCComments(IF c # 0 /\ ~IsCppString(l, c - 1) THEN RStrip(SubSeq(l, 1, c - 1)) ELSE l)

IncludePattern(bracket) == <<S0, T("#include"), S0, T(bracket), Not0({"\"", ">"}), One({"\"", ">"})>>
IsInclude(l) == Match(IncludePattern("<"), l) \/ Match(IncludePattern("\""), l)

\* The line with its strings and characters empty; #include lines keep theirs.
CollapseStrings(l) ==
  IF IsInclude(l) THEN l
  ELSE LET u == SelectSeq(l, LAMBDA t : t \notin {"\\\"", "\\\\"})
           quotes == {i \in 1..Len(u) : u[i] = "\""}
           inside(i) == IsCppString(u, i) /\ u[i] # "\"" /\ \E q \in quotes : q > i
           kept == Kept(u, {i \in 1..Len(u) : ~inside(i)})
       IN  [i \in DOMAIN kept |-> IF kept[i] = "'.'" THEN "''" ELSE kept[i]]

\* The copies of the lines: as they are (without the comments of several lines),
\* without comments, and without comments and strings.
CleansedLines(raw) ==
  [raw |-> raw,
   lines |-> [n \in DOMAIN raw |-> CleanseComments(raw[n])],
   elided |-> [n \in DOMAIN raw |-> CleanseComments(CollapseStrings(raw[n]))]]

\* The line number of the last line before n that is not blank, or -1
PreviousNonBlank(clean, n) ==
  Max({-1} \cup {m \in DOMAIN clean.elided : m < n /\ ~IsBlankLine(clean.elided[m])})
GetPreviousNonBlankLine(clean, n) ==
  IF PreviousNonBlank(clean, n) = -1 THEN <<>> ELSE clean.elided[PreviousNonBlank(clean, n)]

\* What follows the last ) of the line where as many ( as ) have come; nothing if
\* more ) than ( have, and Unclosed if the lines end first (the next line is read
\* all the same, and the program ends with an exception).
Unclosed == <<"IndexError">>
Opened(clean, n, m) ==
  FoldFunction(+, 0, [k \in n..m |-> Count(clean.elided[k], "(") - Count(clean.elided[k], ")")])
CloseExpression(clean, n) ==
  LET closed == {m \in DOMAIN clean.elided : m >= n /\ Opened(clean, n, m) <= 0}
      line == clean.elided[Min(closed)]
  IN  IF closed = {} THEN Unclosed
      ELSE IF Opened(clean, n, Min(closed)) < 0 THEN <<>>
      ELSE From(line, RFind(line, ")") + 1)
=============================================================================
