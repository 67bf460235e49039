---------------------------- MODULE LintLanguage ----------------------------
\* The rules of clint.py about the language: the includes of a file, the calls and
\* declarations that are frowned upon, and the headers that what is used needs.
EXTENDS LintBlocks, IncludeState

-----------------------------------------------------------------------------
\* A path has a directory, from the root of the repository, a name in parts that a
\* _ or a - joins, and an extension.

PathOf(dir, base, ext) == [dir |-> dir, base |-> base, ext |-> ext]
\* The names that #include lines give, and the paths they stand for
HeaderPath == [h \in {"string", "vector", "map", "algorithm"} |-> PathOf(<<>>, <<h>>, "")]
         @@ "stdio.h" :> PathOf(<<>>, <<"stdio">>, "h") @@ "zlib.h" :> PathOf(<<>>, <<"zlib">>, "h")
         @@ "iostream" :> PathOf(<<>>, <<"iostream">>, "")
         @@ "foo.h" :> PathOf(<<>>, <<"foo">>, "h") @@ "foo-inl.h" :> PathOf(<<>>, <<"foo", "inl">>, "h")
         @@ "foo_more.h" :> PathOf(<<>>, <<"foo", "more">>, "h")
         @@ "lib/foo.h" :> PathOf(<<"lib">>, <<"foo">>, "h")
         @@ "public/foo.h" :> PathOf(<<"public">>, <<"foo">>, "h")
         @@ "lib/bar.h" :> PathOf(<<"lib">>, <<"bar">>, "h") @@ "bar.h" :> PathOf(<<>>, <<"bar">>, "h")
STL_HEADERS == {"string", "vector", "map", "algorithm"}
CPP_HEADERS == {"iostream"}
Streams == {"iostream"}
\* The names in the order of the alphabet, with -inl left out and _ for -
Alphabet == <<{"algorithm"}, {"bar.h"}, {"foo.h", "foo-inl.h"}, {"foo_more.h"}, {"iostream"}, {"lib/bar.h"},
              {"lib/foo.h"}, {"map"}, {"public/foo.h"}, {"stdio.h"}, {"string"}, {"vector"}, {"zlib.h"}>>
CanonicalizeAlphabeticalOrder(h) == CHOOSE i \in DOMAIN Alphabet : h \in Alphabet[i]

DropCommonSuffixes(path) ==
  LET suffixes == IF path.ext = "c" THEN {"test", "regtest", "unittest"}
                  ELSE IF path.ext = "h" THEN {"inl", "impl", "internal"} ELSE {}
  IN  IF Len(path.base) > 1 /\ Last(path.base) \in suffixes THEN Front(path.base) ELSE path.base

IsTestFilename(path) ==
  path.ext = "c" /\ Len(path.base) > 1 /\ Last(path.base) \in {"test", "unittest", "regtest"}

\* dir/../public
Public(dir) == IF dir = <<>> THEN <<"/", "public">> ELSE Append(Front(dir), "public")

ClassifyInclude(target, h, is_system) ==
  LET path == HeaderPath[h]
  IN  IF is_system
      THEN IF h \in STL_HEADERS \cup CPP_HEADERS THEN CPP_SYS_HEADER ELSE C_SYS_HEADER
      ELSE IF /\ DropCommonSuffixes(target) = DropCommonSuffixes(path)
              /\ path.dir \in {target.dir, Public(target.dir)} THEN LIKELY_MY_HEADER
      ELSE IF Head(target.base) = Head(path.base) THEN POSSIBLE_MY_HEADER
      ELSE OTHER_HEADER

\* The header an #include line names, and the quote before it
IncludedBy(line) ==
  LET q == Min({i \in DOMAIN line : line[i] \in {"<", "\""}})
  IN  [header |-> line[q + 1], is_system |-> line[q] = "<"]

\* _IncludeState: the lines of the headers, their kinds and places as they came, and
\* how far the order has come
NoIncludes == [lines |-> <<>>, includes |-> <<>>, section |-> INITIAL_SECTION, last_header |-> 0]

\* Mutant: the last header of the section before is not forgotten.
Included_KeepsLast(state, h, n, type, place) ==
  [lines |-> (h :> n) @@ state.lines,
   includes |-> Append(state.includes, [type |-> type, place |-> place]),
   section |-> NextSection(type, state.section),
   last_header |-> IF IsInAlphabeticalOrder(place, state.last_header) THEN place ELSE state.last_header]
\* The state with a header that was not there before, which line n includes
Included(state, h, n, type, place) ==
  [lines |-> (h :> n) @@ state.lines,
   includes |-> Append(state.includes, [type |-> type, place |-> place]),
   section |-> NextSection(type, state.section),
   last_header |-> NextLast(type, state.section, state.last_header, place)]

\* The state of the includes after an #include line, and the errors
CheckIncludeLine(path, clean, n, state) ==
  LET line == clean.lines[n]
      h == IncludedBy(line).header
      isNew == h \notin DOMAIN state.lines
      type == ClassifyInclude(path, h, IncludedBy(line).is_system)
      place == CanonicalizeAlphabeticalOrder(h)
      last == LastBefore(type, state.section, state.last_header)
  IN  [state |-> IF isNew THEN Included(state, h, n, type, place) ELSE state,
       errors |->
         When(/\ Match(<<S0, T("#include"), Spaces(1), T("\"")>>, line)
              /\ HeaderPath[h].ext = "h" /\ HeaderPath[h].dir = <<>>, n, build("include"), 4)
         \o When(~isNew, n, build("include"), 4)
         \o When(isNew /\ OutOfOrder(type, state.section), n, include("_order"), 4)
         \o When(isNew /\ ~IsInAlphabeticalOrder(place, last), n, include("_alpha"), 4)
         \o When(h \in Streams /\ ~IsTestFilename(path), n, readability("streams"), 3)]

-----------------------------------------------------------------------------
\* CheckLanguage()

Opens == {"(", "{", "["}
Closing == [t \in Opens |-> IF t = "(" THEN ")" ELSE IF t = "{" THEN "}" ELSE "]"]
\* Where the bracket closes for which the closing ones on the stack are due from i
\* on, or 0 if another one closes before it or none does
RECURSIVE ClosedAt(_, _, _)
ClosedAt(l, i, stack) ==
  IF i > Len(l) THEN 0
  ELSE IF l[i] = Last(stack) THEN (IF Len(stack) = 1 THEN i ELSE ClosedAt(l, i + 1, Front(stack)))
  ELSE IF l[i] \in {")", "}", "]"} THEN 0
  ELSE ClosedAt(l, i + 1, IF l[i] \in Opens THEN Append(stack, Closing[l[i]]) ELSE stack)
\* What stands between the bracket at which the first match of start ends and the
\* one that closes it; nothing if there is none
GetTextInside(l, start) ==
  LET starts == {i \in DOMAIN l : Ends(start, l, i) # {}}
      open == Min(Ends(start, l, Min(starts))) - 1
      close == ClosedAt(l, open + 1, <<Closing[l[open]]>>)
  IN  IF starts = {} \/ close = 0 THEN <<>> ELSE SubSeq(l, open + 1, close - 1)

\* The parentheses of the line behind which, before the next one, p matches
Behind(line, p) ==
  {i \in DOMAIN line :
     /\ line[i] = "("
     /\ Search(p, SubSeq(line, i + 1, Min({j \in DOMAIN line : j > i /\ line[j] \in {"(", ")"}}
                                          \cup {Len(line) + 1}) - 1))}
\* A reference that is not const, on either side of its type
NonConstReference(line) ==
  LET fnline == SubSeq(line, 1, Min({i \in DOMAIN line : line[i] = "{"} \cup {Len(line) + 1}) - 1)
      name == <<Element(FALSE, Punctuation \ {"::", ":"}, 1, Many)>>
      types == {name, name \o <<T("<"), Not0({"<"}), T(">")>>}
      number(head, tail) ==
        Cardinality(UNION {Behind(fnline, head \o type \o tail \o ref) :
          type \in types, ref \in {<<Opt(Blank), T("&"), Word>>, <<T("&"), Opt(Blank), Word>>}})
      constBefore == <<T("const"), S1, Opt({"typename"}), S0, Opt({"struct"}), S0>>
      swaps == {<<One({"swap", "Swap"})>>, <<T("operator"), One({"<<", ">>"})>>}
  IN  /\ number(<<>>, <<>>) > number(constBefore, <<>>) + number(<<>>, <<S1, T("const")>>)
      /\ ~\E swap \in swaps : Search(swap \o <<S0, T("("), S0>> \o name \o <<S0, T("&")>>, fnline)

\* int(x), unless new comes before the first one
DeprecatedCast(line) ==
  LET types == {"int", "float", "double", "bool", "char", "int32", "uint32", "int64", "uint64"}
      casts == {i \in DOMAIN line : Match(<<One(types), T("("), No({")"})>>, From(line, i))}
  IN  /\ casts # {}
      /\ ~Search(<<T("new"), S1, End>>, SubSeq(line, 1, Min(casts) - 1))
      /\ ~\E mock \in {<<T("MOCK_METHOD"), T("(")>>, <<T("MockCallback"), T("<"), AnyText, T(">")>>} :
            Match(<<S0>> \o mock, line)

\* A string at the start of a line, that is no function
GlobalString(line) ==
  LET heads == {<<>>, <<T("static"), S1>>, <<T("const"), S1>>, <<T("static"), S1, T("const"), S1>>}
      name == <<T("string"), S1, Element(FALSE, Punctuation \ {":", "::"}, 1, Many)>>
      ends == UNION {Ends(head \o name, line, 1) : head \in heads}
      template == {<<>>, <<T("<"), AnyText, T(">")>>}
      method == {<<>>, <<T("::"), Word>>}
      isFunction(rest) ==
        \E t \in template, m \in method :
          \/ Match(<<S0>> \o t \o m \o <<S0, T("("), No({"\""})>>, rest)
          \/ Match(<<S0>> \o t \o m \o <<S0, T("("), End>>, rest)
  IN  ends # {} /\ ~isFunction(From(line, Max(ends)))

\* The C types short and long
ShortOrLong(line) ==
  IF Search(<<T("short"), T(" "), T("port")>>, line)
  THEN ~Search(<<T("unsigned"), T(" "), T("short"), T(" "), T("port")>>, line)
  ELSE \/ Search(<<T("short")>>, line)
       \/ SearchUnless(<<T("long")>>, <<Element(TRUE, {" "}, 1, Many), T("double")>>, line)

\* A length that is no constant of the compiler.  The pieces between blanks and
\* operators count; the one behind a piece that begins with sizeof does not.
Constants == Numbers \cup {"kSize", "SIZE"}
Pieces(text) ==
  LET cuts == {Len(text) + 1} \cup {i \in DOMAIN text : text[i] \in Blank \cup {"+", "-", "*", "/"}}
      q == <<0>> \o InOrder(cuts, Len(text) + 1)
  IN  [k \in 1..(Len(q) - 1) |-> SubSeq(text, q[k] + 1, q[k + 1] - 1)]
RECURSIVE IsConstant(_)
IsConstant(pieces) ==
  IF pieces = <<>> THEN TRUE
  ELSE LET piece == Head(pieces)
           bare == SelectSeq(piece, LAMBDA t : t \notin {"(", ")"})
       IN  IF \/ Search(<<T("sizeof"), T("("), Element(FALSE, {}, 1, Many), T(")")>>, piece)
              \/ Search(<<T("arraysize"), T("("), Word, T(")")>>, piece)
              \/ bare = <<>> \/ bare[1] \in Constants \/ Search(<<T("::"), One(Constants)>>, bare)
           THEN IsConstant(Tail(pieces))
           ELSE bare[1] = "sizeof" /\ (Len(pieces) = 1 \/ IsConstant(Tail(Tail(pieces))))
VariableLengthArray(line) ==
  LET declares == <<Word, T(" "), Word, T("[")>>
      ends == UNION {Ends(<<S0>> \o scope \o declares, line, 1) :
                       scope \in {<<>>, <<Word, T("::")>>, <<Word, T("::"), Word, T("::")>>}}
      text == SubSeq(line, Max(ends), RFind(line, "]") - 1)
  IN  /\ ends # {} /\ line[Max(ends) - 4] \notin {"return", "delete"}
      /\ text # <<>> /\ ~Has(text, "]") /\ Match(<<T("]"), T(";")>>, From(line, RFind(line, "]")))
      /\ ~IsConstant(Pieces(text))

\* The rules about casts, types and declarations
CheckDeclarations(path, line, n) ==
  When(NonConstReference(line), n, runtime("references"), 2)
  \o When(DeprecatedCast(line), n, readability("casting"), 4)
  \o When(\/ Search(<<T("&"), T("("), Element(FALSE, {")"}, 1, Many), T(")"), No(Punctuation \ {"("})>>, line)
          \/ Search(<<T("&"), One({"static_cast", "dynamic_cast", "reinterpret_cast"})>>, line),
          n, runtime("casting"), 4)
  \o When(GlobalString(line), n, runtime("string"), 4)
  \o When(Search(<<T("dynamic_cast"), T("<")>>, line) /\ ~IsTestFilename(path), n, runtime("rtti"), 5)
  \o When(\E member \in {"x_", "y_"} : Search(<<T(member), T("("), T(member), T(")")>>, line),
          n, runtime("init"), 4)
  \o When(ShortOrLong(line), n, runtime("int"), 4)

\* The rules about calls
CheckCalls(line, n) ==
  LET arguments == GetTextInside(line, <<One({"printf", "stringprintf"}), S0, T("(")>>)
      memset == <<T("memset"), S0, T("("), Not0({","}), T(","), S0>>
      swapped(head) == Search(memset \o head \o <<Not0({","}), T(","), S0, T("0"), S0, T(")")>>, line)
  IN  When(Search(<<T("snprintf"), S0, T("("), Not0({","}), T(","), S0, Opt(Numbers \ {"0"}), S0, T(",")>>, line),
           n, runtime("printf"), 3)
      \o When(Has(line, "sprintf"), n, runtime("printf"), 5)
      \o When(Has(line, "strcpy") \/ Has(line, "strcat"), n, runtime("printf"), 4)
      \o When(Has(line, "sscanf"), n, runtime("printf"), 1)
      \o When(Search(<<T("operator"), S0, T("&"), S0, T("("), S0, T(")")>>, line), n, runtime("operator"), 4)
      \o When(Search(<<T("}"), S0, T("if"), S0, T("(")>>, line), n, readability("braces"), 4)
      \o When(/\ arguments # <<>>
              /\ \A i \in DOMAIN arguments : IsWord(arguments[i]) \/ arguments[i] \in {".", "->", "-", ">", "(", ")"},
              n, runtime("printf"), 4)
      \o When(swapped(<<No(Numbers \cup {"''", "-", ","})>>), n, runtime("memset"), 4)

\* The rules about namespaces, arrays and the last declaration of a class
CheckScopes(path, clean, n) ==
  LET line == clean.elided[n]
      disallows == {"DISALLOW_COPY_AND_ASSIGN", "DISALLOW_EVIL_CONSTRUCTORS", "DISALLOW_IMPLICIT_CONSTRUCTORS"}
  IN  When(Search(<<T("using"), T(" "), T("namespace")>>, line), n, build("namespaces"), 5)
      \o When(VariableLengthArray(line), n, runtime("arrays"), 1)
      \o When(/\ Match(<<S0, One(disallows), T("("), AnyText, T(")"), T(";"), End>>, line)
              /\ n + 1 < NumLines(clean.raw)
              /\ ~Match(<<S0, T("}"), Not0(Punctuation \ ({"*", ","} \cup Blank)), T(";")>>, clean.elided[n + 1]),
              n, readability("constructors"), 3)
      \o When(/\ path.ext = "h" /\ Search(<<T("namespace"), S0, T("{")>>, line) /\ Last(line) # "\\",
              n, build("namespaces"), 4)

\* CheckCStyleCast() returns before it looks at anything.
CheckLanguage(path, clean, n, state) ==
  LET line == clean.elided[n]
  IN  IF line = <<>> THEN [state |-> state, errors |-> <<>>]
      ELSE IF IsInclude(line) THEN CheckIncludeLine(path, clean, n, state)
      ELSE [state |-> state,
            errors |-> CheckDeclarations(path, line, n) \o CheckCalls(line, n) \o CheckScopes(path, clean, n)]

-----------------------------------------------------------------------------
\* CheckForIncludeWhatYouUse()

HEADERS_CONTAINING_TEMPLATES ==
  [h \in {"deque", "list", "slist", "stack", "vector"} |-> {h}]
  @@ "map" :> {"map", "multimap"} @@ "set" :> {"set", "multiset"} @@ "queue" :> {"queue", "priority_queue"}
  @@ "hash_map" :> {"hash_map", "hash_multimap"} @@ "hash_set" :> {"hash_set", "hash_multiset"}
  @@ "functional" :> {"plus", "minus", "less", "greater", "equal_to", "bind1st", "ptr_fun", "mem_fun"}
  @@ "limits" :> {"numeric_limits"} @@ "memory" :> {"allocator"} @@ "utility" :> {"pair"}
  @@ "string" :> {"char_traits", "basic_string"}
AlgorithmTemplates == {"copy", "max", "min", "min_element", "sort", "swap", "transform"}

\* Is the header needed for what the line uses?
Uses(line, header) ==
  LET call == <<No({">", ">>", "->", "."}), One(AlgorithmTemplates)>>
      s == Find(line, "string")
      template == /\ header \in DOMAIN HEADERS_CONTAINING_TEMPLATES
                  /\ Search(<<One(HEADERS_CONTAINING_TEMPLATES[header]), S0, One({"<", "<<", "<="})>>, line)
  IN  \/ template
      \/ header = "string" /\ s # 0 /\ (s < 3 \/ line[s - 1] # "::" \/ line[s - 2] = "std")
      \/ /\ header = "algorithm"
         /\ \/ Search(call \o <<T("("), No({")"})>>, line)
            \/ Search(call \o <<T("<"), AnyText, T(">"), T("("), No({")"})>>, line)
\* The last line that needs the header, or -1
RequiredAt(clean, header) ==
  Max({-1} \cup {n \in DOMAIN clean.elided :
                   LET line == clean.elided[n]
                   IN  line # <<>> /\ line[1] \notin {"#", "#include", "#define", "#ifndef", "#endif"}
                       /\ Uses(line, header)})
Required(clean) ==
  {h \in DOMAIN HEADERS_CONTAINING_TEMPLATES \cup {"algorithm", "string"} : RequiredAt(clean, h) # -1}

\* The path of the header, if a .c file and the header are of one module: the same
\* path once _test, -inl, public and internal are left out, as far as it goes
WithoutAccess(dir) == SelectSeq(dir, LAMBDA d : d \notin {"public", "internal"})
FilesBelongToSameModule(path, header) ==
  LET base == IF Len(path.base) > 1 /\ Last(path.base) \in {"unittest", "test"} THEN Front(path.base) ELSE path.base
      name == IF Len(header.base) > 1 /\ Last(header.base) = "inl" THEN Front(header.base) ELSE header.base
      dir == WithoutAccess(path.dir)
      shorter == IF header.dir = <<>> THEN <<>> ELSE <<Head(header.dir)>> \o WithoutAccess(Tail(header.dir))
      cut(s, tail) == SubSeq(s, 1, Len(s) - Len(tail))
  IN  IF path.ext # "c" \/ header.ext # "h" THEN {}
      ELSE IF header.dir = <<>> /\ IsSuffix(name, base)
      THEN {PathOf(dir, cut(base, name) \o header.base, "h")}
      ELSE IF header.dir # <<>> /\ name = base /\ IsSuffix(shorter, dir)
      THEN {PathOf(cut(dir, shorter) \o header.dir, header.base, "h")} ELSE {}

\* The headers that the header file at a path includes, if it can be read; texts
\* gives the lines of the files by their paths.
UpdateIncludeState(texts, path) ==
  IF path \notin DOMAIN texts THEN {}
  ELSE {IncludedBy(CleanseComments(texts[path][i])).header :
          i \in {k \in DOMAIN texts[path] : IsInclude(CleanseComments(texts[path][k]))}}

\* A header counts as included if the header of the file includes it; for a .c
\* file whose header is not found, nothing is said.
CheckForIncludeWhatYouUse(path, clean, state, texts) ==
  LET own == UNION {FilesBelongToSameModule(path, HeaderPath[h]) : h \in DOMAIN state.lines}
      found == own \cap DOMAIN texts
      included == DOMAIN state.lines \cup UNION {UpdateIncludeState(texts, p) : p \in own}
      missing == SetToSeq(Required(clean) \ included)
  IN  IF path.ext = "c" /\ found = {} THEN <<>>
      ELSE [i \in DOMAIN missing |-> Error(RequiredAt(clean, missing[i]), include("_what_you_use"), 4)]
=============================================================================
