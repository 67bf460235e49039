------------------------------ MODULE MCLinter ------------------------------
\* Linter for TLC: small files made of the lines of one theme each, and the
\* invocations that lint them.
EXTENDS Linter

Palettes ==
  "nolint" :> <<<<"x", ";", " ">>, <<"x", ";", " ", " ", "//", " ", "NOLINT", " ">>,
       <<"x", ";", " ", " ", "//", " ", "NOLINT(whitespace/end_of_line)", " ">>,
       <<"x", ";", " ", " ", "//", " ", "NOLINT(unheard/of)", " ">>, <<"/*", " ", "NOLINT">>,
       <<"x", " ", "*/">>>>
  @@ "includes" :> <<<<"#include", " ", "\"", "lib/foo.h", "\"">>, <<"#include", " ", "\"", "foo_more.h", "\"">>,
       <<"#include", " ", "<", "stdio.h", ">">>, <<"#include", " ", "<", "zlib.h", ">">>,
       <<"#include", " ", "<", "string", ">">>, <<"#include", " ", "\"", "bar.h", "\"">>,
       <<"#include", " ", "\"", "lib/bar.h", "\"">>, <<"vector", "<", "int", ">", " ", "v", ";">>>>
  @@ "functions" :> <<<<"int", " ", "f", "(", ")", " ", "{">>, <<"TEST", "(", "a", ")", " ", "{">>,
       <<"int", " ", "g", "(", ")", ";">>, <<" ", " ", "x", ";">>, <<"}">>, <<>>>>
  @@ "bodies" :> <<<<"int", " ", "f", "(", ")", " ", "{">>, <<"TEST", "(", "a", ")", " ", "{">>,
       <<" ", " ", "x", ";">>, <<"}">>>>
  @@ "classes" :> <<<<"class", " ", "A", " ", "{">>, <<"struct", " ", "B", " ", "b", ";", " ", "}">>,
       <<"struct", " ", "C", " ", "{">>, <<"class", " ", "D", ";">>, <<"}", ";">>,
       <<" ", " ", "virtual", " ", "void", " ", "f", "(", ")", ";">>,
       <<" ", " ", "A", "(", "int", " ", "x", ")", ";">>>>
  @@ "braces" :> <<<<"{">>, <<" ", " ", "{", " ", "a", " ", "}", ";">>, <<"}", " ", "else", " ", "if", " ", "(", "a">>,
       <<" ", " ", "b", ")", " ", "{">>, <<"}">>, <<"else", " ", "{">>, <<" ", " ", "{", " ", "c">>,
       <<" ", " ", "{", " ", "c", ";">>>>
  @@ "guard" :> <<<<"#ifndef", " ", "FOO_H">>, <<"#define", " ", "FOO_H">>, <<"#endif", " ", " ", "//", " ", "FOO_H">>,
       <<"#endif", " ", " ", "//", " ", "FOO_H_">>, <<"#endif", " ", " ", "//", " ", "NOLINT(unheard/of)">>,
       <<"#endif", " ", " ", "//", " ", "NOLINT(build/header_guard)">>, <<"namespace", " ", "{">>>>
  @@ "language" :> <<<<"f", "(", "int", "&", " ", "a", ")", " ", "{">>,
       <<"f", "(", "const", " ", "A", "&", " ", "a", ")", " ", "{">>,
       <<" ", " ", "a", " ", "=", " ", "int", "(", "b", ")", ";">>,
       <<" ", " ", "a", " ", "=", " ", "new", " ", "int", "(", "b", ")", ";">>,
       <<" ", " ", "b", " ", "=", " ", "&", "(", "c", ")", "d", ";">>,
       <<"string", " ", "s", " ", "=", " ", "\"", "a", "\"", ";">>, <<"string", " ", "s", "(", ")", " ", "{">>,
       <<"dynamic_cast", "<", "A", "*", ">", "(", "b", ")", ";">>, <<" ", " ", "x_", "(", "x_", ")", ",">>,
       <<"long", " ", "a", ";">>, <<"unsigned", " ", "short", " ", "port", ";">>,
       <<"short", " ", "port", ";">>, <<"long", " ", "double", " ", "a", ";">>,
       <<" ", " ", "snprintf", "(", "a", ",", " ", "10", ",", " ", "\"", "x", "\"", ")", ";">>,
       <<" ", " ", "sprintf", "(", "a", ",", " ", "\"", "x", "\"", ")", ";">>,
       <<" ", " ", "strcat", "(", "a", ",", " ", "b", ")", ";">>,
       <<" ", " ", "sscanf", "(", "a", ",", " ", "b", ")", ";">>,
       <<" ", " ", "A", "*", " ", "operator", "&", "(", ")", ";">>,
       <<"}", " ", "if", " ", "(", "a", ")", " ", "{">>, <<" ", " ", "printf", "(", "a", ")", ";">>,
       <<" ", " ", "printf", "(", "\"", "a", "\"", ")", ";">>,
       <<" ", " ", "printf", "(", "a", "(", "b", ")", ")", ";">>,
       <<" ", " ", "memset", "(", "a", ",", " ", "b", ",", " ", "0", ")", ";">>,
       <<" ", " ", "memset", "(", "a", ",", " ", "0", ",", " ", "b", ")", ";">>,
       <<"using", " ", "namespace", " ", "a", ";">>,
       <<" ", " ", "int", " ", "a", "[", "b", " ", "+", " ", "1", "]", ";">>,
       <<" ", " ", "int", " ", "a", "[", "kSize", " ", "*", " ", "2", "]", ";">>,
       <<" ", " ", "int", " ", "a", "[", "sizeof", "(", "b", ")", "]", ";">>,
       <<" ", " ", "DISALLOW_COPY_AND_ASSIGN", "(", "A", ")", ";">>, <<" ", " ", "}", ";">>,
       <<" ", " ", "rand", "(", ")", ";">>, <<" ", " ", "a", ".", "rand", "(", ")", ";">>,
       <<" ", " ", "*", "a", "++", ";">>, <<"make_pair", "<", "a", ">", "(", "b", ")", ";">>,
       <<" ", " ", "sort", "(", "a", ")", ";">>, <<" ", " ", "std", "::", "string", " ", "a", ";">>,
       <<" ", " ", "map", "<", "a", ">", " ", "b", ";">>, <<"#include", " ", "<", "iostream", ">">>>>
  @@ "spacing" :> <<<<"a", "==", "b", ";">>, <<"a", "<=", "b", ";">>, <<"a", "<", "b", ";">>, <<"a", "=", "b", ";">>,
       <<" ", " ", "a", " ", "=", " ", "!", "b", ";">>, <<" ", " ", "a", " ", "=", " ", "!", " ", "b", ";">>,
       <<" ", " ", "f", "(", " ", "a", ")", ";">>, <<" ", " ", "f", " ", "(", "a", ")", ";">>,
       <<" ", " ", "f", "(", "a", " ", ")", ";">>, <<" ", " ", "if", " ", "(", " ", "a", ")", " ", "{">>,
       <<" ", " ", "if", "(", "a", ")", " ", "{">>, <<" ", " ", "if", " ", "(", "a", " ", ")", " ", "{">>,
       <<" ", " ", "for", " ", "(", "a", ";", " ", "b", ";", " ", ")", " ", "{">>,
       <<" ", " ", "a", ",", "b", ";">>, <<" ", " ", "a", ";", "b", ";">>, <<" ", " ", "a", "{">>,
       <<" ", " ", "}", "else", " ", "{">>, <<" ", " ", "a", " ", "[", "b", "]", ";">>,
       <<" ", " ", "a", " ", ";">>, <<" ", " ", ":", ";">>,
       <<" ", " ", "CHECK", "(", "a", " ", "==", " ", "1", ")", ";">>,
       <<" ", " ", "CHECK", "(", "a", " ", "==", " ", "b", ")", ";">>, <<" ", " ", "a", ";", " ", "b", ";">>,
       <<"//", " ", "TODO(name)", ":", " ", "a">>, <<"//", " ", "TODO", " ", "a">>,
       <<"//", "TODO(name)", ":", "a">>, <<" ", " ", "a", ";", " ", "//", " ", "b">>,
       <<" ", " ", "a", ";", " ", " ", "//", "b">>, <<"public", ":">>, <<" ", "a", ";">>, <<"\t", "a", ";">>,
       <<"a", ":">>, <<" ", " ", "a_very_long_name", ";">>, <<"//", " ", "http://", "a_very_long_name">>,
       <<" ", " ", "a", " ", "=", " ", "\"", "b">>, <<" ", " ", "/*", " ", "a">>,
       <<" ", " ", "/*", " ", "a", " ", "*/", " ", "b", ";">>,
       <<" ", " ", "a", ";", " ", "/*", " ", "b", " ", "*/">>, <<"do", " ", "a", ";">>,
       <<"else", " ", "a", ";">>, <<" ", " ", "else", " ", "{">>, <<"{", " ", "a", ";", " ", "}">>,
       <<" ", "{", " ", "a", ";", " ", "}", ";">>,
       <<" ", " ", "a", " ", "=", " ", "{", " ", "b", " ", "}", ";">>, <<"#endif", " ", "a">>,
       <<"class", " ", "A", "::", "B", ";">>, <<"const", " ", "string", " ", "&", "a", ";">>,
       <<" ", " ", "void", " ", "static", " ", "a", ";">>,
       <<" ", " ", "printf", "(", "\"", "%q", "\"", ")", ";">>,
       <<" ", " ", "a", " ", "<", "?", " ", "b", ";">>,
       <<"template", "<", "class", " ", "A", ">", " ", "class", " ", "B", " ", "{">>,
       <<"class", " ", "API", " ", "D", " ", "{">>,
       <<" ", " ", "explicit", " ", "D", "(", "A", " ", "a", ")", ";">>,
       <<" ", " ", "virtual", " ", "~", "D", "(", ")", ";">>,
       <<" ", " ", "D", "(", "const", " ", "D", "&", " ", "a", ")", ";">>, <<"}", ";">>, <<"}">>, <<>>>>
  @@ "mixed" :> <<<<"int", " ", "f", "(", ")", " ", "{">>, <<"class", " ", "A", " ", "{">>,
       <<"x", ";", " ", " ", "//", " ", "NOLINT", " ">>, <<"/*", " ", "x">>, <<"x", ";", " ">>>>

\* All texts of k lines of a palette, with the newline at the end, as a sequence
TextsOf(palette, k) ==
  LET b == Len(palette)
  IN  [i \in 1..b^k |-> Append([j \in 1..k |-> palette[1 + (((i - 1) \div b^(j - 1)) % b)]], <<>>)]
FilesOf(theme, path, k) ==
  LET texts == TextsOf(Palettes[theme], k)
  IN  [i \in DOMAIN texts |-> [path |-> path, text |-> texts[i], carriage_return_found |-> FALSE]]

\* Lines that matter to the rules for the line behind them
Heads ==
  {<<>>, <<"}">>, <<"public", ":">>, <<" ", " ", "/*", " ", "a">>, <<" ", " ", "a", ";">>, <<"do", " ", "a", ";">>,
   <<" ", " ", "a", " ", "=", " ", "\"", "b">>, <<" ", " ", "if", " ", "(", " ", "a", ")", " ", "{">>,
   <<"template", "<", "class", " ", "A", ">", " ", "class", " ", "B", " ", "{">>,
   <<"class", " ", "API", " ", "D", " ", "{">>, <<"f", "(", "const", " ", "A", "&", " ", "a", ")", " ", "{">>,
   <<" ", " ", "DISALLOW_COPY_AND_ASSIGN", "(", "A", ")", ";">>, <<"#include", " ", "<", "iostream", ">">>}
Headed(files) == SelectSeq(files, LAMBDA f : f.text[1] \in Heads)

foo == PathOf(<<"lib">>, <<"foo">>, "c")
foo_h == PathOf(<<"lib">>, <<"foo">>, "h")
test == PathOf(<<"lib">>, <<"foo", "test">>, "c")
\* The files that are linted after each other come first, then an odd one, then the rest
Mixed == FilesOf("mixed", foo, 2)
Odd == <<[path |-> PathOf(<<"lib">>, <<"foo">>, "txt"), text |-> <<<<"a">>>>, carriage_return_found |-> FALSE],
         [path |-> test, text |-> <<<<"//", " ", "Copyright">>, <<"a">>>>, carriage_return_found |-> TRUE]>>
MCFiles ==
  Mixed \o Odd
  \o FilesOf("nolint", foo, 3) \o FilesOf("includes", foo, 3) \o FilesOf("functions", foo, 3)
  \o FilesOf("bodies", foo, 5) \o FilesOf("classes", foo, 4) \o FilesOf("braces", foo, 3) \o FilesOf("guard", foo_h, 3)
  \o FilesOf("language", foo_h, 1) \o FilesOf("language", test, 1) \o FilesOf("spacing", foo, 1)
  \o Headed(FilesOf("language", test, 2)) \o Headed(FilesOf("spacing", foo, 2))
MCHeaders == foo_h :> <<<<"#include", " ", "<", "vector", ">">>, <<>>>>

AlphabetPlaces == 1..Len(Alphabet)

\* Names from 1 on; 0 is a file that cannot be read.
Few == 1..Len(Mixed)
MCOptions ==
  {<<>>, <<Option("verbose", 3), Option("counting", "toplevel")>>, <<Option("counting", "detailed")>>,
   <<Option("filter", <<Filter("-", <<"whitespace">>), Filter("+", whitespace("end_of_line"))>>)>>}
Refusals ==
  {<<Option("help", "")>>, <<Option("output", "html")>>, <<Option("filter", <<>>)>>,
   <<Option("counting", "some"), Option("filter", <<>>)>>, <<Option("filter", <<Filter("", <<"build">>)>>)>>}
MCInvocations ==
  {[opts |-> <<Option("verbose", 0)>>, filenames |-> <<f>>] : f \in DOMAIN MCFiles}
  \cup {[opts |-> <<Option("verbose", 0)>>, filenames |-> <<f, g, f>>] : f, g \in Few}
  \cup {[opts |-> o, filenames |-> <<f, 0, Len(Mixed) + 1, Len(Mixed) + 2>>] : o \in MCOptions, f \in Few}
  \cup {[opts |-> o, filenames |-> <<1>>] : o \in Refusals}
  \cup {[opts |-> <<>>, filenames |-> <<>>]}
=============================================================================
