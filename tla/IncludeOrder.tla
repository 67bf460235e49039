----------------------------- MODULE IncludeOrder ----------------------------
\* What _IncludeState promises for the #include lines of the files, one file
\* after the other: when nothing is reported, they can be arranged in sections.
EXTENDS IncludeState, Sequences

VARIABLES
  includes,      \* the headers of the file so far, with their kinds
  section,       \* _section
  last_header,   \* _last_header
  silent         \* nothing was reported about the order
orderVars == <<includes, section, last_header, silent>>

Header == [type : HeaderTypes, place : Places]

OrderInit == includes = <<>> /\ section = INITIAL_SECTION /\ last_header = 0 /\ silent = TRUE

\* One #include line of a header that the file has not included
Include(h) ==
  /\ includes' = Append(includes, h)
  /\ section' = NextSection(h.type, section)
  /\ last_header' = NextLast(h.type, section, last_header, h.place)
  /\ silent' = (/\ silent /\ ~OutOfOrder(h.type, section)
                /\ IsInAlphabeticalOrder(h.place, LastBefore(h.type, section, last_header)))

\* The next file gets an _IncludeState of its own.
NextFile ==
  includes' = <<>> /\ section' = INITIAL_SECTION /\ last_header' = 0 /\ silent' = TRUE

OrderNext == (\E h \in Header : Include(h)) \/ NextFile
OrderSpec == OrderInit /\ [][OrderNext]_orderVars

-----------------------------------------------------------------------------
\* The sections a header may stand in
Allowed(type) ==
  IF type = C_SYS_HEADER THEN {C_SECTION}
  ELSE IF type = CPP_SYS_HEADER THEN {CPP_SECTION}
  ELSE IF type = OTHER_HEADER THEN {OTHER_H_SECTION}
  ELSE {MY_H_SECTION, OTHER_H_SECTION}

\* s puts every header into a section it may stand in, the sections follow each
\* other, and the headers of a section are in the order of the alphabet.
Arranged(hs, s) ==
  /\ \A i \in 1..Len(hs) : s[i] \in Allowed(hs[i].type)
  /\ \A i, j \in 1..Len(hs) :
       i < j => /\ s[i] <= s[j]
                /\ s[i] = s[j] => hs[i].place <= hs[j].place

OrderTypeOK ==
  /\ includes \in Seq(Header) /\ section \in 0..4
  /\ last_header \in Nat /\ silent \in BOOLEAN

\* A file about whose includes nothing is reported has them in the documented order
\* (comment of CheckIncludeLine()): the header it implements, C, C++, others.
SilentIfSorted ==
  silent => \E s \in [1..Len(includes) -> 1..4] : Arranged(includes, s)

\* "self._section will move monotonically through this set" (comment of the class)
\* until the next file begins.
SectionAdvances == [][section <= section' \/ NextFile]_orderVars
=============================================================================
