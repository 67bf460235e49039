----------------------------- MODULE IncludeState ----------------------------
\* _IncludeState of clint.py: how far the #include lines of a file have come in
\* the order they should be in.
EXTENDS Integers

CONSTANT Places    \* the places of the headers in the alphabet
ASSUME PlacesAssumption == Places \subseteq Nat \ {0}

\* The kinds of header, as _ClassifyInclude() tells them
C_SYS_HEADER == "c"
CPP_SYS_HEADER == "c++"
LIKELY_MY_HEADER == "likely mine"
POSSIBLE_MY_HEADER == "possibly mine"
OTHER_HEADER == "other"
HeaderTypes == {C_SYS_HEADER, CPP_SYS_HEADER, LIKELY_MY_HEADER, POSSIBLE_MY_HEADER, OTHER_HEADER}

INITIAL_SECTION == 0
MY_H_SECTION == 1
C_SECTION == 2
CPP_SECTION == 3
OTHER_H_SECTION == 4

\* The section a header belongs to, and the one it is put into when the includes
\* have come to a section: the header the file implements may also come last.
MineAt(section) == IF section <= MY_H_SECTION THEN MY_H_SECTION ELSE OTHER_H_SECTION
SectionOf(type, section) ==
  IF type = C_SYS_HEADER THEN C_SECTION
  ELSE IF type = CPP_SYS_HEADER THEN CPP_SECTION
  ELSE IF type \in {LIKELY_MY_HEADER, POSSIBLE_MY_HEADER} THEN MineAt(section)
  ELSE OTHER_H_SECTION

\* A header is out of order if the includes have gone past its section.
OutOfOrder(type, section) == SectionOf(type, section) < section

NextSection(type, section) ==
  IF OutOfOrder(type, section) THEN section ELSE SectionOf(type, section)

\* The last header is forgotten when the section changes, or the header is out of
\* order; 0 comes before every header.
LastBefore(type, section, last_header) ==
  IF OutOfOrder(type, section) \/ NextSection(type, section) # section THEN 0 ELSE last_header

\* place is that of the header in the alphabet, once it is canonicalized.
IsInAlphabeticalOrder(place, last_header) == last_header <= place
NextLast(type, section, last_header, place) ==
  IF IsInAlphabeticalOrder(place, LastBefore(type, section, last_header))
  THEN place ELSE LastBefore(type, section, last_header)
=============================================================================
