-------------------------------- MODULE IniFile --------------------------------
(****************************************************************************)
(* How a file of sections and properties is read (abg-ini.cc): white space  *)
(* and comments between them, escaped characters, and how far the reader    *)
(* gets in a file that is not as it should be.  A name or a word of a value *)
(* counts as one character.                                                 *)
(****************************************************************************)
EXTENDS Naturals, Sequences, SequencesExt

CONSTANT File \* the files that may be given: sequences of lines

NewLine == "\n"
Backslash == "\\"
NoChar == ""
ReservedChars == {"[", "]", "=", ";", "#", Backslash}

VARIABLES
  file,       \* the file; never changes
  rest,       \* what is left of it
  eof,        \* a peek or a get has met its end
  at,         \* "file" (in read_sections), "section" (in read_section), "read", "aborted"
  header,     \* the name of the section that is read
  properties, \* its properties so far
  sections    \* the sections read

iniVars == <<file, rest, eof, at, header, properties, sections>>

-----------------------------------------------------------------------------
(* write_sections(), with which binilint writes what it has read; nothing   *)
(* is escaped.                                                              *)
WriteProperty(p) == p[1] \o <<" ", "=", " ">> \o p[2]
WriteSection(s) ==
    <<"[">> \o s[1] \o <<"]", NewLine>>
      \o FlattenSeq([i \in DOMAIN s[2] |-> <<" ", " ">> \o WriteProperty(s[2][i]) \o <<NewLine>>])
WriteSections(config) ==
    FlattenSeq([i \in DOMAIN config |-> WriteSection(config[i]) \o <<NewLine>>])

-----------------------------------------------------------------------------
(* The lines of a file, and what they are taken to mean.  People escape the *)
(* reserved characters in values; a section may also have been written by   *)
(* write_sections().                                                        *)
Header(n) == [is |-> "header", name |-> n, value |-> <<>>]
Property(n, v) == [is |-> "property", name |-> n, value |-> v]
Bare(n) == [is |-> "bare", name |-> n, value |-> <<>>]        \* no equals sign
NoValue(n) == [is |-> "novalue", name |-> n, value |-> <<>>]  \* nothing after it
Continued(n, v) == [is |-> "continued", name |-> n, value |-> v]
Quoted(n, v) == [is |-> "quoted", name |-> n, value |-> v]    \* every character is escaped
Comment(c) == [is |-> "comment", name |-> <<>>, value |-> c]
Stray == [is |-> "stray", name |-> <<>>, value |-> <<>>]      \* an escape that ends the line early

Written(s) == [is |-> "written", name |-> s[1], value |-> s[2]]

Escaped(v) == FlattenSeq([i \in DOMAIN v |-> IF v[i] \in ReservedChars THEN <<Backslash, v[i]>> ELSE <<v[i]>>])

(* What an escaped character stands for: white space, or itself.            *)
WhiteSpaceEscapes == "0" :> " " @@ "a" :> " " @@ "b" :> " " @@ "r" :> " " @@ "t" :> "\t"
Unescaped(c) == IF c \in DOMAIN WhiteSpaceEscapes THEN WhiteSpaceEscapes[c] ELSE c

LineText(l) ==
    CASE l.is = "header" -> <<"[">> \o l.name \o <<"]", NewLine>>
      [] l.is = "property" -> <<" ">> \o l.name \o <<" ", "=", " ">> \o Escaped(l.value) \o <<NewLine>>
      [] l.is = "bare" -> <<" ">> \o l.name \o <<NewLine>>
      [] l.is = "novalue" -> <<" ">> \o l.name \o <<" ", "=", NewLine>>
      [] l.is = "continued" -> l.name \o <<"=">> \o Escaped(l.value) \o <<Backslash, NewLine>>
      [] l.is = "quoted" -> <<" ">> \o l.name \o <<" ", "=", " ">>
                              \o FlattenSeq([i \in DOMAIN l.value |-> <<Backslash, l.value[i]>>]) \o <<NewLine>>
      [] l.is = "comment" -> <<" ", "#">> \o l.value \o <<NewLine>>
      [] l.is = "stray" -> <<"x", Backslash>>
      [] l.is = "written" -> WriteSections(<<<<l.name, l.value>>>>)

TextOf(f) == FlattenSeq([i \in DOMAIN f |-> LineText(f[i])])

(* What lines mean, read until one is not as it should be ("fault"): a      *)
(* property that cannot be told from what surrounds it, or one outside of a *)
(* section.  A section without properties is ignored.                       *)
Meant(f) ==
    LET Close(m) == IF m.properties = <<>> THEN m.sections
                    ELSE Append(m.sections, <<m.header, m.properties>>)
        Begin(m, n, p) == [sections |-> Close(m), header |-> n, properties |-> p, fault |-> FALSE]
        Add(m, n, v) == [m EXCEPT !.properties = Append(@, <<n, v>>)]
        Read(m, l) ==
          CASE m.fault \/ l.is = "comment" -> m
            [] ~m.fault /\ l.is \in {"header", "written"} -> Begin(m, l.name, l.value)
            [] ~m.fault /\ l.is = "property" /\ m.header # <<>> -> Add(m, l.name, l.value)
            [] ~m.fault /\ l.is = "quoted" /\ m.header # <<>> ->
                 Add(m, l.name, [i \in DOMAIN l.value |-> Unescaped(l.value[i])])
            [] OTHER -> [m EXCEPT !.fault = TRUE]
        read == FoldLeft(Read, Begin([properties |-> <<>>, sections |-> <<>>], <<>>, <<>>), f)
    IN [sections |-> Close(read), fault |-> read.fault]

(* Whether another section follows one without properties.                  *)
HasEmptySection(f) ==
    \E i, j \in DOMAIN f :
      /\ i < j /\ f[i].is = "header" /\ f[j].is \in {"header", "written"}
      /\ \A k \in i + 1 .. j - 1 : f[k].is = "comment"

-----------------------------------------------------------------------------
(* What characters are for.                                                 *)
CharIsWhiteSpace(c) == c \in {" ", "\t", NewLine}
CharIsCommentStart(c) == c \in {";", "#"}
CharIsDelimiter(c) == c \in {"[", "]", "="} \/ CharIsWhiteSpace(c) \/ CharIsCommentStart(c)
CharIsPropertyValueChar(c) == c \notin {"[", "]", "=", NewLine} /\ ~CharIsCommentStart(c)
CharIsSectionNameChar(c) == c \notin {"[", "]", NewLine} /\ ~CharIsCommentStart(c)
CharIsPropertyNameChar(c) == ~CharIsDelimiter(c)

(* read_next_char() of text t at i: whether there was one, which, and where *)
(* the next one is.  An escaped end of line is dropped; the character after *)
(* it is taken from the stream but not given to the caller, whose variable  *)
(* keeps what it held before.                                               *)
ReadNextChar(t, i, before) ==
    CASE i > Len(t) -> [ok |-> FALSE, char |-> before, next |-> i]
      [] i <= Len(t) /\ t[i] # Backslash -> [ok |-> TRUE, char |-> t[i], next |-> i + 1]
      [] i = Len(t) /\ t[i] = Backslash -> [ok |-> FALSE, char |-> before, next |-> i + 1]
      [] i < Len(t) /\ t[i] = Backslash /\ t[i + 1] # NewLine ->
           [ok |-> TRUE, char |-> Unescaped(t[i + 1]), next |-> i + 2]
      [] i < Len(t) /\ t[i] = Backslash /\ t[i + 1] = NewLine ->
           [ok |-> i + 2 <= Len(t), char |-> before, next |-> i + 3]

(* skip_white_spaces() from i: where what is not white space begins.        *)
SkipWhiteSpaces(t, i) ==
    LET n == SelectInSubSeq(t, i, Len(t), LAMBDA c : ~CharIsWhiteSpace(c))
    IN IF i > Len(t) \/ n = 0 THEN Len(t) + 1 ELSE n

Reading(t) == [ok : BOOLEAN, char : ToSet(t) \cup {NoChar, " ", "\t"}, next : 1 .. Len(t) + 3]

(* skip_line() from i.                                                      *)
SkipLine(t, i) ==
    LET after[c \in Reading(t)] ==
          IF ~c.ok \/ c.char = NewLine THEN c.next ELSE after[ReadNextChar(t, c.next, c.char)]
    IN after[ReadNextChar(t, i, NoChar)]

(* skip_white_spaces_or_comments() from i.                                  *)
SkipWhiteSpacesOrComments(t, i) ==
    LET after[j \in 1 .. Len(t) + 3] ==
          IF j > Len(t) THEN Len(t) + 1
          ELSE IF CharIsWhiteSpace(t[j]) THEN after[SkipWhiteSpaces(t, j)]
          ELSE IF CharIsCommentStart(t[j]) THEN after[SkipLine(t, j)]
          ELSE j
    IN after[i]

(* Reading one character and on while the next one is of a kind; that each  *)
(* can be read is asserted.  What the caller's variable holds before each:  *)
(* the character that is peeked at, or the one read before.                 *)
ReadWhile(t, i, IsOne(_), Held(_, _)) ==
    LET from[c \in Reading(t)] ==
          IF ~c.ok THEN [read |-> <<>>, next |-> Len(t) + 1, ok |-> FALSE]
          ELSE IF c.next > Len(t) \/ ~IsOne(t[c.next])
          THEN [read |-> <<c.char>>, next |-> c.next, ok |-> TRUE]
          ELSE [from[ReadNextChar(t, c.next, Held(t[c.next], c.char))] EXCEPT !.read = <<c.char>> \o @]
    IN from[ReadNextChar(t, i, Held(t[i], NoChar))]
Peeked(peeked, before) == peeked
Before(peeked, before) == before

-----------------------------------------------------------------------------
(* What comes of reading a section's header or a property: "ok", "no" if it *)
(* is not one (what has been read of it is gone) or "abort".                *)
Outcome(what, name, value, next) ==
    [what |-> what, name |-> name, value |-> value, next |-> next]
NoneAt(i) == Outcome("no", <<>>, <<>>, i)
NameRead(n) == Outcome(IF n.ok THEN "ok" ELSE "abort", n.read, <<>>, n.next)

(* read_property_name()                                                     *)
ReadPropertyName(t) ==
    IF t = <<>> \/ ~CharIsPropertyNameChar(t[1]) THEN NoneAt(1)
    ELSE NameRead(ReadWhile(t, 1, CharIsPropertyNameChar, Peeked))

(* read_property_value() at i; that the end has not been met is checked     *)
(* before.                                                                  *)
ValueRead(name, n) == Outcome(IF n.ok THEN "ok" ELSE "abort", name, n.read, n.next)
ReadPropertyValue(t, name, i) ==
    CASE i > Len(t) -> NoneAt(i)
      [] i <= Len(t) /\ CharIsDelimiter(t[i]) -> Outcome("ok", name, <<>>, i)
      [] OTHER -> ValueRead(name, ReadWhile(t, i, CharIsPropertyValueChar, Before))

(* read_property(): a name, an equals sign, a value, and white space, ends  *)
(* of lines too, between them.                                              *)
AfterEquals(t, name, c) ==
    IF ~c.ok \/ c.char # "=" THEN NoneAt(c.next)
    ELSE ReadPropertyValue(t, name, SkipWhiteSpaces(t, c.next))
AfterName(t, n) ==
    IF n.what # "ok" THEN n
    ELSE AfterEquals(t, n.name, ReadNextChar(t, SkipWhiteSpaces(t, n.next), NoChar))
ReadProperty(t) == AfterName(t, ReadPropertyName(t))

(* read_section_name().  Of the first character the assertion accepts that  *)
(* it cannot be read, and the name becomes that of no character; that is    *)
(* the end of the text, so that no section comes of it.                     *)
ReadSectionName(t, i) ==
    IF i > Len(t) \/ ~CharIsSectionNameChar(t[i]) THEN NoneAt(i)
    ELSE IF ~ReadNextChar(t, i, NoChar).ok THEN Outcome("ok", <<NoChar>>, <<>>, Len(t) + 1)
    ELSE NameRead(ReadWhile(t, i, CharIsSectionNameChar, Before))

(* read_section(), up to its properties.  The opening bracket may be        *)
(* missing.                                                                 *)
AfterBracket(t, name, c) ==
    IF ~c.ok \/ c.char # "]" THEN NoneAt(c.next)
    ELSE Outcome("ok", name, <<>>, SkipWhiteSpacesOrComments(t, c.next))
AfterSectionName(t, n) ==
    IF n.what # "ok" THEN n
    ELSE AfterBracket(t, n.name, ReadNextChar(t, SkipWhiteSpaces(t, n.next), NoChar))
ReadHeader(t) ==
    AfterSectionName(t, ReadSectionName(t, IF t # <<>> /\ t[1] = "[" THEN 2 ELSE 1))

-----------------------------------------------------------------------------
(* The text from i on, and whether its end has been met.                    *)
GoOnAt(i) ==
    /\ rest' = SubSeq(rest, i, Len(rest))
    /\ eof' = (eof \/ i > Len(rest))

(* read_sections()                                                          *)
BetweenSections == rest # <<>> /\ (CharIsWhiteSpace(rest[1]) \/ CharIsCommentStart(rest[1]))

SkipToSection ==
    /\ at = "file" /\ ~eof
    /\ rest = <<>> \/ BetweenSections
    /\ GoOnAt(SkipWhiteSpacesOrComments(rest, 1))
    /\ UNCHANGED <<file, at, header, properties, sections>>

AtSection == at = "file" /\ rest # <<>> /\ ~BetweenSections

StartSection ==
    /\ AtSection
    /\ \E h \in {ReadHeader(rest)} :
         /\ h.what = "ok"
         /\ at' = "section" /\ header' = h.name /\ properties' = <<>>
         /\ GoOnAt(h.next)
    /\ UNCHANGED <<file, sections>>

(* No section: the loop of read_sections() ends, which succeeds all the     *)
(* same.                                                                    *)
NoHeader ==
    /\ AtSection
    /\ \E h \in {ReadHeader(rest)} : h.what = "no" /\ GoOnAt(h.next)
    /\ at' = "read"
    /\ UNCHANGED <<file, header, properties, sections>>

(* Mutant of AddProperty: a comment after a property is not skipped.        *)
AddPropertyOnly ==
    /\ at = "section"
    /\ \E p \in {ReadProperty(rest)} :
         /\ p.what = "ok"
         /\ properties' = Append(properties, <<p.name, p.value>>)
         /\ GoOnAt(SkipWhiteSpaces(rest, p.next))
    /\ UNCHANGED <<file, at, header, sections>>

AddProperty ==
    /\ at = "section"
    /\ \E p \in {ReadProperty(rest)} :
         /\ p.what = "ok"
         /\ properties' = Append(properties, <<p.name, p.value>>)
         /\ GoOnAt(SkipWhiteSpacesOrComments(rest, p.next))
    /\ UNCHANGED <<file, at, header, sections>>

(* What is not a property ends the section, and a section without           *)
(* properties ends the loop of read_sections().                             *)
EndSection ==
    /\ at = "section"
    /\ \E p \in {ReadProperty(rest)} : p.what = "no" /\ GoOnAt(p.next)
    /\ IF properties # <<>>
       THEN /\ sections' = Append(sections, <<header, properties>>)
            /\ at' = IF eof' THEN "read" ELSE "file"
       ELSE /\ sections' = sections
            /\ at' = "read"
    /\ UNCHANGED <<file, header, properties>>

(* The end of the file.                                                     *)
EndFile ==
    /\ at = "file" /\ eof
    /\ at' = "read"
    /\ UNCHANGED <<file, rest, eof, header, properties, sections>>

(* A character that is asserted to be there is not.                         *)
Abort ==
    /\ \/ AtSection /\ ReadHeader(rest).what = "abort"
       \/ at = "section" /\ ReadProperty(rest).what = "abort"
    /\ at' = "aborted"
    /\ UNCHANGED <<file, rest, eof, header, properties, sections>>

IniInit ==
    /\ file \in File
    /\ rest = TextOf(file)
    /\ eof = FALSE
    /\ at = "file"
    /\ header = <<>> /\ properties = <<>> /\ sections = <<>>

IniTypeOK ==
    /\ IsSuffix(rest, TextOf(file))
    /\ eof \in BOOLEAN /\ (eof => rest = <<>>)
    /\ at \in {"file", "section", "read", "aborted"}
    /\ \A i \in DOMAIN sections : Len(sections[i]) = 2 /\ sections[i][2] # <<>>

=============================================================================
