------------------------------- MODULE IniText -------------------------------
(***************************************************************************)
(* How ini.h reads a text: FindFileComment, FindEntry, LoadMultiLineText.  *)
(*                                                                         *)
(* A text is the sequence of its lines, each ended by a newline; a string  *)
(* (a name, a value, a comment) is the sequence of its lines too, so that  *)
(* a string can run over a newline, as it does in the code when nothing    *)
(* ends it.  A line is known by what its first characters make of it.      *)
(* White space in front of a line is left out: the code skips it, but for  *)
(* a comment line that goes on and for the tag that ends a value.  So are  *)
(* the two forms of a newline, which it makes one.  White space around a   *)
(* value does matter, and a word may be padded with it.  A name stands for *)
(* every name that differs from it only in case.                           *)
(***************************************************************************)
EXTENDS Integers, Sequences, FiniteSetsExt

CONSTANTS
    Padded,     \* function: a word with white space around it -> the word inside
    Tags        \* function: a word that begins with <<< -> the tag behind that

ASSUME WordsAssumption ==
    /\ \A w \in DOMAIN Padded : Padded[w] \notin DOMAIN Padded
    /\ DOMAIN Tags \cap DOMAIN Padded = {}

Line(kind, text, value) == [value |-> value, text |-> text, kind |-> kind]

Blank         == Line("blank", "", "")
Comment(c)    == Line("comment", c, "")
Section(name) == Line("section", name, "")      \* [name]
Open(name)    == Line("open", name, "")         \* [name, and no bracket on the line
Entry(k, v)   == Line("entry", k, v)            \* k = v
\* Anything else: a line without "=", or with nothing in front of it.
Word(w)       == IF w = "" THEN Blank ELSE Line("word", w, "")

IsComment(line) == line.kind = "comment"
IsSpace(line)   == line.kind = "blank"

\* No string: the code's NULL.  Even the empty string has a line.
Null == << >>

Trim(w) == IF w \in DOMAIN Padded THEN Padded[w] ELSE w

-----------------------------------------------------------------------------
(***************************************************************************)
(* LoadMultiLineText.  Without a tag it takes comment lines, and blank     *)
(* ones if another comment line follows them (blanks = TRUE); with a tag   *)
(* it takes every line up to the one that is the tag.                      *)
(***************************************************************************)

\* The last line of the comment that begins at line i.
CommentEnd(lines, i, blanks) ==
    Max({j \in i..Len(lines) :
            /\ IsComment(lines[j])
            /\ \A k \in i..j : IsComment(lines[k]) \/ (blanks /\ IsSpace(lines[k]))})

\* The lines that end the text which begins in line i.
TagLines(lines, i, tag) == {j \in i..Len(lines) : lines[j] = Word(tag)}

(***************************************************************************)
(* FindEntry writes its terminators into the text it reads.  A string that *)
(* it leaves without one runs on until the next terminator: the end of a   *)
(* comment, of a section name or of a key.                                 *)
(***************************************************************************)
RunsOn(lines, i) ==
    LET stops == {j \in (i + 1)..Len(lines) :
                    lines[j].kind \in {"comment", "section", "entry"}}
        j     == Min(stops)
        last  == CASE lines[j].kind = "comment" ->
                            SubSeq(lines, j, CommentEnd(lines, j, TRUE))
                   [] lines[j].kind = "section" -> <<Open(lines[j].text)>>
                   [] OTHER                     -> <<Word(lines[j].text)>>
    IN  IF stops = {} THEN SubSeq(lines, i + 1, Len(lines))
        ELSE SubSeq(lines, i + 1, j - 1) \o last

\* The comment lines the text begins with, up to the first other line.
FindFileComment(lines) ==
    IF lines # << >> /\ IsComment(lines[1])
    THEN SubSeq(lines, 1, CommentEnd(lines, 1, FALSE))
    ELSE Null

-----------------------------------------------------------------------------
(***************************************************************************)
(* FindEntry: the next section or key from line p on.  The comment is the  *)
(* last one in front of it.  A section name without its bracket does not   *)
(* end the search, but it has become the section, and its end is wherever  *)
(* the next terminator is written.  The value of a multi-line entry is     *)
(* ended at the newline in front of the tag line; when the tag follows at  *)
(* once that newline belongs to the key, and the value begins at the tag.  *)
(***************************************************************************)
NotFound == [found |-> FALSE]

Found(section, key, value, comment, next) ==
    [found |-> TRUE, section |-> section, key |-> key, value |-> value,
     comment |-> comment, next |-> next]

\* The last comment between lines p and i, blank lines in it included.
CommentBefore(lines, p, i) ==
    LET comments == {j \in p..(i - 1) : IsComment(lines[j])}
        last     == Max(comments)
        first    == Min({j \in comments : CommentEnd(lines, j, TRUE) = last})
    IN  IF comments = {} THEN Null ELSE SubSeq(lines, first, last)

\* The section of an entry in line i, when it was section at line p.
SectionAt(lines, p, i, section) ==
    LET opens == {j \in p..(i - 1) : lines[j].kind = "open"}
    IN  IF opens = {} THEN section
        ELSE <<Word(lines[Max(opens)].text)>> \o RunsOn(lines, Max(opens))

\* What a value tagged with tag is, when its lines begin at line i; copied:
\* whether the caller copies it before the text behind it is read.
MultiLineValue(lines, i, tag, copied) ==
    LET tags == TagLines(lines, i, tag)
        e    == Min(tags)
    IN  CASE tags = {} -> SubSeq(lines, i, Len(lines))
          [] e > i     -> SubSeq(lines, i, e - 1)
          [] OTHER     -> IF copied THEN SubSeq(lines, i, Len(lines))
                          ELSE <<lines[i]>> \o RunsOn(lines, i)

FindEntry(lines, p, section, multiLine, copied) ==
    LET entries == {j \in p..Len(lines) : lines[j].kind \in {"section", "entry"}}
        i       == Min(entries)
        line    == lines[i]
        comment == CommentBefore(lines, p, i)
        value   == Trim(line.value)
        here    == SectionAt(lines, p, i, section)
        key     == <<Word(line.text)>>
        tags    == TagLines(lines, i + 1, Tags[value])
    IN  CASE entries = {} -> NotFound
          [] entries # {} /\ line.kind = "section" ->
                Found(<<Word(line.text)>>, Null, Null, comment, i + 1)
          [] entries # {} /\ line.kind = "entry" ->
                IF ~ (multiLine /\ value \in DOMAIN Tags)
                THEN Found(here, key, <<Word(value)>>, comment, i + 1)
                \* An empty tag and an empty line: no text at all, and the search ends.
                ELSE IF Tags[value] = "" /\ lines[i + 1] = Blank THEN NotFound
                ELSE Found(here, key, MultiLineValue(lines, i + 1, Tags[value], copied),
                           comment,
                           IF tags = {} THEN Len(lines) + 1 ELSE Min(tags) + 1)
=============================================================================
