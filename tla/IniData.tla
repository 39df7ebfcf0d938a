------------------------------- MODULE IniData -------------------------------
(***************************************************************************)
(* The members of a CSimpleIniTempl and what its methods do to them:       *)
(* AddEntry, DeleteValue, LoadData, Save and the functions that look a     *)
(* value up.  The methods are operators on the members, for the object of  *)
(* SimpleIni and for the one that Patcher's DllMain keeps.                 *)
(*                                                                         *)
(* A string is known by its text and by where it lies: in the block the    *)
(* first load has left behind, in the block a load is working on, or at an *)
(* address of the heap.  m_strings is the set of the addresses in use.     *)
(***************************************************************************)
EXTENDS IniText, SequencesExt

CONSTANT Addresses      \* where a copy of a string can be placed

ASSUME AddressesAssumption == Addresses \subseteq Nat \ {0}

InBlock == 0            \* m_pData
InTemp  == -1           \* the data of a load that copies, deleted when it ends
Leaked  == -2           \* the data of a load that copies and has failed
Nowhere == -3           \* NULL
Caller  == -4           \* what a program passes, which is its own

String(text, at) == [text |-> text, at |-> at]
NoString         == String(Null, Nowhere)

NewIni(multiKey, multiLine) ==
    [sections    |-> {},        \* m_data: a name, its comment and its load order
     entries     |-> {},        \* its keys, each with the section it is in
     order       |-> 0,         \* m_nOrder
     fileComment |-> NoString,  \* m_pFileComment
     strings     |-> {},        \* m_strings
     loaded      |-> FALSE,     \* m_pData is not NULL
     multiKey    |-> multiKey,  \* m_bAllowMultiKey
     multiLine   |-> multiLine] \* m_bAllowMultiLine

SectionEntry(name, comment, order) ==
    [name |-> name, comment |-> comment, order |-> order]

KeyEntry(section, key, value, comment, order) ==
    [section |-> section, key |-> key, value |-> value, comment |-> comment,
     order |-> order]

-----------------------------------------------------------------------------
(* Looking up *)

HasSection(o, section) == \E s \in o.sections : s.name.text = section

KeysOf(o, section)       == {e \in o.entries : e.section = section}
EntriesOf(o, section, k) == {e \in KeysOf(o, section) : e.key.text = k}

\* Faulty variant of First: the value that was added last.
LastAdded(entries) == CHOOSE e \in entries : \A f \in entries : e.order >= f.order

\* multimap::find: of several values of a key the one that was added first.
First(entries) == CHOOSE e \in entries : \A f \in entries : e.order <= f.order

\* GetValue, with nothing to return when there is no such key.
GetValue(o, section, k) ==
    IF EntriesOf(o, section, k) = {} THEN Null
    ELSE First(EntriesOf(o, section, k)).value.text

HasMultiple(o, section, k) ==
    o.multiKey /\ \E e, f \in EntriesOf(o, section, k) : e # f

\* Sorted by the load order: the n-th of them has n - 1 in front of it.
InOrder(entries) ==
    LET nth(n) == CHOOSE e \in entries : Cardinality({f \in entries : f.order < e.order}) = n - 1
    IN  [n \in 1..Cardinality(entries) |-> nth(n)]

\* The next three are sorted into the load order, as Save sorts them.
GetAllSections(o) == InOrder(o.sections)

GetAllKeys(o, section) ==
    InOrder({e \in KeysOf(o, section) : e = First(EntriesOf(o, section, e.key.text))})

GetAllValues(o, section, k) ==
    IF o.multiKey THEN InOrder(EntriesOf(o, section, k))
    ELSE <<First(EntriesOf(o, section, k))>>

GetSectionSize(o, section) ==
    CASE ~ HasSection(o, section) -> -1
      [] OTHER -> Cardinality(IF o.multiKey
                              THEN {e.key.text : e \in KeysOf(o, section)}
                              ELSE KeysOf(o, section))

-----------------------------------------------------------------------------
(* Strings *)

\* CopyString: a copy on the heap, or ok = FALSE when there is no room.
CopyString(o, string) ==
    LET free == Addresses \ o.strings
        a    == CHOOSE x \in free : TRUE
    IN  IF free = {} THEN [ok |-> FALSE, o |-> o, string |-> string]
        ELSE [ok     |-> TRUE,
              o      |-> [o EXCEPT !.strings = @ \cup {a}],
              string |-> String(string.text, a)]

Uncopied(o, string) == [ok |-> TRUE, o |-> o, string |-> string]

CopyIf(wanted, o, string) == IF wanted THEN CopyString(o, string) ELSE Uncopied(o, string)

\* DeleteString, for each of the strings at these places.
Free(o, places) == [o EXCEPT !.strings = @ \ places]

-----------------------------------------------------------------------------
(* DeleteValue *)

\* Faulty variant of Strings: the comments are given back too.
StringsAndComments(entries) ==
    UNION {{e.key.at, e.value.at, e.comment.at} : e \in entries}

\* What DeleteValue gives back of the entries it removes.
Strings(entries) == UNION {{e.key.at, e.value.at} : e \in entries}

RemoveEntries(o, entries) ==
    [Free(o, Strings(entries)) EXCEPT !.entries = @ \ entries]

\* Its keys have been removed before.
RemoveSection(o, section) ==
    LET named == {s \in o.sections : s.name.text = section}
    IN  [Free(o, {s.name.at : s \in named}) EXCEPT !.sections = @ \ named]

\* Without a key the section goes, without a value every value of the key.
DeleteValue(o, section, k, value, removeEmpty) ==
    LET gone == {e \in KeysOf(o, section) :
                    (k = Null \/ e.key.text = k) /\ (value = Null \/ e.value.text = value)}
        left == RemoveEntries(o, gone)
    IN  CASE ~ HasSection(o, section) -> o
          [] HasSection(o, section) /\ k = Null ->
                RemoveSection(RemoveEntries(o, KeysOf(o, section)), section)
          [] HasSection(o, section) /\ k # Null ->
                IF gone # {} /\ removeEmpty /\ KeysOf(left, section) = {}
                THEN RemoveSection(left, section)
                ELSE left

-----------------------------------------------------------------------------
(***************************************************************************)
(* AddEntry.  It copies the comment, then the name of a new section, then  *)
(* the key and the value, and returns at the first copy there is no room   *)
(* for: what was done until then stays.  A value that replaces the others  *)
(* of its key takes the order and the comment of the first one.            *)
(***************************************************************************)
Done(o)   == [ok |-> TRUE, o |-> o]
NoMem(o)  == [ok |-> FALSE, o |-> o]

\* Faulty variant of LoadOrder: the replacement goes to the end.
LoadOrderAtEnd(o, old, replace) == o.order

\* Faulty variant of LoadOrder: m_nOrder is taken before it is raised.
LoadOrderTooEarly(o, old, replace) == IF replace THEN First(old).order ELSE o.order - 1

\* Faulty variant of LoadOrder: m_nOrder + 1, which m_nOrder itself does not follow.
LoadOrderNotKept(o, old, replace) == IF replace THEN First(old).order ELSE o.order + 1

\* The load order of the entry that gets the value, o.order being the next one.
LoadOrder(o, old, replace) == IF replace THEN First(old).order ELSE o.order

\* The key and its value, in a section that exists.
AddKey(o, section, key, value, comment, force, copy) ==
    LET old     == EntriesOf(o, section, key.text)
        replace == old # {} /\ o.multiKey /\ force
        insert  == old = {} \/ o.multiKey
        next    == [o EXCEPT !.order = @ + 1]
        keeps   == replace /\ First(old).comment # NoString
        \* The result of this copy is not looked at.
        kept    == IF keeps
                   THEN CopyString(Free(next, {comment.at}), First(old).comment)
                   ELSE Uncopied(next, comment)
        cleared == IF replace THEN RemoveEntries(kept.o, old) ELSE kept.o
        k       == CopyIf(copy /\ insert, cleared, key)
        v       == CopyIf(copy, k.o, value)
        new     == KeyEntry(section, k.string, v.string, kept.string,
                            LoadOrder(next, old, replace))
        updated == [First(old) EXCEPT !.value = v.string]
    IN  CASE ~ k.ok          -> NoMem(k.o)
          [] k.ok /\ ~ v.ok  -> NoMem(v.o)
          [] k.ok /\ v.ok /\ insert ->
                Done([v.o EXCEPT !.entries = @ \cup {new}])
          [] k.ok /\ v.ok /\ ~ insert ->
                Done([v.o EXCEPT !.entries = (@ \ {First(old)}) \cup {updated}])

AddEntry(o, section, key, value, comment, force, copy) ==
    LET noKey   == key = NoString \/ value = NoString
        new     == ~ HasSection(o, section.text)
        c       == CopyIf(copy /\ comment # NoString, o, comment)
        s       == CopyIf(copy /\ new, c.o, section)
        entry   == SectionEntry(s.string, IF noKey THEN c.string ELSE NoString,
                                s.o.order + 1)
        added   == IF new
                   THEN [s.o EXCEPT !.order = @ + 1, !.sections = @ \cup {entry}]
                   ELSE s.o
    IN  CASE ~ c.ok             -> NoMem(c.o)
          [] c.ok /\ ~ s.ok     -> NoMem(s.o)
          [] c.ok /\ s.ok /\ noKey -> Done(added)
          [] c.ok /\ s.ok /\ ~ noKey ->
                AddKey(added, section.text, key, value, c.string, force, copy)

\* A string that the caller of a method passes; no string for NULL.
Argument(text) == IF text = Null THEN NoString ELSE String(text, Caller)

SetValue(o, section, k, value, comment, force) ==
    AddEntry(o, Argument(section), Argument(k), Argument(value), Argument(comment),
             force, TRUE)

-----------------------------------------------------------------------------
(***************************************************************************)
(* LoadData, one round of its loop at a time.  The strings of the first    *)
(* load stay where they are in its data, which becomes m_pData; every      *)
(* later load copies them and deletes its data.                            *)
(***************************************************************************)
Idle == [status |-> "idle", lines |-> << >>, next |-> 1, section |-> <<Blank>>]

Copying(o) == o.loaded

Loaded(o, text) ==
    IF text = Null THEN NoString ELSE String(text, IF Copying(o) THEN InTemp ELSE InBlock)

\* An empty file is not loaded at all.
BeginLoad(o, text) ==
    LET lines   == Append(text, Blank)
        wanted  == o.fileComment = NoString
        comment == IF wanted THEN FindFileComment(lines) ELSE Null
        c       == CopyIf(Copying(o) /\ comment # Null, o, Loaded(o, comment))
        with    == IF comment = Null THEN o ELSE [c.o EXCEPT !.fileComment = c.string]
    IN  CASE text = << >> -> [o |-> o, l |-> Idle]
          [] text # << >> /\ c.ok ->
                [o |-> with,
                 l |-> [Idle EXCEPT !.status = "reading", !.lines = lines,
                                    !.next = Len(comment) + 1]]
          [] text # << >> /\ ~ c.ok ->
                [o |-> [o EXCEPT !.fileComment = String(comment, Leaked)], l |-> Idle]

EndLoad(o) == IF Copying(o) THEN o ELSE [o EXCEPT !.loaded = TRUE]

LoadRound(o, l) ==
    LET e == FindEntry(l.lines, l.next, l.section, o.multiLine, Copying(o))
        r == AddEntry(o, Loaded(o, e.section), Loaded(o, e.key), Loaded(o, e.value),
                      Loaded(o, e.comment), FALSE, Copying(o))
    IN  CASE ~ e.found          -> [o |-> EndLoad(o), l |-> Idle]
          [] e.found /\ r.ok    -> [o |-> r.o,
                                    l |-> [l EXCEPT !.next = e.next, !.section = e.section]]
          [] e.found /\ ~ r.ok  -> [o |-> r.o, l |-> Idle]

\* All of it, for an object that nothing keeps from being loaded.
LoadData(o, text) ==
    LET round(w, i) == IF w.l = Idle THEN w ELSE LoadRound(w.o, w.l)
    IN  FoldLeft(round, BeginLoad(o, text), [i \in 1..(Len(text) + 2) |-> i]).o

-----------------------------------------------------------------------------
(* Save *)

EndTag == "END_OF_TEXT"

\* Faulty variant of IsMultiLineData: white space at its ends is overlooked.
HasSeveralLines(value) == Len(value) > 1

\* White space at an end of the value, or a newline in it.
IsMultiLineData(value) == Len(value) > 1 \/ value[1].text \in DOMAIN Padded

\* [name], whose last line takes the bracket when the name runs over lines.
SectionLines(name) ==
    IF Len(name) = 1 THEN <<Section(name[1].text)>>
    ELSE <<Open(name[1].text)>> \o SubSeq(name, 2, Len(name) - 1)
            \o <<[Last(name) EXCEPT !.value = "]"]>>

\* key = word; without a key the line is not read as an entry.
KeyLine(key, word) == IF key = <<Blank>> THEN Line("word", "=", word) ELSE Entry(key[1].text, word)

ValueLines(o, key, value) ==
    IF o.multiLine /\ IsMultiLineData(value)
    THEN <<KeyLine(key, "<<<END_OF_TEXT")>> \o value \o <<Word(EndTag)>>
    ELSE <<KeyLine(key, value[1].text)>> \o Tail(value)

EntryLines(o, e) ==
    (IF e.comment = NoString THEN << >> ELSE <<Blank>> \o e.comment.text)
        \o ValueLines(o, e.key.text, e.value.text)

\* The values of a key are written together, where the first of them stands.
KeyLines(o, e) ==
    LET values == GetAllValues(o, e.section, e.key.text)
    IN  FlattenSeq([i \in DOMAIN values |-> EntryLines(o, values[i])])

BodyLines(o, section) ==
    LET keys == GetAllKeys(o, section)
    IN  FlattenSeq([i \in DOMAIN keys |-> KeyLines(o, keys[i])])

\* Two newlines are written in front of everything but the first.
Save(o) ==
    LET sections == GetAllSections(o)
        gap(i)   == IF i = 1 /\ o.fileComment = NoString THEN << >> ELSE <<Blank, Blank>>
        part(i)  == LET s == sections[i]
                    IN  gap(i) \o s.comment.text
                        \o (IF s.name.text = <<Blank>> THEN << >> ELSE SectionLines(s.name.text))
                        \o BodyLines(o, s.name.text)
    IN  o.fileComment.text \o FlattenSeq([i \in DOMAIN sections |-> part(i)])
=============================================================================
